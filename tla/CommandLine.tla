---------------------------- MODULE CommandLine -----------------------------
(***************************************************************************)
(* The docker command, from main to its exit, and the calls of its gRPC    *)
(* server, as processes on the files of ContextStore. A process finds out  *)
(* its current context, runs a command of its own, hands it to a backend,  *)
(* or delegates it to com.docker.cli; it may be interrupted, and it may be *)
(* killed between any two steps.                                           *)
(***************************************************************************)
EXTENDS ContextStore

CONSTANTS Commands,      \* the commands that may be started, per process
          InitialFiles,  \* what the files hold at first
          MaxLaunches    \* how many processes are started

VARIABLE launches

vars == <<meta, config, proc, touched, launches>>

Command == [op : {"create", "rm", "use", "ls", "show", "update", "inspect", "backend",
                  "SetCurrent", "List", "Call"},
            args : Seq(Name \cup {"default"}),
            type : Type,                        \* of a context to create
            flag : Name \cup {"", "default"},   \* --context, or the key of a call
            force : BOOLEAN]

ServerOps == {"SetCurrent", "List", "Call"}

ASSUME CommandAssumption ==
    /\ \A p \in Process : Commands[p] \subseteq Command
    /\ \A p \in Process : \A c \in Commands[p] :
         c.op \in {"create", "use", "update", "SetCurrent"} => Len(c.args) = 1
    /\ InitialFiles \subseteq [meta : [Name -> {"none"} \cup Type], config : Configs]

(* Only these have a backend; of the others there is nothing to run. *)
Registered == {"aci", "ecs", "ecs-local", "kube", "local"}

(* Everything below "context" is handled here whatever the context is. *)
ContextAgnostic(op) == op \in {"create", "rm", "use", "ls", "show", "update", "inspect"}

Idle == [pc |-> "idle", op |-> "none", args |-> <<>>, type |-> "moby", flag |-> "",
         force |-> FALSE, cur |-> "", ctype |-> "moby", cfg |-> Torn, seen |-> Torn,
         dirs |-> {}, had |-> {}, shown |-> {}, fd |-> FALSE, made |-> FALSE,
         failed |-> FALSE, canceled |-> FALSE, ran |-> FALSE, delegated |-> FALSE,
         child |-> FALSE, status |-> <<>>, exit |-> "none"]

Init ==
    /\ \E f \in InitialFiles : meta = f.meta /\ config = f.config
    /\ proc = [p \in Process |-> Idle]
    /\ touched = [p \in Process |-> FALSE]
    /\ launches = 0

(* A process starts, or a call reaches the server. seen and had are what there
   was then; like made and touched they are not known to the program. *)
Launch(p) ==
    /\ proc[p].pc \in {"idle", "exited", "killed"}
    /\ launches < MaxLaunches
    /\ \E c \in Commands[p] :
         proc' = [proc EXCEPT ![p] = [Idle EXCEPT !.op = c.op, !.args = c.args, !.type = c.type,
                                        !.flag = c.flag, !.force = c.force, !.seen = config,
                                        !.had = {n \in Name : meta[n] # "none"},
                                        !.pc = IF c.op \in ServerOps THEN "intercept" ELSE "main"]]
    /\ touched' = [touched EXCEPT ![p] = FALSE]
    /\ launches' = launches + 1
    /\ UNCHANGED <<meta, config>>

-----------------------------------------------------------------------------
(* main *)

Finish(p, status, code) ==
    proc' = [proc EXCEPT ![p].pc = "exited", ![p].exit = code,
                         ![p].status = IF status = "" THEN @ ELSE Append(@, status)]

(* The context that --context names, or else the one of the configuration file. *)
CurrentContext(flag) ==
    CASE flag # "" -> flag
      [] flag = "" /\ (config.torn \/ config.current = "") -> "default"
      [] OTHER -> config.current

(* A command given with --host or --version is not ours. *)
ForwardFlags(p) ==
    /\ proc[p].pc = "main"
    /\ Step(p, "delegate")
    /\ UNCHANGED <<meta, config, touched, launches>>

(* There is no configuration directory: the user has no home, or said so. *)
NoConfigDir(p) ==
    /\ proc[p].pc = "main"
    /\ Finish(p, "", "1")
    /\ UNCHANGED <<meta, config, touched, launches>>

DetermineCurrentContext(p) ==
    /\ proc[p].pc = "main"
    /\ proc' = [proc EXCEPT ![p].pc = "type", ![p].cur = CurrentContext(proc[p].flag)]
    /\ UNCHANGED <<meta, config, touched, launches>>

FirstStep(op) ==
    CASE op = "create" -> "create.check"
      [] op = "rm" -> "rm.next"
      [] op = "use" -> "use"
      [] op = "ls" -> "ls.readdir"
      [] op = "show" -> "show"
      [] op = "update" -> "update"
      [] op = "inspect" -> "delegate"
      [] OTHER -> "prerun"

(* store.New cannot make the directory of the store. *)
NewStoreFails(p) ==
    /\ proc[p].pc = "type"
    /\ Step(p, "delegate")
    /\ UNCHANGED <<meta, config, touched, launches>>

(* The type of the current context, "moby" when it cannot be read. *)
ContextType(p) ==
    /\ proc[p].pc = "type"
    /\ proc' = [proc EXCEPT ![p].pc = FirstStep(proc[p].op),
                            ![p].ctype = IF Get(proc[p].cur) = "error" THEN "moby" ELSE Get(proc[p].cur)]
    /\ UNCHANGED <<meta, config, touched, launches>>

(* The store is read again, before a command that depends on the context. *)
MustDelegate(p) == Get(proc[p].cur) \in {"error", "moby"}

PreRun(p) ==
    /\ proc[p].pc = "prerun"
    /\ Step(p, IF MustDelegate(p) THEN "delegate" ELSE "client")
    /\ UNCHANGED <<meta, config, touched, launches>>

(* And once more, to find the backend. *)
NewClient(p) ==
    /\ proc[p].pc = "client"
    /\ IF Get(proc[p].cur) \in Registered THEN Step(p, "backend") ELSE Fail(p)
    /\ UNCHANGED <<meta, config, touched, launches>>

(* What the backend does is the business of other modules; it may fail. *)
BackendCall(p) ==
    /\ proc[p].pc = "backend"
    /\ \E ok \in BOOLEAN :
         proc' = [proc EXCEPT ![p].pc = IF ok THEN "success" ELSE "failed",
                              ![p].failed = ~ok, ![p].ran = TRUE]
    /\ UNCHANGED <<meta, config, touched, launches>>

Succeed(p) ==
    /\ proc[p].pc = "success" /\ proc[p].op \notin ServerOps
    /\ Finish(p, "success", "0")
    /\ UNCHANGED <<meta, config, touched, launches>>

(* The end of main after an error. A command that is not for every context is
   delegated after all if its context is not, or no longer, one of ours. *)
HandleError(p) ==
    /\ proc[p].pc = "failed" /\ proc[p].op \notin ServerOps
    /\ \/ /\ proc[p].canceled
          /\ Finish(p, "canceled", "130")
       \/ /\ ~proc[p].canceled
          /\ proc[p].ctype = "aws" \/ ContextAgnostic(proc[p].op)
          /\ Finish(p, "failure", "1")
       \/ /\ ~proc[p].canceled
          /\ proc[p].ctype # "aws" /\ ~ContextAgnostic(proc[p].op)
          /\ IF MustDelegate(p) THEN Step(p, "delegate") ELSE Finish(p, "failure", "1")
    /\ UNCHANGED <<meta, config, touched, launches>>

-----------------------------------------------------------------------------
(* Exec: the classic command line does the work. *)

LookPath(p) ==
    /\ proc[p].pc = "delegate"
    /\ \/ proc' = [proc EXCEPT ![p].pc = "exec", ![p].delegated = TRUE]
       \/ Finish(p, "", "1")             \* com.docker.cli is not there
    /\ UNCHANGED <<meta, config, touched, launches>>

StartChild(p) ==
    /\ proc[p].pc = "exec" /\ ~proc[p].child
    /\ proc' = [proc EXCEPT ![p].child = TRUE]
    /\ UNCHANGED <<meta, config, touched, launches>>

(* com.docker.cli keeps its own keys in the same configuration file, which it
   replaces as a whole. *)
ChildWritesConfig(p) ==
    /\ proc[p].pc = "exec" /\ proc[p].child /\ ~config.torn
    /\ OtherKeys \ config.keys # {}
    /\ config' = [config EXCEPT !.keys = OtherKeys]
    /\ Touch(p)
    /\ UNCHANGED <<meta, proc, launches>>

ChildExits(p) ==
    /\ proc[p].pc = "exec" /\ proc[p].child
    /\ \/ Finish(p, "success", "0")
       \/ Finish(p, "failure", "1")
    /\ UNCHANGED <<meta, config, touched, launches>>

-----------------------------------------------------------------------------
(* The context commands *)

(* createAci, createEcs, createKube, createLocalSimulation: the name is looked
   at before the questions are asked, and again by the store. *)
CheckNewContext(p) ==
    /\ proc[p].pc = "create.check"
    /\ IF proc[p].type # "local" /\ ContextExists(Head(proc[p].args))
       THEN Fail(p) ELSE Step(p, "create.data")
    /\ UNCHANGED <<meta, config, touched, launches>>

(* The questions, the login and the calls to the cloud; they may fail. *)
CreateContextData(p) ==
    /\ proc[p].pc = "create.data"
    /\ \/ Step(p, "create.exists")
       \/ proc[p].type # "local" /\ Fail(p)
    /\ UNCHANGED <<meta, config, touched, launches>>

RunUse(p) ==
    /\ proc[p].pc = "use"
    /\ IF Get(Head(proc[p].args)) = "error" THEN Fail(p) ELSE Step(p, "cfg.load")
    /\ UNCHANGED <<meta, config, touched, launches>>

(* Mutant: the context is removed first and left as the current one. *)
RunRemove_NoCheck(p) ==
    /\ proc[p].pc = "rm.next"
    /\ IF proc[p].args = <<>>
       THEN Step(p, IF proc[p].failed THEN "failed" ELSE "success")
       ELSE Step(p, "rm.stat")
    /\ UNCHANGED <<meta, config, touched, launches>>

(* One argument of rm. The current context is only removed with --force, after
   "default" has been made the current one. *)
RunRemove(p) ==
    /\ proc[p].pc = "rm.next"
    /\ IF proc[p].args = <<>>
       THEN Step(p, IF proc[p].failed THEN "failed" ELSE "success")
       ELSE \/ /\ Head(proc[p].args) # proc[p].cur
               /\ Step(p, "rm.stat")
            \/ /\ Head(proc[p].args) = proc[p].cur
               /\ IF proc[p].force
                  THEN Step(p, "cfg.load")
                  ELSE proc' = [proc EXCEPT ![p].args = Tail(@), ![p].failed = TRUE]
    /\ UNCHANGED <<meta, config, touched, launches>>

RunShow(p) ==
    /\ proc[p].pc = "show"
    /\ IF Get(proc[p].cur) = "error" THEN Fail(p) ELSE Step(p, "success")
    /\ UNCHANGED <<meta, config, touched, launches>>

(* Only contexts of the classic command line can be changed. *)
RunUpdate(p) ==
    /\ proc[p].pc = "update"
    /\ IF Get(Head(proc[p].args)) \in {"error", "moby"} THEN Step(p, "delegate") ELSE Fail(p)
    /\ UNCHANGED <<meta, config, touched, launches>>

-----------------------------------------------------------------------------
(* The server: a call runs in the context it names, or the one of the
   configuration file. An empty name stays empty. *)

Intercept(p) ==
    /\ proc[p].pc = "intercept"
    /\ \/ /\ proc[p].flag # ""
          /\ proc' = [proc EXCEPT ![p].pc = "configure", ![p].cur = proc[p].flag]
       \/ /\ proc[p].flag = "" /\ ~config.torn
          /\ proc' = [proc EXCEPT ![p].pc = "configure", ![p].cur = config.current]
       \/ /\ proc[p].flag = "" /\ config.torn
          /\ Finish(p, "", "error")
    /\ UNCHANGED <<meta, config, touched, launches>>

(* The calls about contexts need no backend. *)
ConfigureContext(p) ==
    /\ proc[p].pc = "configure"
    /\ CASE proc[p].op = "SetCurrent" -> Step(p, "cfg.load")
         [] proc[p].op = "List" -> IF config.torn THEN Fail(p) ELSE Step(p, "ls.readdir")
         [] proc[p].op = "Call" -> IF Get(proc[p].cur) \in Registered
                                   THEN Step(p, "backend") ELSE Finish(p, "", "error")
    /\ UNCHANGED <<meta, config, touched, launches>>

(* The outer interceptor reports what the handler returned. *)
Reply(p) ==
    /\ proc[p].op \in ServerOps
    /\ \/ proc[p].pc = "success" /\ Finish(p, "success", "ok")
       \/ proc[p].pc = "failed" /\ Finish(p, "failure", "error")
    /\ UNCHANGED <<meta, config, touched, launches>>

-----------------------------------------------------------------------------
Active(p) == proc[p].pc \notin {"idle", "exited", "killed"}

(* SIGINT or SIGTERM: the first one cancels the context of the command. *)
Interrupt(p) ==
    /\ Active(p) /\ proc[p].op \notin ServerOps /\ ~proc[p].canceled
    /\ proc' = [proc EXCEPT ![p].canceled = TRUE]
    /\ UNCHANGED <<meta, config, touched, launches>>

(* The process is gone, with what it had open. *)
Kill(p) ==
    /\ Active(p)
    /\ proc' = [proc EXCEPT ![p].pc = "killed", ![p].fd = FALSE]
    /\ UNCHANGED <<meta, config, touched, launches>>

Run(p) ==
    \/ ForwardFlags(p) \/ NoConfigDir(p) \/ NewStoreFails(p)
    \/ DetermineCurrentContext(p) \/ ContextType(p) \/ PreRun(p) \/ NewClient(p)
    \/ BackendCall(p) \/ Succeed(p) \/ HandleError(p)
    \/ LookPath(p) \/ StartChild(p) \/ ChildExits(p) \/ ChildWritesConfig(p)
    \/ CheckNewContext(p) \/ CreateContextData(p) \/ RunUse(p) \/ RunRemove(p)
    \/ RunShow(p) \/ RunUpdate(p)
    \/ Intercept(p) \/ ConfigureContext(p) \/ Reply(p)
    \/ StoreStep(p) /\ UNCHANGED launches

Next == \E p \in Process : Launch(p) \/ Run(p) \/ Interrupt(p) \/ Kill(p)

(* A process that can go on does; the classic command line and the backends
   return. Nobody is obliged to start, interrupt or kill one. *)
Spec == Init /\ [][Next]_vars /\ \A p \in Process : WF_vars(Run(p))

-----------------------------------------------------------------------------
(* Of two commands that create a context of one name only one makes its
   directory (Create in store.go), as long as the directory stays. *)
ExclusiveCreate ==
    \A p, q \in Process :
        proc[p].made /\ proc[q].made /\ p # q => Head(proc[p].args) # Head(proc[q].args)

(* A listing of our own that nobody disturbed shows every context there is a directory
   for, or fails: a damaged context is not passed over (List in store.go). *)
ListingComplete ==
    \A p \in Process :
        /\ proc[p].op \in {"ls", "List"} /\ proc[p].exit \in {"0", "ok"}
        /\ ~touched[p] /\ ~proc[p].delegated
        => proc[p].shown = proc[p].had

(* The configuration file can be read, and so can the context it names. *)
CurrentReadable ==
    ~config.torn /\ (config.current = "" \/ Get(config.current) # "error")

(* The current context stays one that can be read, but for these steps: the file
   is truncated, to be written by the next step of that command, and stays so if
   it is killed there, or two such writes overlap (writeFile); rm removes a context that was not the current
   one when it looked, or that another command has made current again after
   rm --force had gone to the default (runRemove); or create goes on with a
   context that others have removed and made again meanwhile (Create). *)
CurrentStep ==
    CurrentReadable /\ ~CurrentReadable' =>
      \E p \in Process :
        /\ proc'[p].pc # proc[p].pc
        /\ \/ proc[p].pc = "cfg.open" \/ (proc[p].pc = "cfg.write" /\ touched[p])
           \/ /\ proc[p].pc = "rm.unlink" /\ Head(proc[p].args) = config.current
              /\ proc[p].cur # config.current \/ (proc[p].force /\ touched[p])
           \/ /\ proc[p].pc \in {"create.open", "create.write"} /\ touched[p]
              /\ Head(proc[p].args) = config.current

CurrentStaysReadable == [][CurrentStep]_vars

(* Writing the current context leaves the file whole, with the rest as it was
   when the command began and a current context that can be read; unless the
   command is killed before it has written, when all the file held is lost, or
   files were changed under it: then it writes back what it had read, over what
   came since, or two writes run into each other. SetCurrent does not look at
   the context (WriteCurrentContext). *)
WriteStep ==
    \A p \in Process :
      proc[p].pc = "cfg.write" /\ proc'[p].pc # "cfg.write" =>
        IF proc'[p].pc = "killed" THEN UNCHANGED config
        ELSE IF touched[p] THEN config' = Torn \/ config'.keys = proc[p].cfg.keys
        ELSE /\ ~config'.torn /\ config'.keys = proc[p].seen.keys
             /\ proc[p].op # "SetCurrent" => CurrentReadable'

(* A file that does not parse is not taken for an empty one: what replaces it is
   what a command had read from it when it still did (loadFile). *)
MendedStep ==
    config.torn /\ ~config'.torn =>
      \E p \in Process :
        proc[p].pc = "cfg.write" /\ ~proc[p].cfg.torn /\ config'.keys = proc[p].cfg.keys

KeysKept == [][WriteStep /\ MendedStep]_vars

(* A command reports itself once at most, as a success exactly when it exits
   with 0 (main, exit and Exec). *)
ReportedOnce ==
    \A p \in Process :
        /\ Len(proc[p].status) <= 1
        /\ proc[p].pc = "exited" =>
             (proc[p].exit \in {"0", "ok"} <=> proc[p].status = <<"success">>)

(* What a backend has carried out is not handed to the classic command line as
   well, unless the context was changed under the command (end of main). *)
OneBackend == \A p \in Process : proc[p].ran /\ proc[p].delegated => touched[p]

(***************************************************************************)
(* What a command reports is what happened, whatever another process does  *)
(* to the files and wherever that one is killed: a context it says it      *)
(* created is its own, a listing is whole, one program has carried the     *)
(* command out, and it is reported once, as a success exactly if it exits  *)
(* with 0.                                                                 *)
(***************************************************************************)
ReportsTrue ==
    /\ ExclusiveCreate
    /\ ListingComplete
    /\ OneBackend
    /\ ReportedOnce

(***************************************************************************)
(* What is stored stays: no command takes away the context that was in     *)
(* use when it looked, unless it is forced, and none loses the rest of the *)
(* configuration file, unless it is killed between truncating and writing  *)
(* it or another process comes between; a file damaged so is not           *)
(* overwritten by a command that could not read it.                        *)
(***************************************************************************)
StoredIsKept == CurrentStaysReadable /\ KeysKept
=============================================================================
