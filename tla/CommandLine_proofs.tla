------------------------- MODULE CommandLine_proofs -------------------------
(***************************************************************************)
(* Proofs about the commands on the context files, for any number of       *)
(* processes, any commands, any names, and any contents of the files; and  *)
(* about the commands on images and what they draw while they run.         *)
(***************************************************************************)
EXTENDS CommandLine, ComposeImages, TLAPS, SequenceTheorems, WellFoundedInduction

(* The arguments of a command, the places where a process can be and what  *)
(* a process keeps, as records of these types.                             *)
Arg == Name \cup {"default"}

Config == {"cfg.load", "cfg.open", "cfg.write"}

PC == {"idle", "exited", "killed", "main", "type", "prerun", "client", "backend", "delegate",
       "exec", "success", "failed", "create.check", "create.data", "create.exists",
       "create.mkdir", "create.open", "create.write", "rm.next", "rm.stat", "rm.unlink",
       "rm.rmdir", "use", "ls.readdir", "ls.read", "show", "update", "intercept",
       "configure"} \cup Config

Report == {"success", "failure", "canceled"}

Reports == {<<>>} \cup {<<st>> : st \in Report}

Proc == [pc : PC, op : {"none", "create", "rm", "use", "ls", "show", "update", "inspect",
                        "backend", "SetCurrent", "List", "Call"},
         args : Seq(Arg), type : Type, flag : Name \cup {"", "default"}, force : BOOLEAN,
         cur : Name \cup {"", "default"}, ctype : Type, cfg : Configs, seen : Configs,
         dirs : SUBSET Name, had : SUBSET Name, shown : SUBSET Name, fd : BOOLEAN,
         made : BOOLEAN, failed : BOOLEAN, canceled : BOOLEAN, ran : BOOLEAN,
         delegated : BOOLEAN, child : BOOLEAN, status : Reports,
         exit : {"none", "0", "1", "130", "ok", "error"}]

(* The files and the processes.                                            *)
StoreType ==
    /\ meta \in [Name -> {"none", "bare", "torn"} \cup Type]
    /\ config \in Configs
    /\ touched \in [Process -> BOOLEAN]
    /\ proc \in [Process -> Proc]

(* The steps that a command of each kind goes through.                     *)
On(r) ==
    \/ r.pc \in {"exited", "killed"}
    \/ r.pc = "idle" /\ r.op = "none"
    \/ r.pc \in {"main", "type"} /\ r.op \notin ServerOps \cup {"none"}
    \/ r.pc \in {"intercept", "configure"} /\ r.op \in ServerOps
    \/ r.pc \in {"success", "failed"} /\ r.op # "none"
    \/ r.pc \in {"prerun", "client"} /\ r.op = "backend"
    \/ r.pc = "backend" /\ r.op \in {"backend", "Call"}
    \/ r.pc \in {"delegate", "exec"} /\ r.op \notin ServerOps \cup {"none"}
    \/ r.pc \in {"create.check", "create.data", "create.exists", "create.mkdir", "create.open",
                 "create.write"} /\ r.op = "create"
    \/ r.pc \in {"rm.next", "rm.stat", "rm.unlink", "rm.rmdir"} /\ r.op = "rm"
    \/ r.pc \in {"use", "show", "update"} /\ r.op = r.pc
    \/ r.pc \in {"ls.readdir", "ls.read"} /\ r.op \in {"ls", "List"}
    \/ r.pc \in Config /\ r.op \in {"rm", "use", "SetCurrent"}

(* Where a command has not begun its own work, or no longer does it.       *)
Apart == {"main", "delegate", "exec", "exited", "killed"}

(* What a process knows about itself, whatever the others do: its          *)
(* arguments and context,                                                  *)
OwnArgs(r) ==
    /\ r.op \in {"create", "use", "SetCurrent"} => r.args # <<>>
    /\ r.pc \in {"rm.stat", "rm.unlink", "rm.rmdir"} \cup Config => r.args # <<>>
    /\ r.pc \in {"create.mkdir", "create.open", "create.write", "rm.unlink", "rm.rmdir"} =>
         Head(r.args) # "default"
    /\ r.made => r.op = "create" /\ Head(r.args) # "default"
    /\ r.op = "rm" /\ r.pc \notin Apart => r.cur # ""
    /\ r.pc \in {"rm.stat", "rm.unlink", "rm.rmdir"} => Head(r.args) # r.cur \/ r.force
    /\ r.pc \in Config /\ r.op = "rm" => r.force
    /\ r.pc \in {"cfg.open", "cfg.write"} => ~r.cfg.torn

(* what it has reported, and who has carried it out.                       *)
OwnReport(r) ==
    /\ r.pc # "exited" => r.status = <<>> /\ r.exit = "none"
    /\ r.pc = "exited" => (r.exit \in {"0", "ok"} <=> r.status = <<"success">>)
    /\ r.delegated => r.pc \in {"exec", "exited", "killed"}
    /\ r.pc = "exec" => r.delegated
    /\ r.ran => r.op \in {"backend", "Call"}
    /\ r.ran => r.pc \in {"success", "failed", "delegate", "exec", "exited", "killed"}

Own(r) == On(r) /\ OwnArgs(r) /\ OwnReport(r)

(* The contexts there is a directory for.                                  *)
Present == {n \in Name : meta[n] # "none"}

(* What it knows about the files as long as nobody else changes them: the  *)
(* rest of the configuration file is still what it was,                    *)
KnowsKeys(r) ==
    /\ r.op \in {"rm", "use", "SetCurrent"} /\ r.pc \notin {"cfg.write", "killed", "exec", "exited"} =>
         config.keys = r.seen.keys
    /\ r.pc = "cfg.open" => r.cfg.keys = r.seen.keys
    /\ r.pc = "cfg.write" => config = Torn /\ r.cfg.keys = r.seen.keys

(* the context to use is there and the one to remove is not in use,        *)
KnowsCurrent(r) ==
    /\ r.op = "use" /\ r.pc \in Config => Get(Head(r.args)) # "error"
    /\ r.op = "rm" /\ r.flag = "" /\ r.pc \notin Apart =>
         config.current \in {r.cur, ""}
    /\ r.op = "rm" /\ (r.flag = "" \/ Head(r.args) = r.cur) /\ r.pc \in {"rm.stat", "rm.unlink", "rm.rmdir"} =>
         Head(r.args) # config.current

(* the context it makes is as far as it has got,                           *)
KnowsOwn(r) ==
    /\ r.pc = "create.open" => meta[Head(r.args)] = "bare"
    /\ r.pc = "create.write" => meta[Head(r.args)] = "torn"

(* the contexts to list are those that were there,                         *)
KnowsList(r) ==
    /\ r.op \in {"ls", "List"} /\ r.pc \in {"main", "type", "intercept", "configure", "ls.readdir"} =>
         r.had = Present /\ r.shown = {}
    /\ r.pc = "ls.read" => r.dirs \cup r.shown = r.had
    /\ r.op \in {"ls", "List"} /\ (r.pc = "success" \/ r.exit \in {"0", "ok"}) /\ ~r.delegated =>
         r.shown = r.had

(* and the context of a backend still has that backend.                    *)
KnowsBackend(r) ==
    /\ r.pc = "backend" \/ r.ran => Get(r.cur) \in Registered
    /\ r.ran => ~r.delegated /\ r.pc \notin {"delegate", "exec"}

Fresh(r) == KnowsKeys(r) /\ KnowsCurrent(r) /\ KnowsOwn(r) /\ KnowsList(r) /\ KnowsBackend(r)

(* A context that somebody made has a directory, and one maker.            *)
MadeStands == \A p \in Process : proc[p].made => meta[Head(proc[p].args)] # "none"

(* The inductive invariant.                                                *)
CommandInv ==
    /\ StoreType
    /\ \A p \in Process : Own(proc[p])
    /\ \A p \in Process : proc[p].pc = "idle" \/ touched[p] \/ Fresh(proc[p])
    /\ MadeStands /\ ExclusiveCreate

-----------------------------------------------------------------------------
(* What a process knows it knows as long as the files stay as they are.    *)
LEMMA FreshStays ==
  ASSUME UNCHANGED <<meta, config>>, NEW r \in Proc, Fresh(r)
  PROVE  Fresh(r)'
<1>1. KnowsKeys(r)'
  BY DEF Fresh, KnowsKeys
<1>2. KnowsCurrent(r)'
  BY DEF Fresh, Apart, KnowsCurrent, Get
<1>3. KnowsOwn(r)'
  BY DEF Fresh, KnowsOwn
<1>4. KnowsList(r)'
  BY DEF Fresh, KnowsList, Present
<1>5. KnowsBackend(r)'
  BY DEF Fresh, KnowsBackend, Get
<1> QED BY <1>1, <1>2, <1>3, <1>4, <1>5 DEF Fresh

(* A step of p that changes no file keeps what the others know; what it    *)
(* must keep is about p alone.                                             *)
LEMMA ReadingStep ==
  ASSUME CommandInv, NEW p \in Process, NEW s \in Proc, proc' = [proc EXCEPT ![p] = s],
         UNCHANGED <<meta, config, touched>>,
         Own(s), touched[p] \/ Fresh(s),
         s.made => proc[p].made /\ s.args = proc[p].args
  PROVE  CommandInv'
<1>1. StoreType'
  BY DEF CommandInv, StoreType
<1>2. /\ \A q \in Process : proc'[q] = IF q = p THEN s ELSE proc[q]
  BY DEF CommandInv, StoreType
<1>3. \A q \in Process : Own(proc'[q])
  BY <1>2 DEF CommandInv
<1>4. ASSUME NEW q \in Process
      PROVE  (proc[q].pc = "idle" \/ touched[q] \/ Fresh(proc[q]))'
  <2>1. \A r \in Proc : Fresh(r) => Fresh(r)'
    BY FreshStays
  <2>2. proc[q] \in Proc
    BY DEF CommandInv, StoreType
  <2>3. CASE q = p
    <3>1. CASE touched[p]
      BY <2>3, <3>1
    <3>2. CASE Fresh(s)
      BY <2>3, <1>2, <2>1, <3>2
    <3> QED BY <3>1, <3>2
  <2>4. CASE q # p
    BY <2>1, <2>2, <2>4, <1>2 DEF CommandInv
  <2> QED BY <2>3, <2>4
<1>5. MadeStands' /\ ExclusiveCreate'
  BY <1>2 DEF CommandInv, MadeStands, ExclusiveCreate
<1> QED BY <1>1, <1>3, <1>4, <1>5 DEF CommandInv

(* s and r agree on all the invariant looks at, but for the next step.     *)
SameCall(s, r)   == s.op = r.op /\ s.args = r.args /\ s.flag = r.flag /\ s.force = r.force
                    /\ s.made = r.made
SameConfig(s, r) == s.cur = r.cur /\ s.cfg = r.cfg /\ s.seen = r.seen
SameList(s, r)   == s.dirs = r.dirs /\ s.had = r.had /\ s.shown = r.shown
SameRun(s, r)    == s.ran = r.ran /\ s.delegated = r.delegated
SameReport(s, r) == s.status = r.status /\ s.exit = r.exit

Same(s, r) ==
    /\ SameCall(s, r) /\ SameConfig(s, r) /\ SameList(s, r)
    /\ SameRun(s, r) /\ SameReport(s, r)

USE DEF Same, SameCall, SameConfig, SameList, SameRun, SameReport

(* Going on to x, or failing there.                                        *)
LEMMA MovingStep ==
  ASSUME CommandInv, NEW p \in Process, NEW x \in PC,
         Step(p, x) \/ (x = "failed" /\ Fail(p)),
         UNCHANGED <<meta, config, touched>>,
         \A s \in Proc : s.pc = x /\ Same(s, proc[p]) => Own(s) /\ (touched[p] \/ Fresh(s))
  PROVE  CommandInv'
<1>1. proc \in [Process -> Proc] /\ proc[p] \in Proc
  BY DEF CommandInv, StoreType
<1> DEFINE s1 == [proc[p] EXCEPT !.pc = x]
           s2 == [proc[p] EXCEPT !.pc = x, !.failed = TRUE]
<1>2. s1 \in Proc /\ s1.pc = x /\ Same(s1, proc[p])
  BY <1>1 DEF Proc
<1>3. s2 \in Proc /\ s2.pc = x /\ Same(s2, proc[p])
  BY <1>1 DEF Proc
<1>4. \/ proc' = [proc EXCEPT ![p] = s1]
      \/ proc' = [proc EXCEPT ![p] = s2]
  BY DEF Step, Fail
<1> HIDE DEF s1, s2
<1>5. CASE proc' = [proc EXCEPT ![p] = s1]
  BY <1>2, <1>5, ReadingStep
<1>6. CASE proc' = [proc EXCEPT ![p] = s2]
  BY <1>3, <1>6, ReadingStep
<1> QED BY <1>4, <1>5, <1>6

(* The steps that only look at the files, and go on or fail.               *)
LEMMA LookingInv ==
  ASSUME CommandInv, NEW p \in Process,
         \/ PreRun(p) \/ NewClient(p) \/ CheckNewContext(p) \/ CreateContextData(p)
         \/ RunUse(p) \/ RunShow(p) \/ RunUpdate(p) \/ CreateExists(p)
         \/ ForwardFlags(p) \/ NewStoreFails(p)
  PROVE  CommandInv'
<1>1. /\ Own(proc[p]) /\ (proc[p].pc = "idle" \/ touched[p] \/ Fresh(proc[p]))
      /\ proc[p] \in Proc /\ proc[p].args \in Seq(Arg)
  BY DEF CommandInv, StoreType, Proc
<1>2. PICK x \in PC : /\ Step(p, x) \/ (x = "failed" /\ Fail(p))
                      /\ \/ proc[p].pc = "prerun" /\ x \in {"delegate", "client"}
                         \/ /\ proc[p].pc = "client" /\ x \in {"backend", "failed"}
                            /\ x = "backend" => Get(proc[p].cur) \in Registered
                         \/ proc[p].pc = "create.check" /\ x \in {"create.data", "failed"}
                         \/ proc[p].pc = "create.data" /\ x \in {"create.exists", "failed"}
                         \/ /\ proc[p].pc = "create.exists" /\ x \in {"create.mkdir", "failed"}
                            /\ x = "create.mkdir" => Head(proc[p].args) # "default"
                         \/ /\ proc[p].pc = "use" /\ x \in {"cfg.load", "failed"}
                            /\ x = "cfg.load" => Get(Head(proc[p].args)) # "error"
                         \/ proc[p].pc = "show" /\ x \in {"success", "failed"}
                         \/ proc[p].pc = "update" /\ x \in {"delegate", "failed"}
                         \/ proc[p].pc \in {"main", "type"} /\ x = "delegate"
  BY DEF PreRun, NewClient, CheckNewContext, CreateContextData, RunUse, RunShow, RunUpdate,
         CreateExists, ContextExists, ForwardFlags, NewStoreFails, PC, Config
<1>3. ASSUME NEW s \in Proc, s.pc = x, Same(s, proc[p]) PROVE Own(s)
  <2>1. On(s)
    BY <1>1, <1>2, <1>3 DEF Own, On, Config, ServerOps
  <2>2. OwnArgs(s)
    BY <1>1, <1>2, <1>3 DEF Own, On, OwnArgs, Apart, Config, ServerOps
  <2>3. OwnReport(s)
    BY <1>1, <1>2, <1>3 DEF Own, OwnReport
  <2> QED BY <2>1, <2>2, <2>3 DEF Own
<1>4. ASSUME NEW s \in Proc, s.pc = x, Same(s, proc[p]), ~touched[p] PROVE Fresh(s)
  BY <1>1, <1>2, <1>4
     DEF Own, On, OwnReport, Fresh, KnowsKeys, Apart, KnowsCurrent, KnowsOwn, KnowsList, KnowsBackend, Config,
         ServerOps
<1>5. UNCHANGED <<meta, config, touched>>
  BY DEF PreRun, NewClient, CheckNewContext, CreateContextData, RunUse, RunShow, RunUpdate,
         CreateExists, ForwardFlags, NewStoreFails
<1> QED BY <1>2, <1>3, <1>4, <1>5, MovingStep

(* One report after none.                                                  *)
LEMMA OneReport ==
  ASSUME NEW st \in Report
  PROVE  /\ Append(<<>>, st) = <<st>> /\ <<st>> # <<>> /\ Len(<<st>>) = 1
         /\ <<st>> = <<"success">> <=> st = "success"
<1>1. Len(<<st>>) = 1 /\ <<st>>[1] = st
  OBVIOUS
<1>2. Append(<<>>, st) = <<st>>
  OBVIOUS
<1>3. <<st>> # <<>>
  BY <1>1
<1>4. <<st>> = <<"success">> => st = "success"
  BY <1>1
<1> QED BY <1>1, <1>2, <1>3, <1>4

(* The end of a command, with what it reports and its exit code.           *)
LEMMA FinishingStep ==
  ASSUME CommandInv, NEW p \in Process, NEW st \in Report \cup {""},
         NEW code \in {"0", "1", "130", "ok", "error"}, Finish(p, st, code),
         UNCHANGED <<meta, config, touched>>,
         proc[p].pc \in {"success", "failed", "delegate", "exec", "intercept", "configure", "main"},
         code \in {"0", "ok"} <=> st = "success",
         st = "success" => proc[p].pc \in {"success", "exec"}
  PROVE  CommandInv'
<1>1. /\ Own(proc[p]) /\ (proc[p].pc = "idle" \/ touched[p] \/ Fresh(proc[p]))
      /\ proc[p] \in Proc /\ proc[p].status = <<>>
  BY DEF CommandInv, StoreType, Own, OwnReport
<1>2. PICK told \in Reports :
        /\ told = IF st = "" THEN proc[p].status ELSE Append(proc[p].status, st)
        /\ st = "success" <=> told = <<"success">>
  <2>1. CASE st = ""
    <3>1. <<"success">> # <<>>
      BY OneReport DEF Report
    <3> QED BY <1>1, <2>1, <3>1 DEF Reports
  <2>2. CASE st # ""
    BY <1>1, <2>2, OneReport DEF Reports
  <2> QED BY <2>1, <2>2
<1>3. PICK r \in Proc : r = proc[p]
  BY <1>1
<1> DEFINE s == [r EXCEPT !.pc = "exited", !.exit = code, !.status = told]
<1>7. proc' = [proc EXCEPT ![p] = s]
  BY <1>2, <1>3 DEF Finish
<1>4. /\ s \in Proc /\ s.pc = "exited" /\ s.exit = code /\ s.status = told
      /\ SameCall(s, r) /\ SameConfig(s, r) /\ SameList(s, r) /\ SameRun(s, r)
  <2>1. "exited" \in PC
    BY DEF PC
  <2> QED BY <2>1 DEF Proc
<1> HIDE DEF s
<1>5. Own(s)
  <2>1. On(s) /\ OwnArgs(s)
    BY <1>1, <1>3, <1>4 DEF Own, On, OwnArgs, Apart, Config
  <2>2. OwnReport(s)
    BY <1>1, <1>2, <1>3, <1>4 DEF Own, OwnReport
  <2> QED BY <2>1, <2>2 DEF Own
<1>6. ASSUME ~touched[p] PROVE Fresh(s)
  <2>1. /\ Fresh(r) /\ r.exit = "none"
        /\ code \in {"0", "ok"} /\ ~r.delegated => r.pc = "success"
    BY <1>1, <1>3, <1>6 DEF Own, OwnReport
  <2>2. KnowsKeys(s) /\ KnowsCurrent(s)
    BY <1>3, <1>4, <2>1 DEF Fresh, KnowsKeys, Apart, KnowsCurrent, Config
  <2>3. KnowsOwn(s) /\ KnowsBackend(s)
    BY <1>3, <1>4, <2>1 DEF Fresh, KnowsOwn, KnowsBackend
  <2>4. KnowsList(s)
    BY <1>3, <1>4, <2>1 DEF Fresh, KnowsList
  <2> QED BY <2>2, <2>3, <2>4 DEF Fresh
<1> QED BY <1>1, <1>3, <1>4, <1>5, <1>6, <1>7, ReadingStep DEF Proc

(* The ends of main, of Exec and of a call.                                *)
LEMMA EndingInv ==
  ASSUME CommandInv, NEW p \in Process,
         Succeed(p) \/ HandleError(p) \/ LookPath(p) \/ ChildExits(p) \/ Reply(p) \/ NoConfigDir(p)
  PROVE  CommandInv'
<1>1. /\ Own(proc[p]) /\ (proc[p].pc = "idle" \/ touched[p] \/ Fresh(proc[p]))
      /\ proc \in [Process -> Proc] /\ proc[p] \in Proc /\ UNCHANGED <<meta, config, touched>>
  BY DEF CommandInv, StoreType, Succeed, HandleError, LookPath, ChildExits, Reply, NoConfigDir
<1>3. CASE /\ proc[p].pc = "failed" /\ proc[p].op \notin ServerOps /\ ~ContextAgnostic(proc[p].op)
           /\ MustDelegate(p) /\ Step(p, "delegate")
  <2>1. /\ proc[p].op = "backend" /\ (touched[p] \/ ~proc[p].ran)
    BY <1>1, <1>3 DEF ContextAgnostic, MustDelegate, ServerOps, Own, On, Config, Fresh, KnowsBackend,
                      Registered, Proc
  <2>2. ASSUME NEW s \in Proc, s.pc = "delegate", Same(s, proc[p]) PROVE Own(s)
    BY <1>1, <1>3, <2>1, <2>2 DEF Own, On, OwnArgs, Apart, OwnReport, Config
  <2>3. ASSUME NEW s \in Proc, s.pc = "delegate", Same(s, proc[p]), ~touched[p] PROVE Fresh(s)
    BY <1>1, <1>3, <2>1, <2>3
       DEF Fresh, KnowsKeys, Apart, KnowsCurrent, KnowsOwn, KnowsList, KnowsBackend, Config
  <2>4. "delegate" \in PC
    BY DEF PC
  <2> QED BY <1>1, <1>3, <2>2, <2>3, <2>4, MovingStep
<1>4. CASE proc[p].pc = "delegate" /\ proc' = [proc EXCEPT ![p].pc = "exec", ![p].delegated = TRUE]
  <2> DEFINE s == [proc[p] EXCEPT !.pc = "exec", !.delegated = TRUE]
  <2>1. /\ s \in Proc /\ s.pc = "exec" /\ s.delegated
        /\ SameCall(s, proc[p]) /\ SameConfig(s, proc[p]) /\ SameList(s, proc[p])
        /\ s.ran = proc[p].ran /\ SameReport(s, proc[p])
    BY <1>1 DEF Proc, PC
  <2>2. proc' = [proc EXCEPT ![p] = s]
    BY <1>4
  <2> HIDE DEF s
  <2>3. Own(s)
    <3>1. On(s)
      BY <1>1, <1>4, <2>1 DEF Own, On, Config
    <3>2. OwnArgs(s)
      BY <1>1, <1>4, <2>1 DEF Own, OwnArgs, Apart, Config
    <3>3. OwnReport(s)
      BY <1>1, <1>4, <2>1 DEF Own, OwnReport
    <3> QED BY <3>1, <3>2, <3>3 DEF Own
  <2>4. ~touched[p] => Fresh(s)
    BY <1>1, <1>4, <2>1
       DEF Own, On, ServerOps, Fresh, KnowsKeys, Apart, KnowsCurrent, KnowsOwn, KnowsList, KnowsBackend, Config, Proc
  <2> QED BY <1>1, <2>1, <2>2, <2>3, <2>4, ReadingStep DEF Proc
<1>5. CASE Succeed(p) \/ ChildExits(p) \/ Reply(p)
  BY <1>1, <1>5, FinishingStep DEF Succeed, ChildExits, Reply, Report
<1>6. CASE HandleError(p)
  BY <1>1, <1>3, <1>6, FinishingStep DEF HandleError, Report
<1>7. CASE LookPath(p)
  BY <1>1, <1>4, <1>7, FinishingStep DEF LookPath
<1>8. CASE NoConfigDir(p)
  BY <1>1, <1>8, FinishingStep DEF NoConfigDir
<1> QED BY <1>5, <1>6, <1>7, <1>8

(* main finds the name of the current context.                             *)
LEMMA DetermineInv ==
  ASSUME CommandInv, NEW p \in Process, DetermineCurrentContext(p)
  PROVE  CommandInv'
<1>1. /\ Own(proc[p]) /\ (proc[p].pc = "idle" \/ touched[p] \/ Fresh(proc[p]))
      /\ proc[p] \in Proc /\ UNCHANGED <<meta, config, touched>>
  BY DEF CommandInv, StoreType, DetermineCurrentContext
<1>2. PICK r \in Proc : r = proc[p]
  BY <1>1
<1> DEFINE v == CurrentContext(r.flag)
<1>7. /\ v \in Name \cup {"", "default"} /\ v # ""
      /\ r.flag = "" => config.current \in {v, ""}
  <2>1. r.flag \in Name \cup {"", "default"}
    BY DEF Proc
  <2>2. config \in Configs
    BY DEF CommandInv, StoreType
  <2>3. config.current \in Name \cup {""} /\ (config.torn => config.current = "")
    <3>1. CASE config = Torn
      BY <3>1 DEF Torn
    <3>2. CASE config \in [torn : {FALSE}, current : Name \cup {""}, keys : SUBSET OtherKeys]
      BY <3>2
    <3> QED BY <2>2, <3>1, <3>2 DEF Configs
  <2> QED BY <2>1, <2>3 DEF CurrentContext
<1> HIDE DEF v
<1> DEFINE s == [r EXCEPT !.pc = "type", !.cur = v]
<1>3. proc' = [proc EXCEPT ![p] = s]
  BY <1>2 DEF DetermineCurrentContext, v
<1>4. /\ s \in Proc
      /\ s.pc = "type" /\ s.cur = v
      /\ SameCall(s, r) /\ s.cfg = r.cfg /\ s.seen = r.seen /\ SameList(s, r)
      /\ SameRun(s, r) /\ SameReport(s, r)
  <2>1. "type" \in PC
    BY DEF PC
  <2> QED BY <1>7, <2>1 DEF Proc
<1> HIDE DEF s
<1>5. Own(s)
  BY <1>1, <1>2, <1>4, <1>7 DEF DetermineCurrentContext, Own, On, OwnArgs, Apart, OwnReport, Config, ServerOps
<1>6. ASSUME ~touched[p] PROVE Fresh(s)
  <2>1. Fresh(r) /\ On(r) /\ r.pc = "main" /\ r.exit = "none" /\ ~r.ran
    BY <1>1, <1>2, <1>6 DEF DetermineCurrentContext, Own, OwnReport
  <2>2. KnowsKeys(s)
    BY <1>4, <1>7, <2>1 DEF Fresh, KnowsKeys
  <2>3. KnowsCurrent(s)
    BY <1>4, <1>7, <2>1 DEF Fresh, Apart, KnowsCurrent, Config
  <2>4. KnowsOwn(s) /\ KnowsBackend(s)
    BY <1>4, <1>7, <2>1 DEF Fresh, KnowsOwn, KnowsBackend
  <2>5. KnowsList(s)
    BY <1>4, <1>7, <2>1 DEF Fresh, KnowsList
  <2> QED BY <2>2, <2>3, <2>4, <2>5 DEF Fresh
<1> QED BY <1>1, <1>2, <1>3, <1>4, <1>5, <1>6, ReadingStep

(* main finds the type of that context, and the command to run.            *)
LEMMA TypeInv ==
  ASSUME CommandInv, NEW p \in Process, ContextType(p)
  PROVE  CommandInv'
<1>1. /\ Own(proc[p]) /\ (proc[p].pc = "idle" \/ touched[p] \/ Fresh(proc[p]))
      /\ proc[p] \in Proc /\ UNCHANGED <<meta, config, touched>>
  BY DEF CommandInv, StoreType, ContextType
<1>2. PICK r \in Proc : r = proc[p]
  BY <1>1
<1> DEFINE x == FirstStep(r.op)
           v == IF Get(r.cur) = "error" THEN "moby" ELSE Get(r.cur)
<1>7. /\ x \in PC /\ v \in Type
      /\ x \in {"create.check", "rm.next", "use", "ls.readdir", "show", "update", "delegate", "prerun"}
      /\ x = "create.check" => r.op = "create"
      /\ x = "rm.next" => r.op = "rm"
      /\ x \in {"use", "show", "update"} => r.op = x
      /\ x = "ls.readdir" => r.op = "ls"
      /\ x = "delegate" => r.op = "inspect"
      /\ x = "prerun" => r.op = "backend"
  <2>1. r.op \in {"create", "rm", "use", "ls", "show", "update", "inspect", "backend"}
    BY <1>1, <1>2 DEF ContextType, Own, On, Config, ServerOps, Proc
  <2>2. Get(r.cur) \in Type \cup {"error"}
    BY DEF Get, Type
  <2> QED BY <2>1, <2>2 DEF FirstStep, PC, Config, Type
<1> HIDE DEF v, x
<1> DEFINE s == [r EXCEPT !.pc = x, !.ctype = v]
<1>3. proc' = [proc EXCEPT ![p] = s]
  BY <1>2 DEF ContextType, v, x
<1>4. /\ s \in Proc
      /\ s.pc = x
      /\ SameCall(s, r) /\ SameConfig(s, r) /\ SameList(s, r) /\ SameRun(s, r)
      /\ SameReport(s, r)
  BY <1>7 DEF Proc
<1> HIDE DEF s
<1>5. Own(s)
  BY <1>1, <1>2, <1>4, <1>7 DEF ContextType, Own, On, OwnArgs, Apart, OwnReport, Config, ServerOps
<1>6. ASSUME ~touched[p] PROVE Fresh(s)
  <2>1. Fresh(r) /\ On(r) /\ r.pc = "type" /\ r.exit = "none" /\ ~r.ran
    BY <1>1, <1>2, <1>6 DEF ContextType, Own, OwnReport
  <2>2. KnowsKeys(s)
    BY <1>4, <1>7, <2>1 DEF Fresh, KnowsKeys
  <2>3. KnowsCurrent(s)
    BY <1>4, <1>7, <2>1 DEF Fresh, Apart, KnowsCurrent, Config
  <2>4. KnowsOwn(s) /\ KnowsBackend(s)
    BY <1>4, <1>7, <2>1 DEF Fresh, KnowsOwn, KnowsBackend
  <2>5. KnowsList(s)
    BY <1>4, <1>7, <2>1 DEF Fresh, KnowsList
  <2> QED BY <2>2, <2>3, <2>4, <2>5 DEF Fresh
<1> QED BY <1>1, <1>2, <1>3, <1>4, <1>5, <1>6, ReadingStep

(* A backend carries the command out.                                      *)
LEMMA BackendInv ==
  ASSUME CommandInv, NEW p \in Process, BackendCall(p)
  PROVE  CommandInv'
<1>1. /\ Own(proc[p]) /\ (proc[p].pc = "idle" \/ touched[p] \/ Fresh(proc[p]))
      /\ proc[p] \in Proc /\ UNCHANGED <<meta, config, touched>>
  BY DEF CommandInv, StoreType, BackendCall
<1>2. PICK r \in Proc : r = proc[p]
  BY <1>1
<1>7. PICK x \in {"success", "failed"}, f \in BOOLEAN :
        proc' = [proc EXCEPT ![p].pc = x, ![p].failed = f, ![p].ran = TRUE]
  BY DEF BackendCall
<1> DEFINE s == [r EXCEPT !.pc = x, !.failed = f, !.ran = TRUE]
<1>3. proc' = [proc EXCEPT ![p] = s]
  BY <1>2, <1>7
<1>4. /\ s \in Proc
      /\ s.pc = x /\ s.ran = TRUE
      /\ SameCall(s, r) /\ SameConfig(s, r) /\ SameList(s, r) /\ s.delegated = r.delegated
      /\ SameReport(s, r)
  <2>1. x \in PC
    BY <1>7 DEF PC
  <2> QED BY <2>1 DEF Proc
<1> HIDE DEF s
<1>5. Own(s)
  <2>1. r.op \in {"backend", "Call"} /\ Own(r) /\ r.pc = "backend"
    BY <1>1, <1>2 DEF BackendCall, Own, On, Config, ServerOps
  <2>2. On(s) /\ OwnArgs(s)
    BY <1>4, <1>7, <2>1 DEF Own, On, OwnArgs, Apart, Config
  <2>3. OwnReport(s)
    BY <1>4, <1>7, <2>1 DEF Own, OwnReport
  <2> QED BY <2>2, <2>3 DEF Own
<1>6. ASSUME ~touched[p] PROVE Fresh(s)
  BY <1>1, <1>2, <1>4, <1>6, <1>7 DEF BackendCall, Own, On, OwnReport, Fresh, KnowsKeys, Apart, KnowsCurrent, KnowsOwn, KnowsList,
     KnowsBackend, Config, ServerOps
<1> QED BY <1>1, <1>2, <1>3, <1>4, <1>5, <1>6, ReadingStep

(* The classic command line is started.                                    *)
LEMMA StartChildInv ==
  ASSUME CommandInv, NEW p \in Process, StartChild(p)
  PROVE  CommandInv'
<1>1. /\ Own(proc[p]) /\ (proc[p].pc = "idle" \/ touched[p] \/ Fresh(proc[p]))
      /\ proc[p] \in Proc /\ UNCHANGED <<meta, config, touched>>
  BY DEF CommandInv, StoreType, StartChild
<1>2. PICK r \in Proc : r = proc[p]
  BY <1>1
<1> DEFINE s == [r EXCEPT !.child = TRUE]
<1>3. proc' = [proc EXCEPT ![p] = s]
  BY <1>2 DEF StartChild
<1>4. /\ s \in Proc /\ s.pc = r.pc
      /\ SameCall(s, r) /\ SameConfig(s, r) /\ SameList(s, r) /\ SameRun(s, r)
      /\ SameReport(s, r)
  BY DEF Proc
<1> HIDE DEF s
<1>5. Own(s)
  BY <1>1, <1>2, <1>4 DEF StartChild, Own, On, OwnArgs, Apart, OwnReport, Config, ServerOps
<1>6. ASSUME ~touched[p] PROVE Fresh(s)
  BY <1>1, <1>2, <1>4, <1>6 DEF StartChild, Own, On, OwnReport, Fresh, KnowsKeys, Apart, KnowsCurrent, KnowsOwn, KnowsList,
     KnowsBackend, Config, ServerOps
<1> QED BY <1>1, <1>2, <1>3, <1>4, <1>5, <1>6, ReadingStep

(* A signal cancels the command.                                           *)
LEMMA InterruptInv ==
  ASSUME CommandInv, NEW p \in Process, Interrupt(p)
  PROVE  CommandInv'
<1>1. /\ Own(proc[p]) /\ (proc[p].pc = "idle" \/ touched[p] \/ Fresh(proc[p]))
      /\ proc[p] \in Proc /\ UNCHANGED <<meta, config, touched>>
  BY DEF CommandInv, StoreType, Interrupt
<1>2. PICK r \in Proc : r = proc[p]
  BY <1>1
<1> DEFINE s == [r EXCEPT !.canceled = TRUE]
<1>3. proc' = [proc EXCEPT ![p] = s]
  BY <1>2 DEF Interrupt
<1>4. /\ s \in Proc /\ s.pc = r.pc
      /\ SameCall(s, r) /\ SameConfig(s, r) /\ SameList(s, r) /\ SameRun(s, r)
      /\ SameReport(s, r)
  BY DEF Proc
<1> HIDE DEF s
<1>5. Own(s)
  BY <1>1, <1>2, <1>4 DEF Interrupt, Active, Own, On, OwnArgs, Apart, OwnReport, Config, ServerOps
<1>6. ASSUME ~touched[p] PROVE Fresh(s)
  <2>1. Fresh(r)
    BY <1>1, <1>2, <1>6 DEF Interrupt, Active
  <2>2. KnowsKeys(s) /\ KnowsCurrent(s)
    BY <1>4, <2>1 DEF Fresh, KnowsKeys, KnowsCurrent
  <2>3. KnowsOwn(s) /\ KnowsList(s) /\ KnowsBackend(s)
    BY <1>4, <2>1 DEF Fresh, KnowsOwn, KnowsList, KnowsBackend
  <2> QED BY <2>2, <2>3 DEF Fresh
<1> QED BY <1>1, <1>2, <1>3, <1>4, <1>5, <1>6, ReadingStep

(* The process is killed.                                                  *)
LEMMA KillInv ==
  ASSUME CommandInv, NEW p \in Process, Kill(p)
  PROVE  CommandInv'
<1>1. /\ Own(proc[p]) /\ (proc[p].pc = "idle" \/ touched[p] \/ Fresh(proc[p]))
      /\ proc[p] \in Proc /\ UNCHANGED <<meta, config, touched>>
  BY DEF CommandInv, StoreType, Kill
<1>2. PICK r \in Proc : r = proc[p]
  BY <1>1
<1> DEFINE s == [r EXCEPT !.pc = "killed", !.fd = FALSE]
<1>3. proc' = [proc EXCEPT ![p] = s]
  BY <1>2 DEF Kill
<1>4. /\ s \in Proc
      /\ s.pc = "killed"
      /\ SameCall(s, r) /\ SameConfig(s, r) /\ SameList(s, r) /\ SameRun(s, r)
      /\ SameReport(s, r)
  <2>1. "killed" \in PC
    BY DEF PC
  <2> QED BY <2>1 DEF Proc
<1> HIDE DEF s
<1>5. Own(s)
  BY <1>1, <1>2, <1>4 DEF Kill, Active, Own, On, OwnArgs, Apart, OwnReport, Config, ServerOps
<1>6. ASSUME ~touched[p] PROVE Fresh(s)
  BY <1>1, <1>2, <1>4, <1>6 DEF Kill, Active, Own, On, OwnReport, Fresh, KnowsKeys, Apart, KnowsCurrent, KnowsOwn, KnowsList,
     KnowsBackend, Config, ServerOps
<1> QED BY <1>1, <1>2, <1>3, <1>4, <1>5, <1>6, ReadingStep

(* The first argument is a name, and the rest are arguments.               *)
LEMMA ArgFacts ==
  ASSUME NEW a \in Seq(Arg), a # <<>>
  PROVE  Head(a) \in Arg /\ Head(a) # "" /\ Tail(a) \in Seq(Arg)
<1>1. Head(a) \in Arg /\ Tail(a) \in Seq(Arg)
  BY HeadTailProperties
<1> QED BY <1>1, NameAssumption DEF Arg

(* rm goes to its next argument, with or without an error.                 *)
LEMMA NextArgument ==
  ASSUME CommandInv, NEW p \in Process, proc[p].op = "rm", proc[p].args # <<>>,
         proc[p].pc \in {"rm.next", "rm.stat", "cfg.load"}, UNCHANGED <<meta, config, touched>>,
         proc' = [proc EXCEPT ![p].pc = "rm.next", ![p].args = Tail(@), ![p].failed = TRUE]
  PROVE  CommandInv'
<1>1. /\ Own(proc[p]) /\ (proc[p].pc = "idle" \/ touched[p] \/ Fresh(proc[p]))
      /\ proc[p] \in Proc
  BY DEF CommandInv, StoreType
<1>2. PICK r \in Proc : r = proc[p]
  BY <1>1
<1>7. PICK a \in Seq(Arg) : a = Tail(r.args)
  <2>1. r.args \in Seq(Arg) /\ r.args # <<>>
    BY <1>2 DEF Proc
  <2> QED BY <2>1, ArgFacts
<1> DEFINE s == [r EXCEPT !.pc = "rm.next", !.args = a, !.failed = TRUE]
<1>3. proc' = [proc EXCEPT ![p] = s]
  BY <1>2, <1>7
<1>4. /\ s \in Proc /\ s.pc = "rm.next" /\ s.args = a
      /\ s.op = r.op /\ s.flag = r.flag /\ s.made = r.made
      /\ SameConfig(s, r) /\ SameList(s, r) /\ SameRun(s, r) /\ SameReport(s, r)
  <2>1. "rm.next" \in PC
    BY DEF PC
  <2> QED BY <2>1 DEF Proc
<1> HIDE DEF s
<1>5. Own(s) /\ ~s.made
  BY <1>1, <1>2, <1>4 DEF Own, On, OwnArgs, Apart, OwnReport, Config
<1>6. ASSUME ~touched[p] PROVE Fresh(s)
  <2>1. Fresh(r) /\ Own(r)
    BY <1>1, <1>2, <1>6
  <2>2. KnowsKeys(s) /\ KnowsCurrent(s)
    BY <1>2, <1>4, <2>1 DEF Fresh, KnowsKeys, Apart, KnowsCurrent, Config
  <2>3. KnowsOwn(s) /\ KnowsBackend(s) /\ KnowsList(s)
    BY <1>2, <1>4, <2>1 DEF Fresh, KnowsOwn, KnowsBackend, KnowsList, Own, OwnReport
  <2> QED BY <2>2, <2>3 DEF Fresh
<1> QED BY <1>1, <1>2, <1>3, <1>4, <1>5, <1>6, ReadingStep

(* The steps of rm that change no file.                                    *)
LEMMA RemoveInv ==
  ASSUME CommandInv, NEW p \in Process, UNCHANGED <<meta, config, touched>>,
         RunRemove(p) \/ RemoveStat(p) \/ (proc[p].pc = "rm.rmdir" /\ Step(p, "rm.unlink"))
  PROVE  CommandInv'
<1>1. /\ Own(proc[p]) /\ (proc[p].pc = "idle" \/ touched[p] \/ Fresh(proc[p]))
      /\ proc \in [Process -> Proc] /\ proc[p] \in Proc /\ proc[p].args \in Seq(Arg)
  BY DEF CommandInv, StoreType, Proc
<1>2. /\ proc[p].op = "rm" /\ proc[p].pc \in {"rm.next", "rm.stat", "rm.rmdir"}
      /\ proc[p].pc # "rm.next" => proc[p].args # <<>>
  BY <1>1 DEF RunRemove, RemoveStat, Own, On, OwnArgs, Apart, Config, ServerOps
<1>3. CASE proc' = [proc EXCEPT ![p].pc = "rm.next", ![p].args = Tail(@), ![p].failed = TRUE]
           /\ proc[p].args # <<>> /\ proc[p].pc # "rm.rmdir"
  BY <1>2, <1>3, NextArgument
<1>4. CASE /\ proc' = [proc EXCEPT ![p].args = Tail(@), ![p].failed = TRUE]
           /\ proc[p].args # <<>> /\ proc[p].pc = "rm.next"
  <2>1. proc' = [proc EXCEPT ![p].pc = "rm.next", ![p].args = Tail(@), ![p].failed = TRUE]
    BY <1>1, <1>4 DEF Proc
  <2> QED BY <2>1, <1>2, <1>4, NextArgument
<1>5. CASE \E x \in PC :
             /\ Step(p, x)
             /\ \/ proc[p].pc = "rm.next" /\ x \in {"failed", "success"}
                \/ /\ proc[p].pc = "rm.next" /\ x = "rm.stat" /\ proc[p].args # <<>>
                   /\ Head(proc[p].args) # proc[p].cur
                \/ proc[p].pc = "rm.next" /\ x = "cfg.load" /\ proc[p].args # <<>> /\ proc[p].force
                \/ /\ proc[p].pc \in {"rm.stat", "rm.rmdir"} /\ x = "rm.unlink"
                   /\ Head(proc[p].args) # "default"
  <2>1. PICK x \in PC :
             /\ Step(p, x)
             /\ \/ proc[p].pc = "rm.next" /\ x \in {"failed", "success"}
                \/ /\ proc[p].pc = "rm.next" /\ x = "rm.stat" /\ proc[p].args # <<>>
                   /\ Head(proc[p].args) # proc[p].cur
                \/ proc[p].pc = "rm.next" /\ x = "cfg.load" /\ proc[p].args # <<>> /\ proc[p].force
                \/ /\ proc[p].pc \in {"rm.stat", "rm.rmdir"} /\ x = "rm.unlink"
                   /\ Head(proc[p].args) # "default"
    BY <1>5
  <2>2. ASSUME NEW s \in Proc, s.pc = x, Same(s, proc[p]) PROVE Own(s)
    <3>1. On(s)
      BY <1>2, <2>1, <2>2 DEF On, Config
    <3>2. OwnArgs(s)
      BY <1>1, <1>2, <2>1, <2>2 DEF Own, OwnArgs, Apart, Config
    <3>3. OwnReport(s)
      BY <1>1, <1>2, <2>1, <2>2 DEF Own, OwnReport
    <3> QED BY <3>1, <3>2, <3>3 DEF Own
  <2>3. ASSUME NEW s \in Proc, s.pc = x, Same(s, proc[p]), ~touched[p] PROVE Fresh(s)
    <3>1. proc[p].args # <<>> => Head(proc[p].args) # ""
      BY <1>1, ArgFacts
    <3>2. Fresh(proc[p]) /\ proc[p].exit = "none" /\ ~proc[p].ran
      BY <1>1, <1>2, <2>3 DEF Own, OwnReport
    <3>3. KnowsKeys(s)
      BY <1>2, <2>1, <2>3, <3>2 DEF Fresh, KnowsKeys
    <3>4. KnowsCurrent(s)
      BY <1>2, <2>1, <2>3, <3>1, <3>2 DEF Fresh, Apart, KnowsCurrent, Config
    <3>5. KnowsOwn(s) /\ KnowsList(s) /\ KnowsBackend(s)
      BY <1>2, <2>1, <2>3, <3>2 DEF KnowsOwn, KnowsList, KnowsBackend
    <3> QED BY <3>3, <3>4, <3>5 DEF Fresh
  <2> QED BY <2>1, <2>2, <2>3, MovingStep
<1>6. {"failed", "success", "rm.stat", "cfg.load", "rm.unlink"} \subseteq PC
  BY DEF PC, Config
<1>7. CASE RunRemove(p)
  BY <1>3, <1>4, <1>5, <1>6, <1>7 DEF RunRemove
<1>8. CASE RemoveStat(p)
  BY <1>2, <1>3, <1>5, <1>6, <1>8 DEF RemoveStat
<1>9. CASE proc[p].pc = "rm.rmdir" /\ Step(p, "rm.unlink")
  BY <1>1, <1>5, <1>6, <1>9 DEF Own, OwnArgs
<1> QED BY <1>7, <1>8, <1>9

(* A call, a listing or a creation goes on, or fails.                      *)
LEMMA GoingOn ==
  ASSUME CommandInv, NEW p \in Process, UNCHANGED <<meta, config, touched>>,
         NEW x \in PC, Step(p, x) \/ (x = "failed" /\ Fail(p)),
         \/ proc[p].pc = "configure" /\ proc[p].op = "SetCurrent" /\ x = "cfg.load"
         \/ proc[p].pc = "configure" /\ proc[p].op = "List" /\ x \in {"failed", "ls.readdir"}
         \/ /\ proc[p].pc = "configure" /\ proc[p].op = "Call" /\ x = "backend"
            /\ Get(proc[p].cur) \in Registered
         \/ proc[p].pc = "ls.read" /\ (x = "failed" \/ (proc[p].dirs = {} /\ x = "success"))
         \/ proc[p].pc \in {"create.mkdir", "create.open", "cfg.load"} /\ x = "failed"
  PROVE  CommandInv'
<1>1. /\ Own(proc[p]) /\ (proc[p].pc = "idle" \/ touched[p] \/ Fresh(proc[p]))
      /\ proc[p] \in Proc /\ proc[p].exit = "none" /\ ~proc[p].ran
  BY DEF CommandInv, StoreType, Own, OwnReport
<1>2. ASSUME NEW s \in Proc, s.pc = x, Same(s, proc[p]) PROVE Own(s)
  <2>1. On(s)
    BY <1>1, <1>2 DEF Own, On, Config, ServerOps
  <2>2. OwnArgs(s)
    BY <1>1, <1>2 DEF Own, On, OwnArgs, Apart, Config
  <2>3. OwnReport(s)
    BY <1>1, <1>2 DEF Own, OwnReport
  <2> QED BY <2>1, <2>2, <2>3 DEF Own
<1>3. ASSUME NEW s \in Proc, s.pc = x, Same(s, proc[p]), ~touched[p] PROVE Fresh(s)
  <2>1. Fresh(proc[p]) /\ On(proc[p])
    BY <1>1, <1>3 DEF Own
  <2>2. KnowsKeys(s)
    BY <1>3, <2>1 DEF Fresh, KnowsKeys
  <2>3. KnowsCurrent(s)
    BY <1>3, <2>1 DEF Fresh, Apart, KnowsCurrent, On, Config
  <2>4. KnowsList(s)
    BY <1>1, <1>3, <2>1 DEF Fresh, KnowsList, On, Config
  <2>5. KnowsOwn(s) /\ KnowsBackend(s)
    BY <1>1, <1>3 DEF KnowsOwn, KnowsBackend
  <2> QED BY <2>2, <2>3, <2>4, <2>5 DEF Fresh
<1> QED BY <1>2, <1>3, MovingStep

(* The configuration file is read.                                         *)
LEMMA LoadInv ==
  ASSUME CommandInv, NEW p \in Process, LoadConfig(p)
  PROVE  CommandInv'
<1>1. /\ Own(proc[p]) /\ (proc[p].pc = "idle" \/ touched[p] \/ Fresh(proc[p]))
      /\ proc[p] \in Proc /\ UNCHANGED <<meta, config, touched>>
      /\ config \in Configs /\ proc[p].pc = "cfg.load" /\ proc[p].args # <<>>
  BY DEF CommandInv, StoreType, LoadConfig, Own, OwnArgs, Config
<1>2. CASE config.torn /\ proc[p].op = "rm"
  BY <1>1, <1>2, NextArgument DEF LoadConfig
<1>3. CASE config.torn /\ proc[p].op # "rm"
  <2>1. "failed" \in PC
    BY DEF PC
  <2> QED BY <1>1, <1>3, <2>1, GoingOn DEF LoadConfig
<1>4. CASE ~config.torn
  <2>1. PICK r \in Proc, c \in Configs : r = proc[p] /\ c = config
    BY <1>1
  <2> DEFINE s == [r EXCEPT !.pc = "cfg.open", !.cfg = c]
  <2>2. proc' = [proc EXCEPT ![p] = s]
    BY <1>4, <2>1 DEF LoadConfig
  <2>3. /\ s \in Proc /\ s.pc = "cfg.open" /\ s.cfg = c /\ s.cur = r.cur /\ s.seen = r.seen
        /\ SameCall(s, r) /\ SameList(s, r) /\ SameRun(s, r) /\ SameReport(s, r)
    <3>1. "cfg.open" \in PC
      BY DEF PC, Config
    <3> QED BY <3>1 DEF Proc
  <2> HIDE DEF s
  <2>4. Own(s)
    BY <1>1, <1>4, <2>1, <2>3 DEF Own, On, OwnArgs, Apart, OwnReport, Config
  <2>5. ASSUME ~touched[p] PROVE Fresh(s)
    <3>1. Fresh(r) /\ On(r) /\ r.exit = "none" /\ ~r.ran /\ r.pc = "cfg.load"
      BY <1>1, <2>1, <2>5 DEF Own, OwnReport
    <3>2. KnowsKeys(s)
      BY <2>1, <2>3, <3>1 DEF Fresh, KnowsKeys, On, Config
    <3>3. KnowsCurrent(s)
      BY <2>3, <3>1 DEF Fresh, Apart, KnowsCurrent, Config
    <3>4. KnowsOwn(s) /\ KnowsBackend(s) /\ KnowsList(s)
      BY <2>3, <3>1 DEF KnowsOwn, KnowsBackend, KnowsList
    <3> QED BY <3>2, <3>3, <3>4 DEF Fresh
  <2> QED BY <1>1, <2>1, <2>2, <2>3, <2>4, <2>5, ReadingStep
<1> QED BY <1>2, <1>3, <1>4

(* The directories are listed, and their files read one by one.            *)
LEMMA ListInv ==
  ASSUME CommandInv, NEW p \in Process, ListReadDir(p) \/ ListRead(p)
  PROVE  CommandInv'
<1>1. /\ Own(proc[p]) /\ (proc[p].pc = "idle" \/ touched[p] \/ Fresh(proc[p]))
      /\ proc \in [Process -> Proc] /\ proc[p] \in Proc /\ UNCHANGED <<meta, config, touched>>
      /\ proc[p].pc \in {"ls.readdir", "ls.read"}
  BY DEF CommandInv, StoreType, ListReadDir, ListRead
<1>2. CASE \E x \in {"success", "failed"} :
             /\ proc[p].pc = "ls.read" /\ (x = "success" => proc[p].dirs = {})
             /\ Step(p, x) \/ (x = "failed" /\ Fail(p))
  <2>1. {"success", "failed"} \subseteq PC
    BY DEF PC
  <2> QED BY <1>1, <1>2, <2>1, GoingOn
<1>3. ASSUME NEW d \in SUBSET Name, NEW h \in SUBSET Name,
             \/ /\ proc[p].pc = "ls.readdir" /\ d = Present /\ h = proc[p].shown
             \/ /\ proc[p].pc = "ls.read" /\ d \cup h = proc[p].dirs \cup proc[p].shown,
             proc' = [proc EXCEPT ![p].pc = "ls.read", ![p].dirs = d, ![p].shown = h]
      PROVE  CommandInv'
  <2>1. PICK r \in Proc : r = proc[p]
    BY <1>1
  <2> DEFINE s == [r EXCEPT !.pc = "ls.read", !.dirs = d, !.shown = h]
  <2>2. proc' = [proc EXCEPT ![p] = s]
    BY <1>3, <2>1
  <2>3. /\ s \in Proc /\ s.pc = "ls.read" /\ s.dirs = d /\ s.shown = h /\ s.had = r.had
        /\ SameCall(s, r) /\ SameConfig(s, r) /\ SameRun(s, r) /\ SameReport(s, r)
    <3>1. "ls.read" \in PC
      BY DEF PC
    <3> QED BY <3>1 DEF Proc
  <2> HIDE DEF s
  <2>4. Own(s)
    BY <1>1, <2>1, <2>3 DEF Own, On, OwnArgs, Apart, OwnReport, Config
  <2>5. ASSUME ~touched[p] PROVE Fresh(s)
    <3>1. Fresh(r) /\ On(r) /\ r.exit = "none" /\ ~r.ran /\ r.pc \in {"ls.readdir", "ls.read"}
      BY <1>1, <2>1, <2>5 DEF Own, OwnReport
    <3>2. r.op \in {"ls", "List"}
      BY <3>1 DEF On, Config
    <3>3. d \cup h = r.had
      BY <1>3, <2>1, <3>1, <3>2 DEF Fresh, KnowsList
    <3>4. KnowsKeys(s) /\ KnowsCurrent(s) /\ KnowsOwn(s) /\ KnowsBackend(s)
      BY <2>3, <3>1, <3>2 DEF KnowsKeys, Apart, KnowsCurrent, KnowsOwn, KnowsBackend, Config
    <3>5. KnowsList(s)
      BY <2>3, <3>1, <3>3 DEF KnowsList
    <3> QED BY <3>4, <3>5 DEF Fresh
  <2> QED BY <1>1, <2>1, <2>2, <2>3, <2>4, <2>5, ReadingStep
<1>4. CASE ListReadDir(p)
  <2> DEFINE d == {n \in Name : meta[n] # "none"}
  <2>1. proc[p].shown \in SUBSET Name /\ d \in SUBSET Name
    BY <1>1 DEF Proc
  <2>2. proc' = [proc EXCEPT ![p].pc = "ls.read", ![p].dirs = d, ![p].shown = proc[p].shown]
    BY <1>1, <1>4 DEF ListReadDir, Proc
  <2>3. d = Present
    BY DEF Present
  <2> QED BY <1>3, <1>4, <2>1, <2>2, <2>3 DEF ListReadDir
<1>5. CASE /\ proc[p].pc = "ls.read"
           /\ \E n \in proc[p].dirs :
                proc' = [proc EXCEPT ![p].dirs = @ \ {n}, ![p].shown = @ \cup {n}]
  <2>1. PICK n \in proc[p].dirs :
             proc' = [proc EXCEPT ![p].dirs = @ \ {n}, ![p].shown = @ \cup {n}]
    BY <1>5
  <2> DEFINE d == proc[p].dirs \ {n}
             h == proc[p].shown \cup {n}
             r == [proc[p] EXCEPT !.dirs = d, !.shown = h]
  <2>2. d \in SUBSET Name /\ h \in SUBSET Name /\ d \cup h = proc[p].dirs \cup proc[p].shown
    BY <1>1 DEF Proc
  <2>3. proc' = [proc EXCEPT ![p].pc = "ls.read", ![p].dirs = d, ![p].shown = h]
    <3>1. proc' = [proc EXCEPT ![p] = r]
      BY <2>1
    <3>2. r = [proc[p] EXCEPT !.pc = "ls.read", !.dirs = d, !.shown = h]
      BY <1>1, <1>5 DEF Proc
    <3> QED BY <3>1, <3>2
  <2> HIDE DEF d, h
  <2> QED BY <1>3, <1>5, <2>2, <2>3
<1> QED BY <1>2, <1>4, <1>5 DEF ListRead

(* The name of the context a call is about.                                *)
LEMMA InterceptInv ==
  ASSUME CommandInv, NEW p \in Process, Intercept(p)
  PROVE  CommandInv'
<1>1. /\ Own(proc[p]) /\ (proc[p].pc = "idle" \/ touched[p] \/ Fresh(proc[p]))
      /\ proc[p] \in Proc /\ UNCHANGED <<meta, config, touched>>
      /\ proc[p].pc = "intercept" /\ config \in Configs
  BY DEF CommandInv, StoreType, Intercept
<1>2. CASE Finish(p, "", "error")
  BY <1>1, <1>2, FinishingStep
<1>3. ASSUME NEW v \in Name \cup {"", "default"},
             proc' = [proc EXCEPT ![p].pc = "configure", ![p].cur = v]
      PROVE  CommandInv'
  <2>1. PICK r \in Proc : r = proc[p]
    BY <1>1
  <2> DEFINE s == [r EXCEPT !.pc = "configure", !.cur = v]
  <2>2. proc' = [proc EXCEPT ![p] = s]
    BY <1>3, <2>1
  <2>3. /\ s \in Proc /\ s.pc = "configure" /\ s.cfg = r.cfg /\ s.seen = r.seen
        /\ SameCall(s, r) /\ SameList(s, r) /\ SameRun(s, r) /\ SameReport(s, r)
    <3>1. "configure" \in PC
      BY DEF PC
    <3> QED BY <3>1 DEF Proc
  <2> HIDE DEF s
  <2>4. Own(s)
    BY <1>1, <2>1, <2>3 DEF Own, On, OwnArgs, Apart, OwnReport, Config, ServerOps
  <2>5. ASSUME ~touched[p] PROVE Fresh(s)
    <3>1. Fresh(r) /\ On(r) /\ r.exit = "none" /\ ~r.ran /\ r.pc = "intercept"
      BY <1>1, <2>1, <2>5 DEF Own, OwnReport
    <3>2. KnowsKeys(s) /\ KnowsCurrent(s)
      BY <2>3, <3>1 DEF Fresh, KnowsKeys, Apart, KnowsCurrent, On, Config, ServerOps
    <3>3. KnowsOwn(s) /\ KnowsBackend(s) /\ KnowsList(s)
      BY <2>3, <3>1 DEF Fresh, KnowsOwn, KnowsBackend, KnowsList
    <3> QED BY <3>2, <3>3 DEF Fresh
  <2> QED BY <1>1, <2>1, <2>2, <2>3, <2>4, <2>5, ReadingStep
<1>4. proc[p].flag \in Name \cup {"", "default"}
  BY <1>1 DEF Proc
<1>5. config.current \in Name \cup {"", "default"}
  <2>1. CASE config = Torn
    BY <2>1 DEF Torn
  <2>2. CASE config \in [torn : {FALSE}, current : Name \cup {""}, keys : SUBSET OtherKeys]
    BY <2>2
  <2> QED BY <1>1, <2>1, <2>2 DEF Configs
<1> QED BY <1>2, <1>3, <1>4, <1>5 DEF Intercept

(* The backend of a call, if it needs one.                                 *)
LEMMA ConfigureInv ==
  ASSUME CommandInv, NEW p \in Process, ConfigureContext(p)
  PROVE  CommandInv'
<1>1. /\ Own(proc[p]) /\ UNCHANGED <<meta, config, touched>> /\ proc[p].pc = "configure"
  BY DEF CommandInv, ConfigureContext
<1>2. {"cfg.load", "failed", "ls.readdir", "backend"} \subseteq PC
  BY DEF PC, Config
<1>3. proc[p].op \in ServerOps
  BY <1>1 DEF Own, On, Config
<1>4. CASE proc[p].op = "SetCurrent"
  BY <1>1, <1>2, <1>4, GoingOn DEF ConfigureContext
<1>5. CASE proc[p].op = "List"
  BY <1>1, <1>2, <1>5, GoingOn DEF ConfigureContext
<1>6. CASE proc[p].op = "Call"
  BY <1>1, <1>2, <1>6, GoingOn, FinishingStep DEF ConfigureContext
<1> QED BY <1>3, <1>4, <1>5, <1>6 DEF ServerOps

(* A command or a call begins.                                             *)
LEMMA LaunchInv ==
  ASSUME CommandInv, NEW p \in Process, Launch(p)
  PROVE  CommandInv'
<1>1. PICK c \in Commands[p] :
        proc' = [proc EXCEPT ![p] = [Idle EXCEPT !.op = c.op, !.args = c.args, !.type = c.type,
                                        !.flag = c.flag, !.force = c.force, !.seen = config,
                                        !.had = {n \in Name : meta[n] # "none"},
                                        !.pc = IF c.op \in ServerOps THEN "intercept" ELSE "main"]]
  BY DEF Launch
<1>2. c \in Command /\ (c.op \in {"create", "use", "SetCurrent"} => c.args # <<>>)
  <2>1. c \in Command /\ (c.op \in {"create", "use", "SetCurrent"} => Len(c.args) = 1)
    BY CommandAssumption
  <2>2. Len(<<>>) # 1
    BY EmptySeq
  <2>3. Len(c.args) = 1 => c.args # <<>>
    BY <2>2
  <2> QED BY <2>1, <2>3
<1> DEFINE x == IF c.op \in ServerOps THEN "intercept" ELSE "main"
           s == [Idle EXCEPT !.op = c.op, !.args = c.args, !.type = c.type,
                                        !.flag = c.flag, !.force = c.force, !.seen = config,
                                        !.had = {n \in Name : meta[n] # "none"},
                                        !.pc = x]
<1>3. /\ UNCHANGED <<meta, config>> /\ touched' = [touched EXCEPT ![p] = FALSE]
      /\ proc' = [proc EXCEPT ![p] = s]
  BY <1>1 DEF Launch
<1>4. /\ s.pc = x /\ s.op = c.op /\ s.args = c.args /\ s.type = c.type /\ s.flag = c.flag
      /\ s.force = c.force /\ s.seen = config /\ s.had = Present
      /\ s.shown = {} /\ s.dirs = {} /\ s.cfg = Torn /\ s.status = <<>> /\ s.exit = "none"
      /\ ~s.made /\ ~s.ran /\ ~s.delegated
  BY DEF Idle, Present
<1>5. s \in Proc
  <2>1. /\ x \in PC /\ config \in Configs /\ Torn \in Configs /\ <<>> \in Reports /\ "moby" \in Type
        /\ {n \in Name : meta[n] # "none"} \in SUBSET Name
    BY DEF PC, CommandInv, StoreType, Configs, Reports, Type
  <2>2. /\ c.op \in {"none", "create", "rm", "use", "ls", "show", "update", "inspect",
                      "backend", "SetCurrent", "List", "Call"}
        /\ c.args \in Seq(Arg) /\ c.type \in Type /\ c.flag \in Name \cup {"", "default"}
        /\ c.force \in BOOLEAN
    BY <1>2 DEF Command, Arg
  <2> HIDE DEF x
  <2> QED BY <2>1, <2>2 DEF Proc, Idle
<1>6. c.op # "none"
  BY <1>2 DEF Command
<1> HIDE DEF s
<1>7. Own(s)
  BY <1>2, <1>4, <1>6 DEF Own, On, OwnArgs, Apart, OwnReport, Config, ServerOps
<1>8. Fresh(s)
  <2>1. s.pc \in {"main", "intercept"}
    BY <1>4
  <2>2. KnowsKeys(s) /\ KnowsCurrent(s)
    BY <1>4, <2>1 DEF KnowsKeys, Apart, KnowsCurrent, Config, ServerOps
  <2>3. KnowsOwn(s) /\ KnowsBackend(s) /\ KnowsList(s)
    BY <1>4, <2>1 DEF KnowsOwn, KnowsBackend, KnowsList
  <2> QED BY <2>2, <2>3 DEF Fresh
<1>9. proc'[p] = s /\ \A q \in Process : q # p => proc'[q] = proc[q] /\ touched'[q] = touched[q]
  BY <1>3 DEF CommandInv, StoreType
<1>10. StoreType'
  BY <1>3, <1>5 DEF CommandInv, StoreType
<1>11. ASSUME NEW q \in Process PROVE Own(proc'[q])
  <2>1. CASE q = p
    BY <1>7, <1>9, <2>1
  <2>2. CASE q # p
    BY <1>9, <2>2 DEF CommandInv
  <2> QED BY <2>1, <2>2
<1>12. ASSUME NEW q \in Process PROVE (proc[q].pc = "idle" \/ touched[q] \/ Fresh(proc[q]))'
  <2>1. proc[q] \in Proc
    BY DEF CommandInv, StoreType
  <2>2. CASE q = p
    BY <1>3, <1>5, <1>8, <1>9, <2>2, FreshStays
  <2>3. CASE q # p
    BY <1>3, <1>9, <2>1, <2>3, FreshStays DEF CommandInv
  <2> QED BY <2>2, <2>3
<1>13. MadeStands' /\ ExclusiveCreate'
  BY <1>3, <1>4, <1>9 DEF CommandInv, MadeStands, ExclusiveCreate
<1> QED BY <1>10, <1>11, <1>12, <1>13 DEF CommandInv

-----------------------------------------------------------------------------
(* A step that changes a file: the others no longer rely on what they know *)
(* of the files, whose state may only say of a context they made whether   *)
(* it still stands.                                                        *)
LEMMA WritingStep ==
  ASSUME CommandInv, NEW p \in Process, NEW s \in Proc, Touch(p),
         meta' \in [Name -> {"none", "bare", "torn"} \cup Type], config' \in Configs,
         proc' \in [Process -> Proc], proc'[p] = s,
         \A q \in Process : q # p => proc'[q].pc = proc[q].pc /\ Own(proc'[q]),
         Own(s), touched[p] \/ Fresh(s)', MadeStands', ExclusiveCreate'
  PROVE  CommandInv'
<1>1. touched' = [q \in Process |-> touched[q] \/ (q # p /\ proc[q].pc # "idle")]
  BY DEF Touch
<1>2. StoreType'
  BY <1>1 DEF StoreType
<1>3. ASSUME NEW q \in Process PROVE Own(proc'[q])
  OBVIOUS
<1>4. ASSUME NEW q \in Process PROVE (proc[q].pc = "idle" \/ touched[q] \/ Fresh(proc[q]))'
  <2>1. CASE q = p
    <3>1. CASE touched[p]
      BY <1>1, <2>1, <3>1
    <3>2. CASE Fresh(s)'
      BY <2>1, <3>2
    <3> QED BY <3>1, <3>2
  <2>2. CASE q # p
    BY <1>1, <2>2
  <2> QED BY <2>1, <2>2
<1> QED BY <1>2, <1>3, <1>4 DEF CommandInv

(* The same for a step that leaves the others alone.                       *)
LEMMA WritingAlone ==
  ASSUME CommandInv, NEW p \in Process, NEW s \in Proc, Touch(p),
         meta' \in [Name -> {"none", "bare", "torn"} \cup Type], config' \in Configs,
         proc' = [proc EXCEPT ![p] = s],
         Own(s), touched[p] \/ Fresh(s)',
         \A n \in Name : meta[n] # "none" => meta'[n] # "none",
         /\ s.made => /\ s.args = proc[p].args
                      /\ proc[p].made \/ /\ meta'[Head(s.args)] # "none"
                                         /\ meta[Head(s.args)] = "none"
  PROVE  CommandInv'
<1>1. proc \in [Process -> Proc] /\ proc' \in [Process -> Proc] /\ proc'[p] = s
      /\ \A q \in Process : q # p => proc'[q] = proc[q]
  BY DEF CommandInv, StoreType
<1>2. ASSUME NEW q \in Process, proc[q].made
      PROVE  Head(proc[q].args) \in Name /\ meta'[Head(proc[q].args)] # "none"
  <2>1. Own(proc[q]) /\ proc[q].args \in Seq(Arg)
    BY <1>1 DEF CommandInv, Proc
  <2>2. Head(proc[q].args) \in Arg /\ Head(proc[q].args) # "default"
    BY <1>2, <2>1, ArgFacts DEF Own, OwnArgs
  <2> QED BY <1>2, <2>2 DEF Arg, CommandInv, MadeStands
<1>3. MadeStands'
  BY <1>1, <1>2 DEF MadeStands
<1>4. ASSUME NEW q \in Process, q # p, proc[q].made, s.made PROVE Head(proc[q].args) # Head(s.args)
  BY <1>4, <1>1 DEF CommandInv, MadeStands, ExclusiveCreate
<1>5. ExclusiveCreate'
  BY <1>1, <1>4 DEF CommandInv, ExclusiveCreate
<1>6. \A q \in Process : q # p => proc'[q].pc = proc[q].pc /\ Own(proc'[q])
  BY <1>1 DEF CommandInv
<1> QED BY <1>1, <1>3, <1>5, <1>6, WritingStep

(* com.docker.cli writes its keys.                                         *)
LEMMA ChildWritesInv ==
  ASSUME CommandInv, NEW p \in Process, ChildWritesConfig(p)
  PROVE  CommandInv'
<1>1. /\ proc \in [Process -> Proc] /\ proc[p] \in Proc /\ Own(proc[p])
      /\ proc[p].pc = "exec" /\ ~config.torn /\ meta' = meta /\ proc' = proc /\ Touch(p)
      /\ meta \in [Name -> {"none", "bare", "torn"} \cup Type]
      /\ config \in Configs /\ config' = [config EXCEPT !.keys = OtherKeys]
      /\ touched[p] \/ Fresh(proc[p])
  BY DEF CommandInv, StoreType, ChildWritesConfig
<1>2. config' \in Configs
  <2>1. config # Torn
    <3>1. Torn.torn
      BY DEF Torn
    <3> QED BY <1>1, <3>1
  <2>2. config \in [torn : {FALSE}, current : Name \cup {""}, keys : SUBSET OtherKeys]
    BY <1>1, <2>1 DEF Configs
  <2>3. config' \in [torn : {FALSE}, current : Name \cup {""}, keys : SUBSET OtherKeys]
    BY <1>1, <2>2
  <2> QED BY <2>3 DEF Configs
<1>3. proc[p].delegated /\ proc[p].exit = "none"
  BY <1>1 DEF Own, OwnReport
<1>4. PICK r \in Proc : r = proc[p]
  BY <1>1
<1>5. ASSUME ~touched[p] PROVE Fresh(r)'
  <2>1. ~r.ran
    BY <1>1, <1>4, <1>5 DEF Fresh, KnowsBackend
  <2>2. KnowsKeys(r)'
    BY <1>1, <1>3, <1>4 DEF KnowsKeys
  <2>3. KnowsCurrent(r)'
    BY <1>1, <1>3, <1>4 DEF KnowsCurrent, Apart, Config
  <2>4. KnowsOwn(r)' /\ KnowsList(r)' /\ KnowsBackend(r)'
    BY <1>1, <1>3, <1>4, <2>1 DEF KnowsOwn, KnowsList, KnowsBackend
  <2> QED BY <2>2, <2>3, <2>4 DEF Fresh
<1>6. proc' = [proc EXCEPT ![p] = r]
  BY <1>1, <1>4
<1> QED BY <1>1, <1>2, <1>4, <1>5, <1>6, WritingAlone

(* The directory of a context is made, its file opened and written.        *)
LEMMA CreateStep ==
  ASSUME CommandInv, NEW p \in Process, NEW r \in Proc, NEW s \in Proc, NEW n \in Name,
         NEW m \in {"bare", "torn"} \cup Type,
         r = proc[p], n = Head(r.args), r.op = "create", n # "default",
         r.pc \in {"create.mkdir", "create.open", "create.write"},
         s.pc \in {"create.open", "create.write", "success"},
         proc' = [proc EXCEPT ![p] = s], Touch(p), UNCHANGED config,
         meta' = [meta EXCEPT ![n] = m] \/ (UNCHANGED meta /\ s.pc = "success"),
         s.pc = "create.open" => m = "bare",
         s.pc = "create.write" => m = "torn",
         s.op = r.op /\ s.args = r.args /\ s.flag = r.flag,
         SameConfig(s, r), SameList(s, r), SameRun(s, r), SameReport(s, r),
         s.made => r.made \/ (meta[n] = "none" /\ meta' = [meta EXCEPT ![n] = m])
  PROVE  CommandInv'
<1>1. /\ meta \in [Name -> {"none", "bare", "torn"} \cup Type] /\ config' \in Configs
      /\ proc \in [Process -> Proc] /\ Own(r)
  BY DEF CommandInv, StoreType
<1>2. /\ meta' \in [Name -> {"none", "bare", "torn"} \cup Type]
      /\ \A k \in Name : meta[k] # "none" => meta'[k] # "none"
      /\ meta' = [meta EXCEPT ![n] = m] => meta'[n] = m /\ meta'[n] # "none"
  BY <1>1 DEF Type
<1>3. Own(s)
  <2>1. On(s) /\ OwnArgs(s)
    BY <1>1 DEF Own, On, OwnArgs, Apart, Config
  <2>2. OwnReport(s)
    BY <1>1 DEF Own, OwnReport
  <2> QED BY <2>1, <2>2 DEF Own
<1>4. Fresh(s)'
  <2>1. ~s.ran /\ s.exit = "none"
    BY <1>1 DEF Own, OwnReport
  <2>2. KnowsKeys(s)' /\ KnowsCurrent(s)'
    BY DEF KnowsKeys, Apart, KnowsCurrent, Config
  <2>3. KnowsOwn(s)'
    BY <1>2 DEF KnowsOwn
  <2>4. KnowsList(s)' /\ KnowsBackend(s)'
    BY <2>1 DEF KnowsList, KnowsBackend
  <2> QED BY <2>2, <2>3, <2>4 DEF Fresh
<1> QED BY <1>1, <1>2, <1>3, <1>4, WritingAlone

(* The steps of Create.                                                    *)
LEMMA CreateInv ==
  ASSUME CommandInv, NEW p \in Process, CreateMkdir(p) \/ CreateOpen(p) \/ CreateWrite(p)
  PROVE  CommandInv'
<1>1. PICK r \in Proc : r = proc[p]
  BY DEF CommandInv, StoreType
<1>2. /\ r.pc \in {"create.mkdir", "create.open", "create.write"} /\ Own(r) /\ r.args \in Seq(Arg)
      /\ r.type \in Type
  BY <1>1 DEF CommandInv, StoreType, CreateMkdir, CreateOpen, CreateWrite, Proc
<1>3. r.op = "create" /\ r.args # <<>> /\ Head(r.args) # "default"
  BY <1>2 DEF Own, On, OwnArgs, Apart, Config
<1>4. PICK n \in Name : n = Head(r.args)
  BY <1>2, <1>3, ArgFacts DEF Arg
<1>5. {"create.open", "create.write", "success", "failed"} \subseteq PC
  BY DEF PC
<1>6. CASE Fail(p) /\ UNCHANGED <<meta, config, touched>> /\ r.pc # "create.write"
  BY <1>1, <1>2, <1>5, <1>6, GoingOn
<1>7. CASE CreateMkdir(p) /\ meta[n] = "none"
  <2> DEFINE s == [r EXCEPT !.pc = "create.open", !.made = TRUE]
  <2>1. /\ proc' = [proc EXCEPT ![p] = s] /\ Touch(p) /\ UNCHANGED config
        /\ meta' = [meta EXCEPT ![n] = "bare"] /\ meta[n] = "none"
    BY <1>1, <1>4, <1>7 DEF CreateMkdir
  <2>2. /\ s \in Proc /\ s.pc = "create.open" /\ s.op = r.op /\ s.args = r.args /\ s.flag = r.flag
        /\ SameConfig(s, r) /\ SameList(s, r) /\ SameRun(s, r) /\ SameReport(s, r)
    BY <1>5 DEF Proc
  <2> HIDE DEF s
  <2> QED BY <1>1, <1>2, <1>3, <1>4, <2>1, <2>2, CreateStep
<1>8. CASE CreateOpen(p) /\ meta[n] # "none"
  <2> DEFINE s == [r EXCEPT !.pc = "create.write", !.fd = TRUE]
  <2>1. /\ proc' = [proc EXCEPT ![p] = s] /\ Touch(p) /\ UNCHANGED config
        /\ meta' = [meta EXCEPT ![n] = "torn"]
    BY <1>1, <1>4, <1>8 DEF CreateOpen
  <2>2. s \in Proc /\ s.pc = "create.write" /\ Same(s, r)
    BY <1>5 DEF Proc
  <2> HIDE DEF s
  <2> QED BY <1>1, <1>2, <1>3, <1>4, <2>1, <2>2, CreateStep
<1>9. CASE CreateWrite(p)
  <2> DEFINE s == [r EXCEPT !.pc = "success", !.fd = FALSE]
  <2>1. /\ proc' = [proc EXCEPT ![p] = s] /\ Touch(p) /\ UNCHANGED config
    BY <1>1, <1>9 DEF CreateWrite
  <2>2. PICK m \in {"bare", "torn"} \cup Type : meta' = [meta EXCEPT ![n] = m] \/ UNCHANGED meta
    BY <1>1, <1>2, <1>4, <1>9 DEF CreateWrite
  <2>3. s \in Proc /\ s.pc = "success" /\ Same(s, r)
    BY <1>5 DEF Proc
  <2> HIDE DEF s
  <2> QED BY <1>1, <1>2, <1>3, <1>4, <2>1, <2>2, <2>3, CreateStep
<1>10. CASE (CreateMkdir(p) /\ meta[n] # "none") \/ (CreateOpen(p) /\ meta[n] = "none")
  BY <1>1, <1>4, <1>6, <1>10 DEF CreateMkdir, CreateOpen
<1> QED BY <1>7, <1>8, <1>9, <1>10

(* The steps of RemoveAll, which take the file or the directory away from  *)
(* whoever holds it.                                                       *)
LEMMA RemovingInv ==
  ASSUME CommandInv, NEW p \in Process, NEW r \in Proc, NEW s \in Proc, NEW n \in Name,
         NEW m \in {"none", "bare"},
         r = proc[p], n = Head(r.args), r.op = "rm", r.pc \in {"rm.unlink", "rm.rmdir"},
         \/ s.pc = "rm.rmdir" /\ s.args = r.args /\ (meta[n] # "none" => m = "bare")
         \/ s.pc = "rm.next" /\ \A q \in Process : q # p /\ proc'[q].made => Head(proc[q].args) # n,
         s.op = r.op /\ s.flag = r.flag /\ s.force = r.force /\ s.made = r.made,
         SameConfig(s, r), SameList(s, r), SameRun(s, r), SameReport(s, r),
         proc' \in [Process -> Proc], proc'[p] = s,
         \A q \in Process : q # p =>
            /\ proc'[q].pc = proc[q].pc
            /\ proc'[q].op = proc[q].op /\ proc'[q].args = proc[q].args
            /\ proc'[q].force = proc[q].force /\ (proc'[q].made => proc[q].made)
            /\ SameConfig(proc'[q], proc[q]) /\ SameList(proc'[q], proc[q])
            /\ SameRun(proc'[q], proc[q]) /\ SameReport(proc'[q], proc[q]),
         meta' = [meta EXCEPT ![n] = m], Touch(p), UNCHANGED config
  PROVE  CommandInv'
<1>1. /\ meta \in [Name -> {"none", "bare", "torn"} \cup Type] /\ config' \in Configs
      /\ proc \in [Process -> Proc] /\ \A q \in Process : Own(proc[q])
      /\ touched[p] \/ Fresh(r)
  BY DEF CommandInv, StoreType
<1>2. /\ meta' \in [Name -> {"none", "bare", "torn"} \cup Type] /\ meta'[n] = m
      /\ \A k \in Name : k # n => meta'[k] = meta[k]
  BY <1>1
<1>3. Own(s) /\ ~s.made
  <2>0. Own(r) /\ s.pc \in {"rm.rmdir", "rm.next"} /\ (s.pc = "rm.rmdir" => s.args = r.args)
    BY <1>1
  <2>1. On(s)
    BY <2>0 DEF On
  <2>2. OwnArgs(s) /\ ~s.made
    BY <2>0 DEF Own, OwnArgs, Apart, Config
  <2>3. OwnReport(s)
    BY <2>0 DEF Own, OwnReport
  <2> QED BY <2>1, <2>2, <2>3 DEF Own
<1>4. ASSUME NEW q \in Process, q # p PROVE proc'[q].pc = proc[q].pc /\ Own(proc'[q])
  <2>0. /\ proc'[q].pc = proc[q].pc /\ proc'[q].op = proc[q].op /\ proc'[q].args = proc[q].args
        /\ proc'[q].cur = proc[q].cur /\ proc'[q].cfg = proc[q].cfg /\ Own(proc[q])
        /\ proc'[q].force = proc[q].force /\ (proc'[q].made => proc[q].made)
    BY <1>1, <1>4
  <2>1. On(proc'[q])
    BY <2>0 DEF Own, On
  <2>2. OwnArgs(proc'[q])
    BY <2>0 DEF Own, OwnArgs, Apart
  <2>3. OwnReport(proc'[q])
    BY <1>1, <1>4 DEF Own, OwnReport
  <2> QED BY <1>4, <2>1, <2>2, <2>3 DEF Own
<1>5. ASSUME NEW q \in Process, proc'[q].made
      PROVE  /\ q # p /\ proc[q].made /\ proc'[q].args = proc[q].args
             /\ meta'[Head(proc[q].args)] # "none"
  <2>1. q # p /\ proc[q].made /\ proc'[q].args = proc[q].args
    BY <1>3, <1>5
  <2>2. Own(proc[q]) /\ proc[q].args \in Seq(Arg) /\ meta[Head(proc[q].args)] # "none"
    BY <1>1, <2>1 DEF CommandInv, MadeStands, Proc
  <2>3. Head(proc[q].args) \in Name
    BY <2>1, <2>2, ArgFacts DEF Own, OwnArgs, Arg
  <2> QED BY <1>2, <1>5, <2>1, <2>2, <2>3
<1>6. MadeStands' /\ ExclusiveCreate'
  BY <1>5 DEF CommandInv, MadeStands, ExclusiveCreate
<1>7. ASSUME ~touched[p] PROVE Fresh(s)'
  <2>1. Fresh(r) /\ ~r.ran /\ r.exit = "none"
    BY <1>1, <1>7 DEF Own, OwnReport
  <2>2. KnowsKeys(s)'
    BY <2>1 DEF Fresh, KnowsKeys
  <2>3. KnowsCurrent(s)'
    BY <2>1 DEF Fresh, Apart, KnowsCurrent, Config
  <2>4. KnowsOwn(s)' /\ KnowsList(s)' /\ KnowsBackend(s)'
    BY <2>1 DEF KnowsOwn, KnowsList, KnowsBackend
  <2> QED BY <2>2, <2>3, <2>4 DEF Fresh
<1> QED BY <1>1, <1>2, <1>3, <1>4, <1>6, <1>7, WritingStep

(* The same, as the code takes them.                                       *)
LEMMA RemoveAllInv ==
  ASSUME CommandInv, NEW p \in Process, RemoveUnlink(p) \/ RemoveDir(p)
  PROVE  CommandInv'
<1>1. PICK r \in Proc : r = proc[p]
  BY DEF CommandInv, StoreType
<1>2. /\ r.pc \in {"rm.unlink", "rm.rmdir"} /\ Own(r) /\ r.args \in Seq(Arg)
      /\ proc \in [Process -> Proc]
  BY <1>1 DEF CommandInv, StoreType, RemoveUnlink, RemoveDir, Proc
<1>3. r.op = "rm" /\ r.args # <<>> /\ Head(r.args) # "default"
  BY <1>2 DEF Own, On, OwnArgs, Apart, Config
<1>4. PICK n \in Name : n = Head(r.args)
  BY <1>2, <1>3, ArgFacts DEF Arg
<1>5. {"rm.rmdir", "rm.next"} \subseteq PC
  BY DEF PC
<1>6. CASE RemoveUnlink(p)
  <2> DEFINE m == IF meta[n] = "none" THEN "none" ELSE "bare"
             s == [r EXCEPT !.pc = "rm.rmdir"]
             o(q) == [proc[q] EXCEPT !.fd = @ /\ Head(proc[q].args) # n]
  <2>1. /\ meta' = [meta EXCEPT ![n] = m] /\ Touch(p) /\ UNCHANGED config
    BY <1>1, <1>4, <1>6 DEF RemoveUnlink
  <2>2. proc' = [q \in Process |-> IF q = p THEN s ELSE o(q)]
    BY <1>1, <1>4, <1>6 DEF RemoveUnlink
  <2>3. s \in Proc /\ s.pc = "rm.rmdir" /\ Same(s, r)
    BY <1>5 DEF Proc
  <2>4. ASSUME NEW q \in Process PROVE o(q) \in Proc /\ o(q).pc = proc[q].pc /\ Same(o(q), proc[q])
    <3> DEFINE v == proc[q].fd /\ Head(proc[q].args) # n
    <3>1. proc[q] \in Proc
      BY <1>2
    <3>2. v \in BOOLEAN
      OBVIOUS
    <3>3. ASSUME NEW x \in Proc, NEW w \in BOOLEAN
          PROVE  [x EXCEPT !.fd = w] \in Proc /\ [x EXCEPT !.fd = w].pc = x.pc
      BY <3>3 DEF Proc
    <3>4. ASSUME NEW x \in Proc, NEW w \in BOOLEAN PROVE Same([x EXCEPT !.fd = w], x)
      BY <3>4 DEF Proc
    <3>5. o(q) = [proc[q] EXCEPT !.fd = v]
      BY Zenon
    <3> HIDE DEF v, o, Same
    <3> QED BY <3>1, <3>2, <3>3, <3>4, <3>5
  <2> HIDE DEF s, o, m
  <2>5. proc' \in [Process -> Proc] /\ proc'[p] = s /\ \A q \in Process : q # p => proc'[q] = o(q)
    BY <2>2, <2>3, <2>4
  <2>6. m \in {"none", "bare"} /\ (meta[n] # "none" => m = "bare")
    BY DEF m
  <2>7. \A q \in Process : q # p =>
            /\ proc'[q].pc = proc[q].pc
            /\ proc'[q].op = proc[q].op /\ proc'[q].args = proc[q].args
            /\ proc'[q].force = proc[q].force /\ (proc'[q].made => proc[q].made)
            /\ SameConfig(proc'[q], proc[q]) /\ SameList(proc'[q], proc[q])
            /\ SameRun(proc'[q], proc[q]) /\ SameReport(proc'[q], proc[q])
    BY <2>4, <2>5
  <2> QED BY <1>1, <1>2, <1>3, <1>4, <2>1, <2>3, <2>5, <2>6, <2>7, RemovingInv
<1>7. CASE RemoveDir(p) /\ meta[n] \in {"none", "bare"}
  <2>1. PICK a \in Seq(Arg) : a = Tail(r.args)
    BY <1>2, <1>3, ArgFacts
  <2> DEFINE s == [r EXCEPT !.pc = "rm.next", !.args = a]
             o(q) == [proc[q] EXCEPT !.made = @ /\ Head(proc[q].args) # n]
  <2>2. /\ meta' = [meta EXCEPT ![n] = "none"] /\ Touch(p) /\ UNCHANGED config
    BY <1>1, <1>4, <1>7 DEF RemoveDir
  <2>3. proc' = [q \in Process |-> IF q = p THEN s ELSE o(q)]
    BY <1>1, <1>4, <1>7, <2>1 DEF RemoveDir
  <2>4. /\ s \in Proc /\ s.pc = "rm.next" /\ s.op = r.op /\ s.flag = r.flag /\ s.force = r.force
        /\ s.made = r.made
        /\ SameConfig(s, r) /\ SameList(s, r) /\ SameRun(s, r) /\ SameReport(s, r)
    BY <1>5 DEF Proc
  <2>5. ASSUME NEW q \in Process
        PROVE  /\ o(q) \in Proc /\ o(q).pc = proc[q].pc /\ o(q).op = proc[q].op
               /\ o(q).args = proc[q].args /\ o(q).force = proc[q].force /\ SameConfig(o(q), proc[q]) /\ SameList(o(q), proc[q])
               /\ SameRun(o(q), proc[q]) /\ SameReport(o(q), proc[q])
               /\ o(q).made => proc[q].made /\ Head(proc[q].args) # n
    <3> DEFINE v == proc[q].made /\ Head(proc[q].args) # n
               g(x, w) == [x EXCEPT !.made = w]
    <3>1. proc[q] \in Proc
      BY <1>2
    <3>2. v \in BOOLEAN /\ (v => proc[q].made /\ Head(proc[q].args) # n)
      OBVIOUS
    <3>3. ASSUME NEW x \in Proc, NEW w \in BOOLEAN
          PROVE  /\ g(x, w) \in Proc /\ g(x, w).pc = x.pc /\ g(x, w).op = x.op
                 /\ g(x, w).args = x.args /\ g(x, w).force = x.force /\ g(x, w).made = w
      BY <3>3 DEF Proc
    <3>4. ASSUME NEW x \in Proc, NEW w \in BOOLEAN
          PROVE  /\ SameConfig(g(x, w), x) /\ SameList(g(x, w), x)
                 /\ SameRun(g(x, w), x) /\ SameReport(g(x, w), x)
      BY <3>4 DEF Proc
    <3>5. o(q) = g(proc[q], v)
      BY Zenon
    <3> HIDE DEF v, o, g, SameConfig, SameList, SameRun, SameReport
    <3> QED BY <3>1, <3>2, <3>3, <3>4, <3>5
  <2> HIDE DEF s, o
  <2>6. proc' \in [Process -> Proc] /\ proc'[p] = s /\ \A q \in Process : q # p => proc'[q] = o(q)
    BY <2>3, <2>4, <2>5
  <2>7. \A q \in Process : q # p =>
            /\ proc'[q].pc = proc[q].pc
            /\ proc'[q].op = proc[q].op /\ proc'[q].args = proc[q].args
            /\ proc'[q].force = proc[q].force /\ (proc'[q].made => proc[q].made)
            /\ SameConfig(proc'[q], proc[q]) /\ SameList(proc'[q], proc[q])
            /\ SameRun(proc'[q], proc[q]) /\ SameReport(proc'[q], proc[q])
    BY <2>5, <2>6
  <2>8. \A q \in Process : q # p /\ proc'[q].made => Head(proc[q].args) # n
    BY <2>5, <2>6
  <2> QED BY <1>1, <1>2, <1>3, <1>4, <2>2, <2>4, <2>6, <2>7, <2>8, RemovingInv
<1>8. CASE RemoveDir(p) /\ meta[n] \notin {"none", "bare"}
  <2>1. UNCHANGED <<meta, config, touched>> /\ proc[p].pc = "rm.rmdir" /\ Step(p, "rm.unlink")
    BY <1>1, <1>4, <1>8 DEF RemoveDir
  <2> QED BY <2>1, RemoveInv
<1> QED BY <1>6, <1>7, <1>8

(* The configuration file is truncated, and written.                       *)
LEMMA WriteConfigInv ==
  ASSUME CommandInv, NEW p \in Process, OpenConfig(p) \/ WriteConfig(p)
  PROVE  CommandInv'
<1>1. PICK r \in Proc : r = proc[p]
  BY DEF CommandInv, StoreType
<1>2. /\ r.pc \in {"cfg.open", "cfg.write"} /\ Own(r) /\ r.args \in Seq(Arg)
      /\ proc \in [Process -> Proc] /\ meta' = meta /\ Touch(p)
      /\ touched[p] \/ Fresh(r)
  BY <1>1 DEF CommandInv, StoreType, OpenConfig, WriteConfig, Proc
<1>3. /\ r.op \in {"rm", "use", "SetCurrent"} /\ r.args # <<>> /\ ~r.made
      /\ ~r.ran /\ r.exit = "none"
  BY <1>2 DEF Own, On, OwnArgs, Apart, OwnReport, Config
<1>4. Head(r.args) \in Arg /\ Head(r.args) # ""
  BY <1>2, <1>3, ArgFacts
<1>5. ASSUME NEW x \in {"cfg.write", "rm.stat", "success"}, Step(p, x), config' \in Configs,
             x = "rm.stat" => r.op = "rm",
             \A s \in Proc : s.pc = x /\ Same(s, r) /\ Fresh(r) => KnowsKeys(s)' /\ KnowsCurrent(s)'
      PROVE  CommandInv'
  <2> DEFINE s == [r EXCEPT !.pc = x]
  <2>1. proc' = [proc EXCEPT ![p] = s]
    BY <1>1, <1>5 DEF Step
  <2>2. s \in Proc /\ s.pc = x /\ Same(s, r)
    <3>1. x \in PC
      BY DEF PC, Config
    <3> QED BY <3>1 DEF Proc
  <2> HIDE DEF s
  <2>3. Own(s)
    <3>1. On(s)
      BY <1>3, <1>5, <2>2 DEF On, Config
    <3>2. ~r.cfg.torn /\ (r.op = "rm" => r.force /\ r.cur # "")
      BY <1>2 DEF Own, OwnArgs, Apart, Config
    <3>3. OwnArgs(s)
      BY <1>2, <1>3, <1>5, <2>2, <3>2 DEF Own, OwnArgs, Apart, Config
    <3>4. OwnReport(s)
      BY <1>2, <1>3, <2>2 DEF Own, OwnReport, Config
    <3> QED BY <3>1, <3>3, <3>4 DEF Own
  <2>4. Fresh(r) => Fresh(s)'
    <3>1. KnowsOwn(s)' /\ KnowsList(s)' /\ KnowsBackend(s)'
      BY <1>3, <2>2 DEF KnowsOwn, KnowsList, KnowsBackend
    <3> QED BY <1>5, <2>2, <3>1 DEF Fresh
  <2>5. meta' \in [Name -> {"none", "bare", "torn"} \cup Type]
    BY <1>2 DEF CommandInv, StoreType
  <2> QED BY <1>2, <1>3, <1>5, <2>1, <2>2, <2>3, <2>4, <2>5, WritingAlone
<1>6. CASE OpenConfig(p)
  <2>1. config' = Torn /\ Step(p, "cfg.write") /\ config' \in Configs /\ r.pc = "cfg.open"
    BY <1>1, <1>6 DEF OpenConfig, Configs
  <2>2. Torn.current = ""
    BY DEF Torn
  <2>3. ASSUME NEW s \in Proc, s.pc = "cfg.write", Same(s, r), Fresh(r) PROVE KnowsKeys(s)'
    BY <1>3, <2>1, <2>3 DEF Fresh, KnowsKeys
  <2>4. ASSUME NEW s \in Proc, s.pc = "cfg.write", Same(s, r), Fresh(r) PROVE KnowsCurrent(s)'
    BY <1>2, <2>1, <2>2, <2>4 DEF Fresh, Apart, KnowsCurrent, Config, Get
  <2> QED BY <1>5, <2>1, <2>3, <2>4
<1>7. CASE WriteConfig(p)
  <2> DEFINE c == IF r.op = "rm" \/ Head(r.args) = "default" THEN "" ELSE Head(r.args)
             new == [torn |-> FALSE, keys |-> r.cfg.keys, current |-> c]
             x == IF r.op = "rm" THEN "rm.stat" ELSE "success"
  <2>1. /\ r.pc = "cfg.write" /\ Step(p, x)
        /\ config' = new \/ (~config.torn /\ config' = Torn)
    BY <1>1, <1>7 DEF WriteConfig
  <2>2. c \in Name \cup {""} /\ r.cfg.keys \in SUBSET OtherKeys
    <3>1. c \in Name \cup {""}
      BY <1>4 DEF Arg
    <3>2. r.cfg \in Configs
      BY DEF Proc
    <3>3. CASE r.cfg = Torn
      <4>1. Torn.keys = {}
        BY DEF Torn
      <4> QED BY <3>1, <3>3, <4>1
    <3>4. CASE r.cfg \in [torn : {FALSE}, current : Name \cup {""}, keys : SUBSET OtherKeys]
      BY <3>1, <3>4
    <3> QED BY <3>2, <3>3, <3>4 DEF Configs
  <2>3. /\ new \in [torn : {FALSE}, current : Name \cup {""}, keys : SUBSET OtherKeys]
        /\ new.keys = r.cfg.keys /\ new.current = c
    <3> HIDE DEF c
    <3> QED BY <2>2
  <2>4. r.op = "rm" => c = ""
    OBVIOUS
  <2>5. x \in {"rm.stat", "success"} /\ (x = "rm.stat" <=> r.op = "rm")
    OBVIOUS
  <2> HIDE DEF new, c, x
  <2>6. config' \in Configs
    BY <2>1, <2>3 DEF Configs
  <2>7. Fresh(r) => config' = new /\ r.cfg.keys = r.seen.keys
    <3>1. Torn.torn
      BY DEF Torn
    <3> QED BY <2>1, <3>1 DEF Fresh, KnowsKeys
  <2>8. ASSUME NEW s \in Proc, s.pc = x, Same(s, r), Fresh(r) PROVE KnowsKeys(s)'
    BY <2>3, <2>5, <2>7, <2>8 DEF KnowsKeys
  <2>9. ASSUME NEW s \in Proc, s.pc = x, Same(s, r), Fresh(r) PROVE KnowsCurrent(s)'
    BY <1>4, <2>3, <2>4, <2>5, <2>7, <2>9 DEF KnowsCurrent, Config
  <2> QED BY <1>5, <2>1, <2>5, <2>6, <2>8, <2>9
<1> QED BY <1>6, <1>7

-----------------------------------------------------------------------------
(* The invariant holds when no process has begun.                          *)
LEMMA CommandInitInv == Init => CommandInv
<1> SUFFICES ASSUME Init PROVE CommandInv
  OBVIOUS
<1>1. Idle \in Proc
  <2>1. "idle" \in PC /\ Torn \in Configs /\ <<>> \in Reports /\ "moby" \in Type /\ <<>> \in Seq(Arg)
    BY DEF PC, Configs, Reports, Type
  <2> QED BY <2>1 DEF Proc, Idle
<1>2. /\ Idle.pc = "idle" /\ Idle.op = "none" /\ ~Idle.made /\ ~Idle.ran /\ ~Idle.delegated
      /\ Idle.status = <<>> /\ Idle.exit = "none"
  BY DEF Idle
<1>3. StoreType
  BY <1>1, CommandAssumption DEF Init, StoreType
<1>4. \A p \in Process : proc[p] = Idle
  BY DEF Init
<1>5. Own(Idle)
  BY <1>2 DEF Own, On, OwnArgs, Apart, OwnReport, Config
<1>6. MadeStands /\ ExclusiveCreate
  BY <1>2, <1>4 DEF MadeStands, ExclusiveCreate
<1> QED BY <1>2, <1>3, <1>4, <1>5, <1>6 DEF CommandInv

(* It is inductive.                                                        *)
LEMMA CommandNextInv ==
  ASSUME CommandInv, [Next]_vars
  PROVE  CommandInv'
<1>1. CASE UNCHANGED vars
  <2>1. UNCHANGED <<meta, config, touched>> /\ proc' = proc
    BY <1>1 DEF vars
  <2>2. ASSUME NEW p \in Process PROVE (proc[p].pc = "idle" \/ touched[p] \/ Fresh(proc[p]))'
    BY <2>1, FreshStays DEF CommandInv, StoreType
  <2> QED BY <2>1, <2>2 DEF CommandInv, StoreType, MadeStands, ExclusiveCreate
<1>2. ASSUME NEW p \in Process, Run(p) PROVE CommandInv'
  <2>1. CASE StoreStep(p)
    <3>1. RemoveStat(p) => UNCHANGED <<meta, config, touched>>
      BY DEF RemoveStat
    <3> QED BY <2>1, <3>1, LookingInv, CreateInv, RemoveInv, RemoveAllInv, ListInv, LoadInv, WriteConfigInv
            DEF StoreStep
  <2>2. CASE RunRemove(p)
    BY <2>2, RemoveInv DEF RunRemove
  <2> QED BY <1>2, <2>1, <2>2, DetermineInv, TypeInv, LookingInv, BackendInv, EndingInv, StartChildInv,
             ChildWritesInv, InterceptInv, ConfigureInv DEF Run
<1> QED BY <1>1, <1>2, LaunchInv, InterruptInv, KillInv DEF Next

(* It holds in every state.                                                *)
LEMMA CommandInvariance == Spec => []CommandInv
<1>1. CommandInv /\ [Next]_vars => CommandInv'
  BY CommandNextInv
<1> QED BY <1>1, CommandInitInv, PTL DEF Spec

-----------------------------------------------------------------------------
(* What a command reports is what happened: a context it says it created   *)
(* is its own, a listing is whole, one program has carried the command     *)
(* out, and it is reported once, as a success exactly if it exits with 0   *)
(* (main.go; store.go, Create and List; mobycli, Exec).                    *)
THEOREM CommandsReportTrue == Spec => []ReportsTrue
<1>1. CommandInv => ReportsTrue
  <2> SUFFICES ASSUME CommandInv PROVE ReportsTrue
    OBVIOUS
  <2>1. ASSUME NEW p \in Process
        PROVE  proc[p] \in Proc /\ Own(proc[p]) /\ (proc[p].pc = "idle" \/ touched[p] \/ Fresh(proc[p]))
    BY DEF CommandInv, StoreType
  <2>2. ListingComplete
    BY <2>1 DEF ListingComplete, Fresh, KnowsList, Own, OwnReport
  <2>3. OneBackend
    BY <2>1 DEF OneBackend, Fresh, KnowsBackend, Own, OwnReport
  <2>4. ReportedOnce
    <3>1. ASSUME NEW t \in Reports PROVE Len(t) <= 1
      <4>1. CASE t = <<>>
        BY <4>1, EmptySeq
      <4>2. CASE \E st \in Report : t = <<st>>
        <5>1. PICK st \in Report : t = <<st>>
          BY <4>2
        <5>2. Len(<<st>>) = 1
          BY OneReport
        <5> QED BY <5>1, <5>2
      <4> QED BY <3>1, <4>1, <4>2 DEF Reports
    <3> QED BY <2>1, <3>1 DEF ReportedOnce, Own, OwnReport, Proc
  <2> QED BY <2>2, <2>3, <2>4 DEF ReportsTrue, CommandInv
<1> QED BY <1>1, CommandInvariance, PTL

-----------------------------------------------------------------------------
(* A step of p leaves the others where they are.                           *)
LEMMA OthersStay ==
  ASSUME CommandInv, NEW p \in Process, NEW q \in Process, q # p,
         Launch(p) \/ Run(p) \/ Interrupt(p) \/ Kill(p)
  PROVE  proc'[q].pc = proc[q].pc
<1>1. proc \in [Process -> Proc] /\ proc[q] \in Proc
  BY DEF CommandInv, StoreType
<1>2. CASE RemoveUnlink(p) \/ RemoveDir(p)
  <2>1. CASE RemoveUnlink(p)
    <3>1. proc'[q] = [proc[q] EXCEPT !.fd = @ /\ Head(proc[q].args) # Head(proc[p].args)]
      BY <2>1 DEF RemoveUnlink
    <3> QED BY <1>1, <3>1 DEF Proc
  <2>2. CASE RemoveDir(p) /\ Step(p, "rm.unlink")
    BY <1>1, <2>2 DEF Step
  <2>3. CASE RemoveDir(p) /\ ~Step(p, "rm.unlink")
    <3>1. proc'[q] = [proc[q] EXCEPT !.made = @ /\ Head(proc[q].args) # Head(proc[p].args)]
      BY <2>3 DEF RemoveDir
    <3> QED BY <1>1, <3>1 DEF Proc
  <2> QED BY <1>2, <2>1, <2>2, <2>3
<1>3. CASE Launch(p) \/ Interrupt(p) \/ Kill(p)
  BY <1>1, <1>3 DEF Launch, Interrupt, Kill
<1>4. CASE StoreStep(p) /\ ~RemoveUnlink(p) /\ ~RemoveDir(p)
  BY <1>1, <1>4 DEF StoreStep, CreateExists, CreateMkdir, CreateOpen, CreateWrite, RemoveStat,
                    ListReadDir, ListRead, LoadConfig, OpenConfig, WriteConfig, Step, Fail
<1>5. CASE \/ ForwardFlags(p) \/ NoConfigDir(p) \/ NewStoreFails(p)
           \/ DetermineCurrentContext(p) \/ ContextType(p) \/ PreRun(p) \/ NewClient(p)
           \/ BackendCall(p) \/ Succeed(p) \/ HandleError(p)
           \/ LookPath(p) \/ StartChild(p) \/ ChildExits(p) \/ ChildWritesConfig(p)
  BY <1>1, <1>5 DEF ForwardFlags, NoConfigDir, NewStoreFails, DetermineCurrentContext, ContextType, PreRun, NewClient, BackendCall, Succeed,
                    HandleError, LookPath, StartChild, ChildExits, ChildWritesConfig, Step, Fail, Finish
<1>6. CASE \/ CheckNewContext(p) \/ CreateContextData(p) \/ RunUse(p) \/ RunRemove(p)
           \/ RunShow(p) \/ RunUpdate(p) \/ Intercept(p) \/ Reply(p)
  BY <1>1, <1>6 DEF CheckNewContext, CreateContextData, RunUse, RunRemove, RunShow, RunUpdate,
                    Intercept, Reply, Step, Fail, Finish
<1>7. CASE ConfigureContext(p)
  <2>1. proc[p].op \in ServerOps
    BY <1>7 DEF ConfigureContext, CommandInv, Own, On, Config
  <2> QED BY <1>1, <1>7, <2>1 DEF ConfigureContext, ServerOps, Step, Fail, Finish
<1> QED BY <1>2, <1>3, <1>4, <1>5, <1>6, <1>7 DEF Run

(* What a process does whose next step is to write the configuration file. *)
LEMMA OnlyWrites ==
  ASSUME CommandInv, NEW p \in Process, Launch(p) \/ Run(p) \/ Interrupt(p) \/ Kill(p),
         proc[p].pc = "cfg.write"
  PROVE  WriteConfig(p) \/ Interrupt(p) \/ Kill(p)
BY DEF Launch, Run, ForwardFlags, NoConfigDir, NewStoreFails, DetermineCurrentContext, ContextType, PreRun, NewClient, BackendCall, Succeed,
       HandleError, LookPath, StartChild, ChildExits, ChildWritesConfig, CheckNewContext,
       CreateContextData, RunUse, RunRemove, RunShow, RunUpdate, Intercept, Reply, ConfigureContext,
       StoreStep, CreateExists, CreateMkdir, CreateOpen, CreateWrite, RemoveStat, RemoveUnlink,
       RemoveDir, ListReadDir, ListRead, LoadConfig, OpenConfig

(* Writing what was read, on a file that nobody else has written.          *)
LEMMA WrittenAsRead ==
  ASSUME CommandInv, NEW p \in Process, WriteConfig(p), ~touched[p]
  PROVE  /\ ~config'.torn /\ config'.keys = proc[p].seen.keys
         /\ config'.current = IF proc[p].op = "rm" \/ Head(proc[p].args) = "default"
                              THEN "" ELSE Head(proc[p].args)
<1>1. config = Torn /\ proc[p].cfg.keys = proc[p].seen.keys
  BY DEF CommandInv, WriteConfig, Fresh, KnowsKeys
<1>2. config.torn
  BY <1>1 DEF Torn
<1> DEFINE c == IF proc[p].op = "rm" \/ Head(proc[p].args) = "default" THEN "" ELSE Head(proc[p].args)
<1>3. config' = [torn |-> FALSE, keys |-> proc[p].cfg.keys, current |-> c]
  BY <1>2 DEF WriteConfig
<1> HIDE DEF c
<1>4. ~config'.torn /\ config'.keys = proc[p].cfg.keys /\ config'.current = c
  BY <1>3
<1> QED BY <1>1, <1>4 DEF c

(* A step of a process that is about to write, and goes on: it writes, or  *)
(* it is killed.                                                           *)
LEMMA WritesOrDies ==
  ASSUME CommandInv, NEW q \in Process, Launch(q) \/ Run(q) \/ Interrupt(q) \/ Kill(q),
         NEW p \in Process, proc[p].pc = "cfg.write", proc'[p].pc # "cfg.write"
  PROVE  \/ WriteConfig(p) /\ proc'[p].pc \in {"rm.stat", "success"}
         \/ proc'[p].pc = "killed" /\ UNCHANGED config
<1>1. q = p
  BY OthersStay
<1>2. proc \in [Process -> Proc] /\ proc[p] \in Proc
  BY DEF CommandInv, StoreType
<1>3. ~Interrupt(p)
  <2>1. Interrupt(p) => proc'[p] = [proc[p] EXCEPT !.canceled = TRUE]
    BY <1>2 DEF Interrupt
  <2>2. [proc[p] EXCEPT !.canceled = TRUE].pc = "cfg.write"
    BY <1>2 DEF Proc
  <2> QED BY <2>1, <2>2
<1>4. CASE Kill(p)
  <2>1. proc'[p] = [proc[p] EXCEPT !.pc = "killed", !.fd = FALSE]
    BY <1>2, <1>4 DEF Kill
  <2>2. [proc[p] EXCEPT !.pc = "killed", !.fd = FALSE].pc = "killed"
    BY <1>2 DEF Proc
  <2> QED BY <1>4, <2>1, <2>2 DEF Kill
<1>5. CASE WriteConfig(p)
  <2> DEFINE x == IF proc[p].op = "rm" THEN "rm.stat" ELSE "success"
  <2>1. proc'[p] = [proc[p] EXCEPT !.pc = x]
    BY <1>2, <1>5 DEF WriteConfig, Step
  <2>2. [proc[p] EXCEPT !.pc = x].pc = x
    BY <1>2 DEF Proc
  <2> QED BY <1>5, <2>1, <2>2
<1> QED BY <1>1, <1>3, <1>4, <1>5, OnlyWrites

(* What is written is whole, unless another write came between.            *)
LEMMA WrittenWhole ==
  ASSUME NEW p \in Process, WriteConfig(p)
  PROVE  config' = Torn \/ (~config'.torn /\ config'.keys = proc[p].cfg.keys)
<1> DEFINE c == IF proc[p].op = "rm" \/ Head(proc[p].args) = "default" THEN "" ELSE Head(proc[p].args)
<1>1. config' = Torn \/ config' = [torn |-> FALSE, keys |-> proc[p].cfg.keys, current |-> c]
  BY DEF WriteConfig
<1> HIDE DEF c
<1> QED BY <1>1

(* The configuration file is written as it was.                            *)
LEMMA WriteStepHolds ==
  ASSUME CommandInv, [Next]_vars
  PROVE  [WriteStep]_vars
<1> SUFFICES ASSUME NEW q \in Process, Launch(q) \/ Run(q) \/ Interrupt(q) \/ Kill(q),
                    NEW p \in Process, proc[p].pc = "cfg.write", proc'[p].pc # "cfg.write"
             PROVE  IF proc'[p].pc = "killed" THEN UNCHANGED config
                    ELSE IF touched[p] THEN config' = Torn \/ config'.keys = proc[p].cfg.keys
                    ELSE /\ ~config'.torn /\ config'.keys = proc[p].seen.keys
                         /\ proc[p].op # "SetCurrent" => CurrentReadable'
  BY DEF Next, WriteStep
<1>1. CASE proc'[p].pc = "killed"
  BY <1>1, WritesOrDies
<1>2. CASE proc'[p].pc # "killed" /\ touched[p]
  BY <1>2, WritesOrDies, WrittenWhole
<1>3. CASE proc'[p].pc # "killed" /\ ~touched[p]
  <2>1. WriteConfig(p)
    BY <1>3, WritesOrDies
  <2>2. PICK r \in Proc : r = proc[p] /\ Own(r) /\ Fresh(r)
    BY <1>3 DEF CommandInv, StoreType
  <2>3. ASSUME r.op # "SetCurrent" PROVE CurrentReadable'
    <3>1. r.op \in {"rm", "use"}
      BY <2>2, <2>3 DEF Own, On, Config
    <3>2. r.op = "use" => Get(Head(r.args)) # "error"
      BY <2>2 DEF Fresh, KnowsCurrent, Config
    <3>3. /\ ~config'.torn /\ meta' = meta
          /\ config'.current = "" \/ (r.op = "use" /\ config'.current = Head(r.args))
      BY <1>3, <2>1, <2>2, <3>1, WrittenAsRead DEF WriteConfig
    <3> QED BY <3>2, <3>3 DEF CurrentReadable, Get
  <2> QED BY <1>3, <2>1, <2>2, <2>3, WrittenAsRead
<1> QED BY <1>1, <1>2, <1>3

(* What mends the configuration file is a write of what was read.          *)
LEMMA MendedStepHolds ==
  ASSUME CommandInv, [Next]_vars
  PROVE  [MendedStep]_vars
<1> SUFFICES ASSUME NEW p \in Process, Launch(p) \/ Run(p) \/ Interrupt(p) \/ Kill(p),
                    config.torn, ~config'.torn
             PROVE  proc[p].pc = "cfg.write" /\ ~proc[p].cfg.torn /\ config'.keys = proc[p].cfg.keys
  BY DEF Next, MendedStep
<1>1. CASE WriteConfig(p)
  <2>3. Torn.torn
    BY DEF Torn
  <2>1. config' # Torn
    BY <2>3
  <2>2. proc[p].pc = "cfg.write" /\ ~proc[p].cfg.torn
    BY <1>1 DEF WriteConfig, CommandInv, Own, OwnArgs
  <2> QED BY <1>1, <2>1, <2>2, WrittenWhole
<1>2. CASE OpenConfig(p)
  BY <1>2 DEF OpenConfig, Torn
<1>3. CASE ChildWritesConfig(p)
  BY <1>3 DEF ChildWritesConfig
<1>4. CASE UNCHANGED config
  BY <1>4
<1> QED
  BY <1>1, <1>2, <1>3, <1>4
     DEF Launch, Interrupt, Kill, Run, ForwardFlags, NoConfigDir, NewStoreFails,
         DetermineCurrentContext, ContextType, PreRun, NewClient,
         BackendCall, Succeed, HandleError, LookPath, StartChild, ChildExits, CheckNewContext,
         CreateContextData, RunUse, RunRemove, RunShow, RunUpdate, Intercept, Reply,
         ConfigureContext, StoreStep, CreateExists, CreateMkdir, CreateOpen, CreateWrite,
         RemoveStat, RemoveUnlink, RemoveDir, ListReadDir, ListRead, LoadConfig

(* A step that leaves the files alone leaves the current context readable. *)
LEMMA ReadableStays ==
  ASSUME UNCHANGED <<meta, config>>, CurrentReadable
  PROVE  CurrentReadable'
BY DEF CurrentReadable, Get

(* The current context of the configuration file stays readable.           *)
LEMMA CurrentStepHolds ==
  ASSUME CommandInv, [Next]_vars
  PROVE  [CurrentStep]_vars
<1> SUFFICES ASSUME NEW p \in Process, Launch(p) \/ Run(p) \/ Interrupt(p) \/ Kill(p),
                    CurrentReadable,
                    ~(/\ proc'[p].pc # proc[p].pc
                      /\ \/ proc[p].pc = "cfg.open" \/ (proc[p].pc = "cfg.write" /\ touched[p])
                         \/ /\ proc[p].pc = "rm.unlink" /\ Head(proc[p].args) = config.current
                            /\ proc[p].cur # config.current \/ (proc[p].force /\ touched[p])
                         \/ /\ proc[p].pc \in {"create.open", "create.write"} /\ touched[p]
                            /\ Head(proc[p].args) = config.current)
             PROVE  CurrentReadable'
  BY DEF Next, CurrentStep
<1>1. CASE UNCHANGED <<meta, config>>
  BY <1>1, ReadableStays
<1>2. PICK r \in Proc : r = proc[p]
  BY DEF CommandInv, StoreType
<1>3. /\ meta \in [Name -> {"none", "bare", "torn"} \cup Type] /\ config \in Configs
      /\ proc \in [Process -> Proc] /\ Own(r) /\ (r.pc = "idle" \/ touched[p] \/ Fresh(r))
  BY <1>2 DEF CommandInv, StoreType
<1>4. ASSUME UNCHANGED config, NEW n \in Name, NEW m, meta' = [meta EXCEPT ![n] = m],
             m \in Type \/ meta[n] \notin Type \/ n # config.current
      PROVE  CurrentReadable'
  <2>1. n # "default" /\ n # ""
    BY NameAssumption
  <2>2. meta'[n] = m /\ \A k \in Name : k # n => meta'[k] = meta[k]
    BY <1>3, <1>4
  <2>3. CASE config.current = n
    BY <1>4, <2>1, <2>2, <2>3 DEF CurrentReadable, Get, Type
  <2>4. CASE config.current # n
    BY <1>4, <2>2, <2>4 DEF CurrentReadable, Get
  <2> QED BY <2>3, <2>4
<1>5. CASE \/ CreateMkdir(p) \/ CreateOpen(p) \/ CreateWrite(p)
           \/ RemoveUnlink(p) \/ (RemoveDir(p) /\ ~UNCHANGED meta)
  <2>1. /\ UNCHANGED config /\ r.args \in Seq(Arg) /\ r.type \in Type
        /\ r.pc \in {"create.mkdir", "create.open", "create.write", "rm.unlink", "rm.rmdir"}
    BY <1>2, <1>5 DEF CreateMkdir, CreateOpen, CreateWrite, RemoveUnlink, RemoveDir, Proc
  <2>2. /\ r.args # <<>> /\ Head(r.args) # "default"
        /\ r.op = IF r.pc \in {"rm.unlink", "rm.rmdir"} THEN "rm" ELSE "create"
    BY <1>3, <2>1 DEF Own, On, OwnArgs, Apart, Config
  <2>3. PICK n \in Name : n = Head(r.args)
    BY <2>1, <2>2, ArgFacts DEF Arg
  <2>4. ASSUME NEW x, x # r.pc, NEW f \in BOOLEAN, proc'[p] = [r EXCEPT !.pc = x, !.fd = f]
        PROVE  proc'[p].pc # proc[p].pc
    BY <1>2, <2>4 DEF Proc
  <2>5. CASE CreateMkdir(p)
    BY <1>1, <1>2, <1>4, <2>1, <2>3, <2>5 DEF CreateMkdir, Type
  <2>6. CASE CreateOpen(p)
    <3>1. touched[p] \/ meta[n] = "bare"
      BY <1>2, <1>3, <2>3, <2>6 DEF CreateOpen, Fresh, KnowsOwn
    <3>2. CASE meta[n] # "none"
      <4>1. proc'[p] = [r EXCEPT !.pc = "create.write", !.fd = TRUE] /\ r.pc = "create.open"
        BY <1>2, <1>3, <2>3, <2>6, <3>2 DEF CreateOpen
      <4>2. meta[n] = "bare" \/ n # config.current
        BY <1>2, <2>3, <2>4, <3>1, <4>1
      <4>3. PICK m : m = "torn" /\ meta' = [meta EXCEPT ![n] = m]
        BY <1>2, <2>3, <2>6, <3>2 DEF CreateOpen
      <4>4. meta[n] \notin Type \/ n # config.current
        BY <4>2 DEF Type
      <4> QED BY <1>4, <2>1, <4>3, <4>4
    <3>3. CASE meta[n] = "none"
      BY <1>1, <1>2, <2>3, <2>6, <3>3 DEF CreateOpen
    <3> QED BY <3>2, <3>3
  <2>7. CASE CreateWrite(p)
    <3>1. touched[p] \/ meta[n] = "torn"
      BY <1>2, <1>3, <2>3, <2>7 DEF CreateWrite, Fresh, KnowsOwn
    <3>2. proc'[p] = [r EXCEPT !.pc = "success", !.fd = FALSE] /\ r.pc = "create.write"
      BY <1>2, <1>3, <2>7 DEF CreateWrite
    <3>3. meta[n] = "torn" \/ n # config.current
      BY <1>2, <2>3, <2>4, <3>1, <3>2
    <3>4. UNCHANGED meta \/ \E m : meta' = [meta EXCEPT ![n] = m]
      BY <1>2, <2>3, <2>7 DEF CreateWrite
    <3> QED BY <1>1, <1>4, <2>1, <3>3, <3>4 DEF Type
  <2>8. CASE RemoveUnlink(p)
    <3>3. proc'[p] = [r EXCEPT !.pc = "rm.rmdir"] /\ r.pc = "rm.unlink"
      BY <1>2, <1>3, <2>8 DEF RemoveUnlink
    <3>4. proc'[p].pc # proc[p].pc
      BY <1>2, <3>3 DEF Proc
    <3>1. n # config.current
      <4> SUFFICES ASSUME n = config.current PROVE FALSE
        OBVIOUS
      <4>1. r.cur = n /\ ~(r.force /\ touched[p])
        BY <1>2, <2>3, <3>3, <3>4
      <4>2. r.force
        BY <1>3, <2>3, <3>3, <4>1 DEF Own, OwnArgs
      <4>3. Fresh(r)
        BY <1>3, <3>3, <4>1, <4>2
      <4> QED BY <2>2, <2>3, <3>3, <4>1, <4>3 DEF Fresh, KnowsCurrent
    <3>2. PICK m : meta' = [meta EXCEPT ![n] = m]
      BY <1>2, <2>3, <2>8 DEF RemoveUnlink
    <3> QED BY <1>4, <2>1, <3>1, <3>2
  <2>9. CASE RemoveDir(p) /\ ~UNCHANGED meta
    <3>1. meta[n] \in {"none", "bare"} /\ meta' = [meta EXCEPT ![n] = "none"]
      BY <1>2, <2>3, <2>9 DEF RemoveDir
    <3> QED BY <1>4, <2>1, <3>1 DEF Type
  <2> QED BY <1>5, <2>5, <2>6, <2>7, <2>8, <2>9
<1>6. CASE ChildWritesConfig(p)
  <2>1. ~config.torn /\ config' = [config EXCEPT !.keys = OtherKeys] /\ meta' = meta
    BY <1>6 DEF ChildWritesConfig
  <2>2. config'.current = config.current
    <3>1. config # Torn
      <4>1. Torn.torn
        BY DEF Torn
      <4> QED BY <2>1, <4>1
    <3>2. config \in [torn : {FALSE}, current : Name \cup {""}, keys : SUBSET OtherKeys]
      BY <1>3, <3>1 DEF Configs
    <3> QED BY <2>1, <3>2
  <2>3. config'.torn = config.torn
    BY <1>3, <2>1 DEF Configs, Torn
  <2> QED BY <2>1, <2>2, <2>3 DEF CurrentReadable, Get
<1>7. CASE OpenConfig(p)
  <2>1. proc'[p] = [r EXCEPT !.pc = "cfg.write"] /\ r.pc = "cfg.open"
    BY <1>2, <1>3, <1>7 DEF OpenConfig, Step
  <2>2. proc'[p].pc # proc[p].pc
    BY <1>2, <2>1 DEF Proc
  <2> QED BY <1>2, <2>1, <2>2
<1>8. CASE WriteConfig(p)
  <2> DEFINE x == IF r.op = "rm" THEN "rm.stat" ELSE "success"
  <2>1. /\ r.pc = "cfg.write" /\ proc'[p] = [r EXCEPT !.pc = x]
    BY <1>2, <1>3, <1>8 DEF WriteConfig, Step
  <2>2. proc'[p].pc # proc[p].pc
    BY <1>2, <2>1 DEF Proc
  <2>3. Fresh(r)
    BY <1>2, <1>3, <2>1, <2>2
  <2>5. Torn.torn
    BY DEF Torn
  <2>4. config.torn
    BY <2>1, <2>3, <2>5 DEF Fresh, KnowsKeys
  <2> QED BY <2>4 DEF CurrentReadable
<1> QED
  BY <1>1, <1>5, <1>6, <1>7, <1>8
     DEF Launch, Interrupt, Kill, Run, ForwardFlags, NoConfigDir, NewStoreFails,
         DetermineCurrentContext, ContextType, PreRun, NewClient,
         BackendCall, Succeed, HandleError, LookPath, StartChild, ChildExits, CheckNewContext,
         CreateContextData, RunUse, RunRemove, RunShow, RunUpdate, Intercept, Reply,
         ConfigureContext, StoreStep, CreateExists, RemoveStat, RemoveDir, ListReadDir, ListRead,
         LoadConfig

(* What is stored stays: no command takes away the context that was in use *)
(* when it looked, unless it is forced, and none loses the rest of the     *)
(* configuration file, unless it is killed between truncating and writing  *)
(* it or another process comes between; a file damaged so is not           *)
(* overwritten by a command that could not read it (rm.go, runRemove;      *)
(* use.go, runUse; config.go, WriteCurrentContext, loadFile, writeFile).   *)
THEOREM CommandsKeepStored == Spec => StoredIsKept
<1>1. CommandInv /\ [Next]_vars => [CurrentStep]_vars /\ [WriteStep /\ MendedStep]_vars
  BY CurrentStepHolds, WriteStepHolds, MendedStepHolds
<1> QED BY <1>1, CommandInvariance, PTL DEF Spec, StoredIsKept, CurrentStaysReadable, KeysKept

-----------------------------------------------------------------------------
(***************************************************************************)
(* Pull, push and the images of create and up, with the progress writer:   *)
(* first the loops of print, by an induction over sets of numbers; then    *)
(* what the writer keeps of its events; then the command, its goroutines   *)
(* and their invariant.                                                    *)
(***************************************************************************)

(* Turns over numbers, as loops are: G is what a turn makes of what there is. *)
IsStep(G, X, N) == G \in [X \X (1 .. N) -> X]
IsLoop(f, z, G, X, N) == f \in [0 .. N -> X] /\ f[0] = z /\ \A n \in 1 .. N : f[n] = G[<<f[n - 1], n>>]

(* A set of numbers that has 0 and with each the next is that of all numbers. *)
LEMMA NatSetInduction ==
  ASSUME NEW T, T \subseteq Nat, 0 \in T, \A n \in T : n + 1 \in T
  PROVE  T = Nat
<1> SUFFICES ASSUME Nat \ T # {} PROVE FALSE
  OBVIOUS
<1>1. PICK x \in Nat \ T : \A y \in Nat \ T : ~(<<y, x>> \in OpToRel(<, Nat))
  <2>1. Nat \ T \subseteq Nat
    OBVIOUS
  <2> QED BY <2>1, NatLessThanWellFounded, WFMin
<1>2. x # 0 /\ x - 1 \in Nat /\ (x - 1) + 1 = x
  <2>1. x \in Nat /\ x # 0
    OBVIOUS
  <2> QED BY <2>1
<1>3. x - 1 \in T
  <2>1. SUFFICES ASSUME x - 1 \in Nat \ T PROVE FALSE
    BY <1>2
  <2>2. x - 1 < x /\ x \in Nat /\ x - 1 \in Nat
    BY <1>2
  <2>3. <<x - 1, x>> \in OpToRel(<, Nat)
    BY <2>2 DEF OpToRel
  <2> QED BY <1>1, <2>1, <2>3
<1> QED BY <1>1, <1>2, <1>3

(* A recursion over numbers defines something. *)
LEMMA LoopDefined ==
  ASSUME NEW X, NEW z \in X, NEW N \in Nat, NEW G, IsStep(G, X, N)
  PROVE  \E f : IsLoop(f, z, G, X, N)
<1>0. G \in [X \X (1 .. N) -> X]
  BY DEF IsStep
<1> DEFINE Is(f, m) == f \in [0 .. m -> X] /\ f[0] = z /\ \A n \in 1 .. m : f[n] = G[<<f[n - 1], n>>]
<1> DEFINE T == {m \in Nat : m <= N => \E f : Is(f, m)}
<1>1. 0 \in T
  <2>1. Is([n \in 0 .. 0 |-> z], 0)
    OBVIOUS
  <2> QED BY <2>1
<1>2. \A m \in T : m + 1 \in T
  <2>0. \A m \in Nat : (m + 1 <= N => \E f : Is(f, m + 1)) => m + 1 \in T
    <3> HIDE DEF Is
    <3> QED OBVIOUS
  <2>1. SUFFICES ASSUME NEW m \in T, m + 1 <= N PROVE \E f : Is(f, m + 1)
    <3> HIDE DEF Is
    <3> QED BY <2>0
  <2>2. m \in Nat /\ m <= N
    BY <2>1
  <2>3. PICK f : Is(f, m)
    <3> HIDE DEF Is
    <3> QED BY <2>1, <2>2
  <2>4. f[m] \in X /\ m + 1 \in 1 .. N
    BY <2>1, <2>2, <2>3
  <2>5. PICK y : y = G[<<f[m], m + 1>>] /\ y \in X
    BY <1>0, <2>4
  <2> DEFINE g == [n \in 0 .. m + 1 |-> IF n = m + 1 THEN y ELSE f[n]]
  <2>6. g \in [0 .. m + 1 -> X] /\ g[0] = z
    BY <2>2, <2>3, <2>5
  <2>7. ASSUME NEW n \in 1 .. m + 1 PROVE g[n] = G[<<g[n - 1], n>>]
    <3>1. n - 1 \in 0 .. m /\ n - 1 # m + 1 /\ g[n - 1] = f[n - 1]
      BY <2>2
    <3>2. CASE n = m + 1
      <4>1. n - 1 = m /\ g[n] = y
        BY <2>2, <3>2
      <4> QED BY <2>5, <3>1, <3>2, <4>1
    <3>3. CASE n # m + 1
      <4>1. n \in 1 .. m /\ g[n] = f[n]
        BY <2>2, <3>3
      <4> QED BY <2>3, <3>1, <4>1
    <3> QED BY <3>2, <3>3
  <2> HIDE DEF g
  <2>8. Is(g, m + 1)
    BY <2>6, <2>7
  <2> QED BY <2>8
<1>3. T = Nat
  <2> HIDE DEF T
  <2>1. T \subseteq Nat
    BY DEF T
  <2> QED BY <1>1, <1>2, <2>1, NatSetInduction
<1>4. PICK f : Is(f, N)
  <2> HIDE DEF Is
  <2>1. N \in T
    <3> HIDE DEF T
    <3> QED BY <1>3
  <2> QED BY <2>1
<1> QED BY <1>4 DEF IsLoop

(* A loop goes one way: what makes the same turns has the same values. *)
LEMMA LoopsAgree ==
  ASSUME NEW X, NEW z \in X, NEW N \in Nat, NEW G, NEW f, NEW g, IsLoop(f, z, G, X, N),
         g[0] = z, \A n \in 1 .. N : g[n - 1] \in X => g[n] = G[<<g[n - 1], n>>]
  PROVE  \A n \in 0 .. N : g[n] = f[n]
<1>0. f \in [0 .. N -> X] /\ f[0] = z /\ \A n \in 1 .. N : f[n] = G[<<f[n - 1], n>>]
  BY DEF IsLoop
<1> DEFINE T == {m \in Nat : m <= N => g[m] = f[m]}
<1>1. 0 \in T
  BY <1>0
<1>2. ASSUME NEW m \in T PROVE m + 1 \in T
  <2>1. SUFFICES ASSUME m + 1 <= N PROVE g[m + 1] = f[m + 1]
    OBVIOUS
  <2>2. m \in Nat /\ m \in 0 .. N /\ m + 1 \in 1 .. N /\ (m + 1) - 1 = m /\ g[m] = f[m]
    BY <2>1
  <2>3. f[m] \in X
    BY <1>0, <2>2
  <2>4. g[m + 1] = G[<<g[m], m + 1>>]
    BY <2>2, <2>3
  <2>5. f[m + 1] = G[<<f[m], m + 1>>]
    BY <1>0, <2>2
  <2> QED BY <2>2, <2>4, <2>5
<1>3. T = Nat
  <2> HIDE DEF T
  <2>1. T \subseteq Nat
    BY DEF T
  <2> QED BY <1>1, <1>2, <2>1, NatSetInduction
<1> QED BY <1>3

(* What a loop holds stays in the set that its turns keep to. *)
LEMMA LoopKeepsTo ==
  ASSUME NEW X, NEW z \in X, NEW N \in Nat, NEW G, IsStep(G, X, N), NEW f,
         f[0] = z, \A n \in 1 .. N : f[n - 1] \in X => f[n] = G[<<f[n - 1], n>>]
  PROVE  \A n \in 0 .. N : f[n] \in X
<1>1. PICK g : IsLoop(g, z, G, X, N)
  BY LoopDefined
<1>2. \A n \in 0 .. N : f[n] = g[n]
  BY <1>1, LoopsAgree
<1>3. \A n \in 0 .. N : g[n] \in X
  BY <1>1 DEF IsLoop
<1> QED BY <1>2, <1>3

(* What a turn adds to a sequence that only grows is there at the end. *)
LEMMA LoopCovers ==
  ASSUME NEW N \in Nat, NEW f, NEW C,
         \A n \in 1 .. N : Range(f[n - 1]) \subseteq Range(f[n]) /\ C[n] \subseteq Range(f[n])
  PROVE  \A n \in 1 .. N : C[n] \subseteq Range(f[N])
<1> DEFINE T == {m \in Nat : m <= N => \A n \in 1 .. m : C[n] \subseteq Range(f[m])}
<1>1. 0 \in T
  OBVIOUS
<1>2. ASSUME NEW m \in T PROVE m + 1 \in T
  <2>1. SUFFICES ASSUME m + 1 <= N, NEW n \in 1 .. m + 1 PROVE C[n] \subseteq Range(f[m + 1])
    OBVIOUS
  <2>2. m \in Nat /\ m + 1 \in 1 .. N /\ (m + 1) - 1 = m /\ \A k \in 1 .. m : C[k] \subseteq Range(f[m])
    BY <2>1
  <2>3. Range(f[m]) \subseteq Range(f[m + 1]) /\ C[m + 1] \subseteq Range(f[m + 1])
    BY <2>2
  <2>4. n = m + 1 \/ n \in 1 .. m
    BY <2>1, <2>2
  <2> QED BY <2>2, <2>3, <2>4
<1>3. T = Nat
  <2> HIDE DEF T
  <2>1. T \subseteq Nat
    BY DEF T
  <2> QED BY <1>1, <1>2, <2>1, NatSetInduction
<1> QED BY <1>3

(* The events are known by their ids. *)
KnownEvents == eventIDs \in Seq(DOMAIN events) /\ Range(eventIDs) = DOMAIN events

(* The loops of print, as functions of the turns made. *)
BelowOf(p) == CHOOSE f : f = [n \in 0 .. Len(eventIDs) |->
    IF n = 0 THEN <<>> ELSE IF events[eventIDs[n]].parent = p THEN Append(f[n - 1], eventIDs[n]) ELSE f[n - 1]]

(* One id more, at the end. *)
LEMMA AppendRange ==
  ASSUME NEW S, NEW s \in Seq(S), NEW e \in S
  PROVE  Append(s, e) \in Seq(S) /\ Range(s) \subseteq Range(Append(s, e)) /\ e \in Range(Append(s, e))
<1>1. /\ Append(s, e) \in Seq(S) /\ Len(Append(s, e)) = Len(s) + 1 /\ Append(s, e)[Len(s) + 1] = e
      /\ \A i \in 1 .. Len(s) : Append(s, e)[i] = s[i]
  BY AppendProperties
<1>2. Len(s) \in Nat /\ DOMAIN s = 1 .. Len(s) /\ DOMAIN Append(s, e) = 1 .. Len(s) + 1
  BY <1>1
<1> QED BY <1>1, <1>2 DEF Range

(* What is drawn below an event are the events that name it as their parent. *)
LEMMA BelowAll ==
  ASSUME KnownEvents, NEW p
  PROVE  Below(p) \in Seq(DOMAIN events) /\ Range(Below(p)) = {id \in DOMAIN events : events[id].parent = p}
<1> DEFINE N == Len(eventIDs)
           D == {id \in DOMAIN events : events[id].parent = p}
           X == Seq(D)
           G == [q \in X \X (1 .. N) |-> IF events[eventIDs[q[2]]].parent = p THEN Append(q[1], eventIDs[q[2]]) ELSE q[1]]
           f == BelowOf(p)
<1>1. N \in Nat /\ DOMAIN eventIDs = 1 .. N /\ \A n \in 1 .. N : eventIDs[n] \in DOMAIN events
  BY DEF KnownEvents
<1>2. <<>> \in X
  OBVIOUS
<1>3. ASSUME NEW s \in X, NEW n \in 1 .. N, events[eventIDs[n]].parent = p PROVE Append(s, eventIDs[n]) \in X
  <2>1. eventIDs[n] \in D
    BY <1>1, <1>3
  <2> HIDE DEF D
  <2> QED BY <1>3, <2>1, AppendProperties
<1> HIDE DEF X, N
<1>4. IsStep(G, X, N)
  <2>1. ASSUME NEW q \in X \X (1 .. N)
        PROVE  (IF events[eventIDs[q[2]]].parent = p THEN Append(q[1], eventIDs[q[2]]) ELSE q[1]) \in X
    BY <1>3, <2>1
  <2> QED BY <2>1 DEF IsStep
<1>5. PICK g : IsLoop(g, <<>>, G, X, N)
  <2> HIDE DEF G
  <2> QED BY <1>1, <1>2, <1>4, LoopDefined
<1>6. g = [n \in 0 .. N |-> IF n = 0 THEN <<>> ELSE IF events[eventIDs[n]].parent = p THEN Append(g[n - 1], eventIDs[n]) ELSE g[n - 1]]
  <2>1. g \in [0 .. N -> X] /\ g[0] = <<>> /\ \A n \in 1 .. N : g[n] = G[<<g[n - 1], n>>]
    BY <1>5 DEF IsLoop
  <2>2. ASSUME NEW n \in 0 .. N, n # 0
        PROVE  g[n] = IF events[eventIDs[n]].parent = p THEN Append(g[n - 1], eventIDs[n]) ELSE g[n - 1]
    <3>1. n \in 1 .. N /\ n - 1 \in 0 .. N
      BY <1>1, <2>2
    <3>2. g[n - 1] \in X
      BY <2>1, <3>1
    <3> QED BY <2>1, <3>1, <3>2
  <2> QED BY <2>1, <2>2
<1>7. f = [n \in 0 .. N |-> IF n = 0 THEN <<>> ELSE IF events[eventIDs[n]].parent = p THEN Append(f[n - 1], eventIDs[n]) ELSE f[n - 1]]
  BY <1>6 DEF BelowOf, N
<1>8. Below(p) = f[N]
  BY DEF Below, BelowOf, N
<1> HIDE DEF f
<1>9. f[0] = <<>> /\ \A n \in 1 .. N : f[n] = IF events[eventIDs[n]].parent = p THEN Append(f[n - 1], eventIDs[n]) ELSE f[n - 1]
  <2>1. 0 \in 0 .. N /\ \A n \in 1 .. N : n \in 0 .. N /\ n # 0
    BY <1>1
  <2> QED BY <1>7, <2>1
<1>10. \A n \in 0 .. N : f[n] \in X
  <2>1. ASSUME NEW n \in 1 .. N, f[n - 1] \in X PROVE f[n] = G[<<f[n - 1], n>>]
    BY <1>9, <2>1
  <2> HIDE DEF G
  <2> QED BY <1>1, <1>2, <1>4, <1>9, <2>1, LoopKeepsTo
<1> DEFINE C == [n \in 1 .. N |-> IF events[eventIDs[n]].parent = p THEN {eventIDs[n]} ELSE {}]
<1>11. ASSUME NEW n \in 1 .. N PROVE Range(f[n - 1]) \subseteq Range(f[n]) /\ C[n] \subseteq Range(f[n])
  <2>1. n - 1 \in 0 .. N /\ f[n - 1] \in Seq(D)
    BY <1>1, <1>10 DEF X
  <2>2. CASE events[eventIDs[n]].parent = p
    <3>1. eventIDs[n] \in D /\ f[n] = Append(f[n - 1], eventIDs[n])
      BY <1>1, <1>9, <2>2
    <3> HIDE DEF D
    <3>2. Range(f[n - 1]) \subseteq Range(f[n]) /\ eventIDs[n] \in Range(f[n])
      BY <2>1, <3>1, AppendRange
    <3> QED BY <3>2
  <2>3. CASE events[eventIDs[n]].parent # p
    BY <1>9, <2>3
  <2> QED BY <2>2, <2>3
<1>12. \A n \in 1 .. N : C[n] \subseteq Range(f[N])
  <2> HIDE DEF C
  <2> QED BY <1>1, <1>11, LoopCovers
<1>13. f[N] \in Seq(D)
  BY <1>1, <1>10 DEF X
<1>14. D \subseteq Range(f[N])
  <2>1. ASSUME NEW id \in D PROVE id \in Range(f[N])
    <3>1. PICK n \in 1 .. N : eventIDs[n] = id
      BY <1>1 DEF KnownEvents, Range
    <3> QED BY <1>12, <3>1
  <2> QED BY <2>1
<1>15. Range(f[N]) \subseteq D /\ f[N] \in Seq(DOMAIN events)
  <2>1. D \subseteq DOMAIN events
    OBVIOUS
  <2> HIDE DEF D
  <2> QED BY <1>13, <2>1 DEF Range
<1> QED BY <1>8, <1>14, <1>15

LinesUpTo == CHOOSE f : f = [n \in 0 .. Len(eventIDs) |->
    IF n = 0 THEN <<>>
    ELSE IF events[eventIDs[n]].parent = NoParent THEN f[n - 1] \o (<<eventIDs[n]>> \o Below(eventIDs[n])) ELSE f[n - 1]]

(* What a sequence joined from two holds. *)
LEMMA JoinRange ==
  ASSUME NEW S, NEW s \in Seq(S), NEW t \in Seq(S)
  PROVE  s \o t \in Seq(S) /\ Range(s) \subseteq Range(s \o t) /\ Range(t) \subseteq Range(s \o t)
<1>1. /\ s \o t \in Seq(S) /\ Len(s \o t) = Len(s) + Len(t)
      /\ \A i \in 1 .. Len(s) + Len(t) : (s \o t)[i] = IF i <= Len(s) THEN s[i] ELSE t[i - Len(s)]
  BY ConcatProperties
<1>2. Len(s) \in Nat /\ Len(t) \in Nat /\ DOMAIN s = 1 .. Len(s) /\ DOMAIN t = 1 .. Len(t) /\ DOMAIN (s \o t) = 1 .. Len(s) + Len(t)
  BY <1>1
<1>3. \A i \in 1 .. Len(s) : i \in 1 .. Len(s) + Len(t) /\ (s \o t)[i] = s[i]
  BY <1>1, <1>2
<1>4. \A i \in 1 .. Len(t) : Len(s) + i \in 1 .. Len(s) + Len(t) /\ (s \o t)[Len(s) + i] = t[i]
  <2> SUFFICES ASSUME NEW i \in 1 .. Len(t) PROVE Len(s) + i \in 1 .. Len(s) + Len(t) /\ (s \o t)[Len(s) + i] = t[i]
    OBVIOUS
  <2>1. Len(s) + i \in 1 .. Len(s) + Len(t) /\ ~(Len(s) + i <= Len(s)) /\ (Len(s) + i) - Len(s) = i
    BY <1>2
  <2> QED BY <1>1, <2>1
<1>5. Range(s) \subseteq Range(s \o t)
  <2>1. ASSUME NEW i \in 1 .. Len(s) PROVE s[i] \in Range(s \o t)
    <3>1. i \in DOMAIN (s \o t) /\ (s \o t)[i] = s[i]
      BY <1>2, <1>3
    <3> QED BY <3>1 DEF Range
  <2> QED BY <1>2, <2>1 DEF Range
<1>6. Range(t) \subseteq Range(s \o t)
  <2>1. ASSUME NEW i \in 1 .. Len(t) PROVE t[i] \in Range(s \o t)
    <3>1. Len(s) + i \in DOMAIN (s \o t) /\ (s \o t)[Len(s) + i] = t[i]
      BY <1>2, <1>4
    <3> QED BY <3>1 DEF Range
  <2> QED BY <1>2, <2>1 DEF Range
<1> QED BY <1>1, <1>5, <1>6

(* Every event is drawn if it has no parent, or one that is drawn without a parent. *)
LEMMA LinesAll ==
  ASSUME KnownEvents,
         \A id \in DOMAIN events : events[id].parent = NoParent
             \/ (events[id].parent \in DOMAIN events /\ events[events[id].parent].parent = NoParent)
  PROVE  Lines \in Seq(DOMAIN events) /\ Range(Lines) = DOMAIN events
<1> DEFINE N == Len(eventIDs)
           X == Seq(DOMAIN events)
           Piece(n) == <<eventIDs[n]>> \o Below(eventIDs[n])
           G == [q \in X \X (1 .. N) |-> IF events[eventIDs[q[2]]].parent = NoParent THEN q[1] \o Piece(q[2]) ELSE q[1]]
           f == LinesUpTo
<1>1. N \in Nat /\ DOMAIN eventIDs = 1 .. N /\ \A n \in 1 .. N : eventIDs[n] \in DOMAIN events
  BY DEF KnownEvents
<1>2. <<>> \in X
  OBVIOUS
<1>3. ASSUME NEW n \in 1 .. N
      PROVE  Piece(n) \in X /\ eventIDs[n] \in Range(Piece(n)) /\ {id \in DOMAIN events : events[id].parent = eventIDs[n]} \subseteq Range(Piece(n))
  <2>1. Below(eventIDs[n]) \in Seq(DOMAIN events) /\ Range(Below(eventIDs[n])) = {id \in DOMAIN events : events[id].parent = eventIDs[n]}
    BY BelowAll
  <2>2. <<eventIDs[n]>> \in Seq(DOMAIN events) /\ eventIDs[n] \in Range(<<eventIDs[n]>>)
    BY <1>1 DEF Range
  <2> QED BY <2>1, <2>2, JoinRange
<1> HIDE DEF Piece, N
<1>4. IsStep(G, X, N)
  <2>1. ASSUME NEW q \in X \X (1 .. N)
        PROVE  (IF events[eventIDs[q[2]]].parent = NoParent THEN q[1] \o Piece(q[2]) ELSE q[1]) \in X
    <3>1. q[1] \in X /\ Piece(q[2]) \in X
      BY <1>3, <2>1
    <3>2. q[1] \o Piece(q[2]) \in X
      BY <3>1, ConcatProperties
    <3> QED BY <3>1, <3>2
  <2> HIDE DEF X
  <2> QED BY <2>1 DEF IsStep
<1>5. PICK g : IsLoop(g, <<>>, G, X, N)
  <2> HIDE DEF G, X
  <2> QED BY <1>1, <1>2, <1>4, LoopDefined
<1> HIDE DEF X
<1>6. g = [n \in 0 .. N |-> IF n = 0 THEN <<>> ELSE IF events[eventIDs[n]].parent = NoParent THEN g[n - 1] \o Piece(n) ELSE g[n - 1]]
  <2>1. g \in [0 .. N -> X] /\ g[0] = <<>> /\ \A n \in 1 .. N : g[n] = G[<<g[n - 1], n>>]
    BY <1>5 DEF IsLoop
  <2>2. ASSUME NEW n \in 0 .. N, n # 0
        PROVE  g[n] = IF events[eventIDs[n]].parent = NoParent THEN g[n - 1] \o Piece(n) ELSE g[n - 1]
    <3>1. n \in 1 .. N /\ n - 1 \in 0 .. N
      BY <1>1, <2>2
    <3>2. g[n - 1] \in X
      BY <2>1, <3>1
    <3> QED BY <2>1, <3>1, <3>2
  <2> QED BY <2>1, <2>2
<1>7. f = [n \in 0 .. N |-> IF n = 0 THEN <<>> ELSE IF events[eventIDs[n]].parent = NoParent THEN f[n - 1] \o Piece(n) ELSE f[n - 1]]
  BY <1>6 DEF LinesUpTo, N, Piece
<1>8. Lines = f[N]
  BY DEF Lines, LinesUpTo, N
<1> HIDE DEF f
<1>9. f[0] = <<>> /\ \A n \in 1 .. N : f[n] = IF events[eventIDs[n]].parent = NoParent THEN f[n - 1] \o Piece(n) ELSE f[n - 1]
  <2>1. 0 \in 0 .. N /\ \A n \in 1 .. N : n \in 0 .. N /\ n # 0
    BY <1>1
  <2> QED BY <1>7, <2>1
<1>10. \A n \in 0 .. N : f[n] \in X
  <2>1. ASSUME NEW n \in 1 .. N, f[n - 1] \in X PROVE f[n] = G[<<f[n - 1], n>>]
    BY <1>9, <2>1
  <2> HIDE DEF G
  <2> QED BY <1>1, <1>2, <1>4, <1>9, <2>1, LoopKeepsTo
<1> DEFINE C == [n \in 1 .. N |-> IF events[eventIDs[n]].parent = NoParent THEN Range(Piece(n)) ELSE {}]
<1>11. ASSUME NEW n \in 1 .. N PROVE Range(f[n - 1]) \subseteq Range(f[n]) /\ C[n] \subseteq Range(f[n])
  <2>1. n - 1 \in 0 .. N /\ f[n - 1] \in Seq(DOMAIN events) /\ Piece(n) \in Seq(DOMAIN events)
    BY <1>1, <1>3, <1>10 DEF X
  <2>2. CASE events[eventIDs[n]].parent = NoParent
    <3>1. f[n] = f[n - 1] \o Piece(n)
      BY <1>9, <2>2
    <3>2. Range(f[n - 1]) \subseteq Range(f[n]) /\ Range(Piece(n)) \subseteq Range(f[n])
      BY <2>1, <3>1, JoinRange
    <3> QED BY <3>2
  <2>3. CASE events[eventIDs[n]].parent # NoParent
    BY <1>9, <2>3
  <2> QED BY <2>2, <2>3
<1>12. \A n \in 1 .. N : C[n] \subseteq Range(f[N])
  <2> HIDE DEF C
  <2> QED BY <1>1, <1>11, LoopCovers
<1>13. f[N] \in Seq(DOMAIN events)
  BY <1>1, <1>10 DEF X
<1>14. \A id \in DOMAIN events : events[id].parent = NoParent => id \in Range(f[N]) /\ \A k \in DOMAIN events : events[k].parent = id => k \in Range(f[N])
  <2> SUFFICES ASSUME NEW id \in DOMAIN events, events[id].parent = NoParent
               PROVE  id \in Range(f[N]) /\ \A k \in DOMAIN events : events[k].parent = id => k \in Range(f[N])
    OBVIOUS
  <2>1. PICK n \in 1 .. N : eventIDs[n] = id
    BY <1>1 DEF KnownEvents, Range
  <2>2. Range(Piece(n)) \subseteq Range(f[N])
    BY <1>12, <2>1
  <2> QED BY <1>3, <2>1, <2>2
<1>15. DOMAIN events \subseteq Range(f[N])
  BY <1>14
<1>16. Range(f[N]) \subseteq DOMAIN events
  BY <1>13 DEF Range
<1> QED BY <1>8, <1>13, <1>15, <1>16

(* Lines of one row each are as many rows as lines. *)
LEMMA OneRowEach ==
  ASSUME NEW S, NEW ids \in Seq(S), \A id \in Range(ids) : Rows(id) = 1
  PROVE  Sum(ids) = Len(ids)
<1> DEFINE N == Len(ids)
           X == Nat
           G == [q \in X \X (1 .. N) |-> q[1] + Rows(ids[q[2]])]
           g == [n \in 0 .. N |-> n]
           f == CHOOSE h : h = [n \in 0 .. N |-> IF n = 0 THEN 0 ELSE h[n - 1] + Rows(ids[n])]
<1>1. N \in Nat /\ \A n \in 1 .. N : Rows(ids[n]) = 1
  BY DEF Range
<1>2. IsLoop(g, 0, G, X, N)
  <2>1. ASSUME NEW n \in 1 .. N PROVE g[n] = G[<<g[n - 1], n>>]
    <3>1. n - 1 \in 0 .. N /\ g[n - 1] = n - 1 /\ n - 1 \in X
      BY <1>1
    <3>2. G[<<n - 1, n>>] = (n - 1) + Rows(ids[n])
      BY <3>1
    <3> QED BY <1>1, <3>1, <3>2
  <2> QED BY <1>1, <2>1 DEF IsLoop
<1>3. g = [n \in 0 .. N |-> IF n = 0 THEN 0 ELSE g[n - 1] + Rows(ids[n])]
  <2>1. ASSUME NEW n \in 0 .. N, n # 0 PROVE n = g[n - 1] + Rows(ids[n])
    <3>1. n \in 1 .. N /\ n - 1 \in 0 .. N
      BY <1>1, <2>1
    <3>2. g[n - 1] = n - 1 /\ Rows(ids[n]) = 1
      BY <1>1, <3>1
    <3> QED BY <3>1, <3>2
  <2> QED BY <2>1
<1>4. f = [n \in 0 .. N |-> IF n = 0 THEN 0 ELSE f[n - 1] + Rows(ids[n])]
  <2> HIDE DEF g
  <2> QED BY <1>3
<1>5. Sum(ids) = f[N]
  BY DEF Sum
<1> HIDE DEF f
<1>6. f[0] = 0 /\ \A n \in 1 .. N : f[n] = f[n - 1] + Rows(ids[n])
  <2>1. 0 \in 0 .. N /\ \A n \in 1 .. N : n \in 0 .. N /\ n # 0
    BY <1>1
  <2> HIDE DEF N
  <2> QED BY <1>4, <2>1
<1>7. \A n \in 0 .. N : f[n] = g[n]
  <2>1. ASSUME NEW n \in 1 .. N, f[n - 1] \in X PROVE f[n] = G[<<f[n - 1], n>>]
    BY <1>6, <2>1
  <2>2. 0 \in X
    OBVIOUS
  <2> HIDE DEF G, N, g, X
  <2> QED BY <1>1, <1>2, <1>6, <2>1, <2>2, LoopsAgree
<1>8. N \in 0 .. N /\ g[N] = N
  BY <1>1
<1> QED BY <1>5, <1>7, <1>8

Padding == CHOOSE f : f = [n \in 0 .. Len(eventIDs) |->
    IF n = 0 THEN 0
    ELSE LET id == eventIDs[n] IN (IF f[n - 1] < events[id].text THEN events[id].text ELSE f[n - 1]) - Indent(id)]

(* The padding is no wider than the widest text, and at most an indent short of the shortest. *)
LEMMA PaddingBound ==
  ASSUME KnownEvents, NEW L \in Nat \ {0, 1}, NEW M \in Nat, \A id \in DOMAIN events : events[id].text \in L .. M
  PROVE  statusPadding \in 0 .. M /\ (DOMAIN events # {} => statusPadding >= L - 2)
<1> DEFINE N == Len(eventIDs)
           X == 0 .. M
           W(w, n) == (IF w < events[eventIDs[n]].text THEN events[eventIDs[n]].text ELSE w) - Indent(eventIDs[n])
           G == [q \in X \X (1 .. N) |-> W(q[1], q[2])]
           f == Padding
<1>1. N \in Nat /\ DOMAIN eventIDs = 1 .. N /\ \A n \in 1 .. N : eventIDs[n] \in DOMAIN events
  BY DEF KnownEvents
<1>2. 0 \in X
  OBVIOUS
<1>3. ASSUME NEW w \in X, NEW n \in 1 .. N PROVE W(w, n) \in X /\ W(w, n) >= L - 2
  <2>1. PICK k \in L .. M : k = events[eventIDs[n]].text
    BY <1>1
  <2>2. PICK d \in {0, 2} : d = Indent(eventIDs[n])
    BY DEF Indent
  <2>3. W(w, n) = (IF w < k THEN k ELSE w) - d
    BY <2>1, <2>2
  <2> HIDE DEF W
  <2> QED BY <2>3
<1> HIDE DEF W, N, X
<1>4. IsStep(G, X, N)
  BY <1>3 DEF IsStep
<1>5. PICK g : IsLoop(g, 0, G, X, N)
  <2> HIDE DEF G
  <2> QED BY <1>1, <1>2, <1>4, LoopDefined
<1>6. g = [n \in 0 .. N |-> IF n = 0 THEN 0 ELSE W(g[n - 1], n)]
  <2>1. g \in [0 .. N -> X] /\ g[0] = 0 /\ \A n \in 1 .. N : g[n] = G[<<g[n - 1], n>>]
    BY <1>5 DEF IsLoop
  <2>2. ASSUME NEW n \in 0 .. N, n # 0 PROVE g[n] = W(g[n - 1], n)
    <3>1. n \in 1 .. N /\ n - 1 \in 0 .. N
      BY <1>1, <2>2
    <3>2. g[n - 1] \in X
      BY <2>1, <3>1
    <3> QED BY <2>1, <3>1, <3>2
  <2> QED BY <2>1, <2>2
<1>7. f = [n \in 0 .. N |-> IF n = 0 THEN 0 ELSE W(f[n - 1], n)]
  BY <1>6 DEF Padding, N, W
<1>8. statusPadding = f[N]
  BY DEF statusPadding, Padding, N
<1> HIDE DEF f
<1>9. f[0] = 0 /\ \A n \in 1 .. N : f[n] = W(f[n - 1], n)
  <2>1. 0 \in 0 .. N /\ \A n \in 1 .. N : n \in 0 .. N /\ n # 0
    BY <1>1
  <2> QED BY <1>7, <2>1
<1>10. \A n \in 0 .. N : f[n] \in X
  <2>1. ASSUME NEW n \in 1 .. N, f[n - 1] \in X PROVE f[n] = G[<<f[n - 1], n>>]
    BY <1>9, <2>1
  <2> HIDE DEF G
  <2> QED BY <1>1, <1>2, <1>4, <1>9, <2>1, LoopKeepsTo
<1>11. ASSUME DOMAIN events # {} PROVE f[N] >= L - 2
  <2>1. N # 0
    BY <1>1, <1>11 DEF KnownEvents, Range
  <2>2. N \in 1 .. N /\ N - 1 \in 0 .. N
    BY <1>1, <2>1
  <2>3. f[N - 1] \in X /\ f[N] = W(f[N - 1], N)
    BY <1>9, <1>10, <2>2
  <2> QED BY <1>3, <2>2, <2>3
<1> QED BY <1>1, <1>8, <1>10, <1>11 DEF X

(* A terminal that is wide enough for texts from L to M, and times that are no longer than the texts allow. *)
Roomy(L, M) == Width > 2 * M + 15 /\ Width >= M + NoTimer + 7 /\ Timer <= L + 3

(* An event that is over without having ended has no status text. *)
TextsFit(L, M) == \A id \in DOMAIN events :
    /\ events[id].text \in L .. M /\ events[id].note \in Nat
    /\ events[id].status = "Working" \/ events[id].ended \/ events[id].note = 0

(* A line fits the terminal. *)
LEMMA LineFits ==
  ASSUME KnownEvents, NEW L \in Nat \ {0, 1}, NEW M \in Nat, Roomy(L, M), TextsFit(L, M), NEW id \in DOMAIN events
  PROVE  maxStatusLen(id) > 0 /\ lineText(id) <= Width /\ Rows(id) = 1
<1>1. PICK sp \in 0 .. M : sp = statusPadding /\ sp >= L - 2
  BY PaddingBound DEF TextsFit
<1>2. PICK k \in L .. M, note \in Nat : k = events[id].text /\ note = events[id].note
  BY DEF TextsFit
<1>3. PICK w \in Nat, t \in Nat, x \in Nat : w = Width /\ t = Timer /\ x = NoTimer
  BY WidthAssumption
<1>4. w > 2 * M + 15 /\ w >= M + x + 7 /\ t <= L + 3
  BY <1>3 DEF Roomy
<1>5. PICK m \in Int : m = w - k - sp - 15 /\ m = maxStatusLen(id)
  BY <1>1, <1>2, <1>3 DEF maxStatusLen
<1>6. m > 0
  BY <1>4, <1>5
<1>7. PICK st \in Nat : st = statusLen(id) /\ st <= m + 3 /\ (note = 0 => st = 0)
  BY <1>2, <1>5, <1>6 DEF statusLen
<1>8. PICK d \in {0, 2} : d = Indent(id)
  BY DEF Indent
<1>9. PICK e \in Nat : e = elapsed(id) /\ (e = t \/ (e = x /\ note = 0))
  BY <1>2, <1>3 DEF elapsed, TextsFit
<1>10. PICK p \in Nat : p = (IF sp > k THEN sp - k ELSE 0)
  OBVIOUS
<1>11. PICK left \in Nat : left = d + 3 + k + p + 1 + st
  OBVIOUS
<1>12. lineText(id) = (IF left < w - e - 2 THEN w - e - 2 ELSE left) + 1 + e
  BY <1>1, <1>2, <1>3, <1>7, <1>8, <1>9, <1>10, <1>11 DEF lineText
<1>13. k + p <= M /\ p <= sp
  BY <1>10
<1>14. left + 1 + e <= w
  <2>1. CASE e = t
    <3>1. p <= sp - (L - 2)
      BY <1>1, <1>2, <1>10
    <3>2. st <= w - k - sp - 12 /\ d <= 2
      BY <1>5, <1>7, <1>8
    <3> QED BY <1>4, <1>11, <2>1, <3>1, <3>2
  <2>2. CASE e = x /\ note = 0
    BY <1>4, <1>7, <1>8, <1>11, <1>13, <2>2
  <2> QED BY <1>9, <2>1, <2>2
<1>15. PICK len \in Nat : len = lineText(id) /\ len <= w /\ len >= 1
  BY <1>12, <1>14
<1>16. (len + w - 1) \div w = 1
  <2>1. w > 0 /\ len + w - 1 >= w /\ len + w - 1 < 2 * w
    BY <1>15
  <2>2. PICK y \in Nat : y = len + w - 1
    BY <1>15
  <2>3. y \div w = 1
    <3>1. PICK q \in Int, r \in Int : q = y \div w /\ r = y % w /\ y = w * q + r /\ 0 <= r /\ r < w
      BY <2>1
    <3>2. ~(q >= 2)
      <4>1. SUFFICES ASSUME q >= 2 PROVE FALSE
        OBVIOUS
      <4>2. w * q >= w * 2
        BY <2>1, <4>1
      <4> QED BY <2>1, <2>2, <3>1, <4>2
    <3>3. ~(q <= 0)
      <4>1. SUFFICES ASSUME q <= 0 PROVE FALSE
        OBVIOUS
      <4>2. w * q <= 0
        BY <2>1, <4>1
      <4> QED BY <2>1, <2>2, <3>1, <4>2
    <3> QED BY <3>1, <3>2, <3>3
  <2> QED BY <2>2, <2>3
<1> QED BY <1>3, <1>5, <1>6, <1>15, <1>16 DEF Rows

(* What the writer keeps of its events; R are the ids that have events below them. *)
EventOk(L, M, R, id) ==
    /\ id \in R => events[id].parent = NoParent
    /\ events[id].parent # NoParent => events[id].parent \in R \cap DOMAIN events
    /\ events[id].text \in L .. M /\ events[id].note \in Nat
    /\ events[id].status \in {"Working", "Done", "Error"}
    /\ events[id].status = "Working" \/ events[id].note = 0
EventsOk(L, M, R) == KnownEvents /\ \A id \in DOMAIN events : EventOk(L, M, R, id)
InPlace == top = 0 /\ numLines \in Nat /\ (repeated => cursor = numLines + 1) /\ (~repeated => cursor = 0 /\ numLines = 0)

(* An event that may come. *)
Legal(L, M, R, e) ==
    /\ e.id \in R => e.parent = NoParent
    /\ e.parent # NoParent => e.parent \in R \cap DOMAIN events
    /\ e.text \in L .. M /\ e.note \in Nat
    /\ e.status \in {"Working", "Done", "Error"}
    /\ e.status = "Working" \/ e.note = 0

(* An event replaces the last one of its id, and no other. *)
LEMMA EventFields ==
  ASSUME NEW e, Event(e)
  PROVE  /\ DOMAIN events' = DOMAIN events \cup {e.id}
         /\ \A i \in DOMAIN events : i # e.id => events'[i] = events[i]
         /\ events'[e.id].status = e.status /\ events'[e.id].parent = e.parent /\ events'[e.id].text = e.text /\ events'[e.id].note = e.note
         /\ UNCHANGED <<numLines, repeated, cursor, top, drawn, writerPc>>
<1>1. PICK ended, worked, x :
        /\ x = [status |-> e.status, parent |-> e.parent, text |-> e.text, note |-> e.note, ended |-> ended, worked |-> worked]
        /\ events' = [i \in DOMAIN events \cup {e.id} |-> IF i # e.id THEN events[i] ELSE x]
  <2>1. PICK en, wo : en = (e.id \in DOMAIN events /\ (events[e.id].ended \/ Stops(events[e.id], e)))
              /\ wo = (IF e.id \in DOMAIN events THEN events[e.id].worked ELSE e.status = "Working")
    OBVIOUS
  <2>2. events' = [i \in DOMAIN events \cup {e.id} |-> IF i # e.id THEN events[i]
                     ELSE [status |-> e.status, parent |-> e.parent, text |-> e.text, note |-> e.note, ended |-> en, worked |-> wo]]
    BY <2>1 DEF Event
  <2> QED BY <2>2
<1> QED BY <1>1 DEF Event

(* What worked and does no more has ended. *)
LEMMA EndsStayKnown ==
  ASSUME NEW e, Event(e), EndsKnown, e.status \in {"Working", "Done", "Error"}
  PROVE  EndsKnown'
<1>1. SUFFICES ASSUME NEW id \in DOMAIN events', events'[id].worked, events'[id].status # "Working" PROVE events'[id].ended
  BY DEF EndsKnown
<1>2. CASE id # e.id
  <2>1. id \in DOMAIN events /\ events'[id] = events[id]
    BY <1>2, EventFields
  <2> QED BY <1>1, <2>1 DEF EndsKnown
<1>3. CASE id = e.id
  <2>1. events'[id] = [status |-> e.status, parent |-> e.parent, text |-> e.text, note |-> e.note,
                          ended  |-> id \in DOMAIN events /\ (events[id].ended \/ Stops(events[id], e)),
                          worked |-> IF id \in DOMAIN events THEN events[id].worked ELSE e.status = "Working"]
    BY <1>3 DEF Event
  <2>2. /\ events'[id].status = e.status
        /\ events'[id].ended = (id \in DOMAIN events /\ (events[id].ended \/ Stops(events[id], e)))
        /\ events'[id].worked = (IF id \in DOMAIN events THEN events[id].worked ELSE e.status = "Working")
    BY <2>1
  <2>3. e.status # "Working" /\ id \in DOMAIN events /\ events[id].worked
    BY <1>1, <2>2
  <2>4. CASE events[id].status = "Working"
    <3>1. Stops(events[id], e)
      BY <2>3, <2>4 DEF Stops
    <3> QED BY <2>2, <2>3, <3>1
  <2>5. CASE events[id].status # "Working"
    BY <2>2, <2>3, <2>5 DEF EndsKnown
  <2> QED BY <2>4, <2>5
<1> QED BY <1>2, <1>3

(* An event that may come leaves the writer's events in order. *)
LEMMA EventKeeps ==
  ASSUME NEW L \in Nat \ {0, 1}, NEW M \in Nat, NEW R, NEW e, Event(e), Legal(L, M, R, e), EventsOk(L, M, R)
  PROVE  EventsOk(L, M, R)' /\ eventIDs' # <<>>
<1>1. /\ DOMAIN events' = DOMAIN events \cup {e.id}
      /\ \A i \in DOMAIN events : i # e.id => events'[i] = events[i]
      /\ events'[e.id].status = e.status /\ events'[e.id].parent = e.parent /\ events'[e.id].text = e.text /\ events'[e.id].note = e.note
  BY EventFields
<1>2. ASSUME NEW id \in DOMAIN events' PROVE EventOk(L, M, R, id)'
  <2>1. CASE id = e.id
    BY <1>1, <2>1 DEF EventOk, Legal
  <2>2. CASE id # e.id
    <3>1. id \in DOMAIN events /\ events'[id] = events[id] /\ EventOk(L, M, R, id)
      BY <1>1, <2>2 DEF EventsOk
    <3> QED BY <1>1, <3>1 DEF EventOk
  <2> QED BY <2>1, <2>2
<1>3. eventIDs \in Seq(DOMAIN events) /\ Range(eventIDs) = DOMAIN events
  BY DEF EventsOk, KnownEvents
<1>4. KnownEvents' /\ eventIDs' # <<>>
  <2>1. CASE e.id \in DOMAIN events
    <3>1. eventIDs' = eventIDs /\ DOMAIN events' = DOMAIN events
      BY <1>1, <2>1 DEF Event
    <3>2. eventIDs # <<>>
      BY <1>3, <2>1 DEF Range
    <3> QED BY <1>3, <3>1, <3>2 DEF KnownEvents
  <2>2. CASE e.id \notin DOMAIN events
    <3>1. eventIDs' = Append(eventIDs, e.id)
      BY <2>2 DEF Event
    <3>2. PICK D : D = DOMAIN events'
      OBVIOUS
    <3>3. eventIDs \in Seq(D) /\ e.id \in D
      BY <1>1, <1>3, <3>2
    <3>4. Append(eventIDs, e.id) \in Seq(D) /\ Range(eventIDs) \subseteq Range(Append(eventIDs, e.id)) /\ e.id \in Range(Append(eventIDs, e.id))
      BY <3>3, AppendRange
    <3>5. D \subseteq Range(eventIDs')
      BY <1>1, <1>3, <3>1, <3>2, <3>4
    <3>6. Range(eventIDs') \subseteq D
      BY <3>1, <3>4 DEF Range
    <3>7. eventIDs' # <<>>
      BY <3>1, <3>3, <3>4, AppendProperties
    <3> QED BY <3>1, <3>2, <3>4, <3>5, <3>6, <3>7 DEF KnownEvents
  <2> QED BY <2>1, <2>2
<1> QED BY <1>2, <1>4 DEF EventsOk

(* A drawing replaces the one before, and shows the last status of every event. *)
LEMMA PrintKeeps ==
  ASSUME NEW L \in Nat \ {0, 1}, NEW M \in Nat, NEW R, Roomy(L, M), EventsOk(L, M, R), InPlace, print, UNCHANGED <<eventIDs, events>>,
         eventIDs = <<>> => drawn = NoEvents
  PROVE  EventsOk(L, M, R)' /\ InPlace' /\ drawn' = [id \in DOMAIN events |-> events[id].status]
<1>0. EventsOk(L, M, R)'
  BY DEF EventsOk, KnownEvents, EventOk
<1>1. CASE eventIDs = <<>>
  <2>1. DOMAIN events = {}
    BY <1>1 DEF EventsOk, KnownEvents, Range
  <2>2. UNCHANGED <<numLines, repeated, cursor, top, drawn>>
    BY <1>1 DEF print
  <2>3. drawn' = [id \in DOMAIN events |-> events[id].status]
    BY <1>1, <2>1, <2>2 DEF NoEvents
  <2> QED BY <1>0, <2>2, <2>3 DEF InPlace
<1>2. CASE eventIDs # <<>>
  <2>1. /\ top' = cursor - (numLines + 1) + (IF repeated THEN 0 ELSE 1)
        /\ cursor' = top' + 1 + Sum(Lines) /\ numLines' = Len(Lines) /\ repeated'
        /\ drawn' = [id \in Range(Lines) |-> events[id].status]
    BY <1>2 DEF print, LineCount
  <2>2. top' = 0
    <3>1. CASE repeated
      BY <2>1, <3>1 DEF InPlace
    <3>2. CASE ~repeated
      BY <2>1, <3>2 DEF InPlace
    <3> QED BY <3>1, <3>2
  <2>3. KnownEvents /\ TextsFit(L, M)
    BY DEF EventsOk, EventOk, TextsFit
  <2>4. Lines \in Seq(DOMAIN events) /\ Range(Lines) = DOMAIN events
    <3>1. \A id \in DOMAIN events : events[id].parent = NoParent
             \/ (events[id].parent \in DOMAIN events /\ events[events[id].parent].parent = NoParent)
      BY DEF EventsOk, EventOk
    <3> QED BY <2>3, <3>1, LinesAll
  <2>5. \A id \in Range(Lines) : Rows(id) = 1
    BY <2>3, <2>4, LineFits
  <2>6. Sum(Lines) = Len(Lines)
    BY <2>4, <2>5, OneRowEach
  <2>7. Len(Lines) \in Nat
    BY <2>4
  <2> QED BY <1>0, <2>1, <2>2, <2>4, <2>6, <2>7 DEF InPlace
<1> QED BY <1>1, <1>2

(* Every line of such a writer fits the terminal. *)
LEMMA EventsInPlace ==
  ASSUME NEW L \in Nat \ {0, 1}, NEW M \in Nat, NEW R, Roomy(L, M), EventsOk(L, M, R), InPlace
  PROVE  DrawnInPlace
<1>1. KnownEvents /\ TextsFit(L, M)
  BY DEF EventsOk, EventOk, TextsFit
<1> QED BY <1>1, LineFits DEF DrawnInPlace, InPlace

(* The texts of the projects are from L to M characters long. *)
TextsWithin(L, M) == \A case \in ImageCases : \A s \in Range(case.services) : s.text >= L /\ s.text <= M /\ \A jm \in Range(s.stream) : jm.text >= L /\ jm.text <= M

Over == {"skipped", "done"}
PullerSteps == {"none", "skipped", "begin", "auth", "ask", "stream", "read", "done", "failed"}

(* The state of the command and its goroutines. *)
ImagesTyped ==
    /\ imageCase \in ImageCases
    /\ puller \in [Names -> PullerSteps] /\ read \in [Names -> Nat] /\ spawned \in 0 .. Len(Services)
    /\ imagesPc \in {"start", "spawn", "setup", "ensure", "all", "build", "ok", "failed"}
    /\ writerPc \in {"off", "loop", "returned"}

(* How far a goroutine is, and what it has read of its stream. *)
ServiceOk(n) ==
    /\ puller[n] = "skipped" => Skipped(Service(n))
    /\ puller[n] \in {"ask", "stream", "read", "done"} => Service(n).valid
    /\ puller[n] \in {"none", "begin", "auth", "ask"} => read[n] = 0
    /\ puller[n] = "stream" => read[n] < Len(Service(n).stream)
    /\ puller[n] \in {"read", "done"} => Read(n)
ServicesOk == \A n \in Names : ServiceOk(n)

(* What the writer knows, and shows, of a service that is pulled. *)
ShownOk(n) ==
    /\ puller[n] \in {"auth", "ask", "stream", "read"} => n \in DOMAIN events
    /\ puller[n] \in Over => n \in DOMAIN events /\ events[n].status = "Done"
    /\ n \in DOMAIN events /\ events[n].status = "Done" => puller[n] \in Over
    /\ n \in DOMAIN drawn /\ drawn[n] = "Done" => puller[n] \in Over
AllShown == Pulling => \A n \in Names : ShownOk(n)

(* Where the command is, and where its goroutines are then. *)
CommandOk ==
    /\ imagesPc \in {"ok", "failed"} => \A n \in Names : puller[n] \in Over \cup {"none", "failed"}
    /\ imagesPc = "ok" /\ imageCase.op \in {"pull", "push"} => \A n \in Names : puller[n] \in Over
    /\ imagesPc \in {"start", "spawn"} => imageCase.op \in {"pull", "push"}
    /\ imagesPc \in {"setup", "ensure", "all", "build"} => imageCase.op \in {"ensure", "build"} /\ \A n \in Names : puller[n] = "none"
    /\ imagesPc = "start" => \A n \in Names : puller[n] = "none"
    /\ imagesPc = "all" => imageCase.op = "build"
    /\ \A i \in DOMAIN Services : i > spawned => puller[Services[i].name] = "none"

(* The last drawing. *)
LastOk ==
    /\ eventIDs = <<>> => drawn = NoEvents
    /\ writerPc = "returned" => imagesPc \in {"ok", "failed"} /\ drawn = [id \in DOMAIN events |-> events[id].status]

(* The images that ensureImagesExists has gone through are there, or to be built or pulled. *)
BuildsOk ==
    imageCase.op = "ensure" /\ ~OneKey =>
        /\ imagesPc \in {"setup", "ensure", "build"} =>
              /\ \A k \in DOMAIN builds : builds[k] \in Range(Services) /\ Key(builds[k]) = k
              /\ \A i \in 1 .. spawned : getImageName(Services[i]) \in present
                      \/ \E k \in DOMAIN builds : getImageName(builds[k]) = getImageName(Services[i])
        /\ imagesPc = "build" => spawned = Len(Services)
        /\ imagesPc = "ok" => \A s \in Range(Services) : getImageName(s) \in present

WriterOk(L, M) == \E R : R = Names /\ EventsOk(L, M, R) /\ InPlace /\ EndsKnown

ImagesInv(L, M) == ImagesTyped /\ ServicesOk /\ AllShown /\ CommandOk /\ LastOk /\ BuildsOk /\ WriterOk(L, M)

(* A service is known by its name. *)
LEMMA ServiceOfName ==
  ASSUME imageCase \in ImageCases
  PROVE  /\ Services \in Seq(Range(Services)) /\ Len(Services) \in Nat /\ DOMAIN Services = 1 .. Len(Services)
         /\ \A n \in Names : Service(n) \in Range(Services) /\ Service(n).name = n
         /\ \A s \in Range(Services) : s.name \in Names /\ Service(s.name) = s
         /\ \A s, t \in Range(Services) : s.name = t.name => s = t
<1>1. /\ Services \in Seq(Range(Services))
      /\ \A i, j \in DOMAIN Services : Services[i].name = Services[j].name => i = j
  BY ImagesAssumption DEF Services
<1>2. \A s, t \in Range(Services) : s.name = t.name => s = t
  BY <1>1 DEF Range
<1>3. ASSUME NEW n \in Names PROVE Service(n) \in Range(Services) /\ Service(n).name = n
  <2>1. \E s \in Range(Services) : s.name = n
    BY DEF Names
  <2> QED BY <2>1 DEF Service
<1>4. ASSUME NEW s \in Range(Services) PROVE s.name \in Names /\ Service(s.name) = s
  <2>1. s.name \in Names
    BY DEF Names
  <2>2. Service(s.name) \in Range(Services) /\ Service(s.name).name = s.name
    BY <1>3, <2>1
  <2> QED BY <1>2, <2>1, <2>2
<1>5. Len(Services) \in Nat /\ DOMAIN Services = 1 .. Len(Services)
  BY <1>1
<1> QED BY <1>1, <1>2, <1>3, <1>4, <1>5

(* What the streams of a service send. *)
LEMMA ServiceSends ==
  ASSUME imageCase \in ImageCases, NEW L \in Nat \ {0, 1}, NEW M \in Nat, TextsWithin(L, M), NEW s \in Range(Services)
  PROVE  /\ s.text \in L .. M /\ s.stream \in Seq(Range(s.stream)) /\ Len(s.stream) \in Nat /\ DOMAIN s.stream = 1 .. Len(s.stream)
         /\ \A i \in DOMAIN s.stream : s.stream[i].kind = "layer" <=> i < Len(s.stream)
         /\ \A jm \in Range(s.stream) : jm.text \in L .. M /\ jm.note \in Nat /\ jm.id \notin Names /\ (jm.status = "complete" => jm.note = 0)
<1>1. /\ s.stream \in Seq(Range(s.stream)) /\ s.text \in Nat \ {0, 1} /\ s.text >= L /\ s.text <= M
      /\ \A i \in DOMAIN s.stream : s.stream[i].kind = "layer" <=> i < Len(s.stream)
  BY ImagesAssumption DEF Services, TextsWithin
<1>2. ASSUME NEW jm \in Range(s.stream)
      PROVE  jm.text \in Nat \ {0, 1} /\ jm.text >= L /\ jm.text <= M /\ jm.note \in Nat /\ jm.id \notin Names /\ (jm.status = "complete" => jm.note = 0)
  BY ImagesAssumption DEF Services, TextsWithin, Names
<1>3. \A x \in Nat \ {0, 1} : x >= L /\ x <= M => x \in L .. M
  OBVIOUS
<1>4. s.text \in L .. M /\ \A jm \in Range(s.stream) : jm.text \in L .. M
  BY <1>1, <1>2, <1>3
<1>5. Len(s.stream) \in Nat /\ DOMAIN s.stream = 1 .. Len(s.stream)
  BY <1>1
<1> QED BY <1>1, <1>2, <1>4, <1>5

(* At first nothing has been drawn, and no goroutine begun. *)
LEMMA ImagesBegin ==
  ASSUME NEW L \in Nat \ {0, 1}, NEW M \in Nat, ImagesInit
  PROVE  ImagesInv(L, M)
<1>1. imageCase \in ImageCases /\ imageCase.op \in {"pull", "push", "ensure", "build"}
  BY ImagesAssumption DEF ImagesInit
<1>2. /\ Len(Services) \in Nat /\ DOMAIN Services = 1 .. Len(Services)
      /\ \A s \in Range(Services) : s.name \in Names
  BY <1>1, ServiceOfName
<1>3. puller = [n \in Names |-> "none"] /\ read = [n \in Names |-> 0] /\ spawned = 0 /\ builds = NoEvents
  BY DEF ImagesInit
<1>4. eventIDs = <<>> /\ events = NoEvents /\ numLines = 0 /\ repeated = FALSE /\ cursor = 0 /\ top = 0 /\ drawn = NoEvents /\ writerPc \in {"loop", "off"}
  BY DEF ImagesInit, WriterInit, WriterOff
<1>5. DOMAIN NoEvents = {}
  BY DEF NoEvents
<1>6. imagesPc \in {"start", "setup"} /\ (imagesPc = "setup" <=> imageCase.op \in {"ensure", "build"})
  BY <1>1 DEF ImagesInit
<1>7. ImagesTyped
  BY <1>1, <1>2, <1>3, <1>4, <1>6 DEF ImagesTyped, PullerSteps
<1>8. ServicesOk
  BY <1>3 DEF ServicesOk, ServiceOk
<1>9. AllShown
  BY <1>3, <1>4, <1>5 DEF AllShown, ShownOk, Over
<1>10. CommandOk
  <2>1. \A i \in DOMAIN Services : Services[i].name \in Names
    BY <1>2 DEF Range
  <2> QED BY <1>1, <1>3, <1>6, <2>1 DEF CommandOk
<1>11. LastOk
  BY <1>4 DEF LastOk
<1>12. BuildsOk
  BY <1>3, <1>5, <1>6 DEF BuildsOk
<1>13. WriterOk(L, M)
  <2>1. KnownEvents
    BY <1>4, <1>5 DEF KnownEvents, Range
  <2>2. InPlace
    BY <1>4 DEF InPlace
  <2> QED BY <1>4, <1>5, <2>1, <2>2 DEF WriterOk, EventsOk, EndsKnown
<1> QED BY <1>7, <1>8, <1>9, <1>10, <1>11, <1>12, <1>13 DEF ImagesInv

(* What the invariant says of a command. *)
LEMMA ImagesInvGives ==
  ASSUME NEW L \in Nat \ {0, 1}, NEW M \in Nat, Roomy(L, M), ImagesInv(L, M)
  PROVE  PulledRight
<1> USE DEF ImagesInv
<1>1. \A n \in Names : Service(n) \in Range(Services) /\ Service(n).name = n
  BY ServiceOfName DEF ImagesTyped
<1>2. SuccessIsPulled
  <2>1. SUFFICES ASSUME imagesPc = "ok", imageCase.op \in {"pull", "push"}, NEW n \in Names
                 PROVE  /\ ~Skipped(Service(n)) => Service(n).valid /\ Read(n)
                        /\ Pulling => events[n].status = "Done"
    BY DEF SuccessIsPulled
  <2>2. puller[n] \in Over /\ ServiceOk(n)
    BY <2>1 DEF CommandOk, ServicesOk
  <2>3. Pulling => ShownOk(n)
    BY DEF AllShown
  <2> QED BY <2>2, <2>3 DEF ServiceOk, ShownOk, Over
<1>3. DoneIsPulled
  <2>1. SUFFICES ASSUME Pulling, NEW n \in Names, n \in DOMAIN drawn, drawn[n] = "Done"
                 PROVE  puller[n] = "skipped" \/ (puller[n] = "done" /\ Read(n))
    BY DEF DoneIsPulled
  <2>2. ShownOk(n) /\ ServiceOk(n)
    BY <2>1 DEF AllShown, ServicesOk
  <2> QED BY <2>1, <2>2 DEF ShownOk, ServiceOk, Over
<1>4. ImagesReady
  BY DEF BuildsOk, ImagesReady
<1>5. DrawnInPlace /\ EndsKnown
  BY EventsInPlace DEF WriterOk
<1>6. LastIsDrawn
  BY DEF LastOk, LastIsDrawn
<1> QED BY <1>2, <1>3, <1>4, <1>5, <1>6 DEF PulledRight

(* The project of a command stays the same. *)
LEMMA CaseKept ==
  ASSUME imageCase' = imageCase
  PROVE  /\ Services' = Services /\ Names' = Names /\ (Pulling' <=> Pulling) /\ (OneKey' <=> OneKey)
         /\ \A n : Service(n)' = Service(n)
         /\ \A s : Skipped(s)' <=> Skipped(s)
<1>1. Services' = Services
  BY DEF Services
<1>2. Pulling' <=> Pulling
  BY DEF Pulling
<1>3. OneKey' <=> OneKey
  BY <1>1 DEF OneKey, getImageName
<1>4. Names' = Names
  BY <1>1 DEF Names
<1>5. ASSUME NEW n PROVE Service(n)' = Service(n)
  BY <1>1 DEF Service
<1>6. ASSUME NEW s PROVE Skipped(s)' <=> Skipped(s)
  BY <1>2 DEF Skipped
<1> QED BY <1>1, <1>2, <1>3, <1>4, <1>5, <1>6

(* What a goroutine may tell the writer: of itself, or of what has no name of a service. *)
Told(L, M, R, n) == \E e : Event(e) /\ Legal(L, M, R, e) /\ (e.id = n \/ e.id \notin R)

(* The writer stays in order when nothing, or something legal, is told. *)
LEMMA WriterKept ==
  ASSUME NEW L \in Nat \ {0, 1}, NEW M \in Nat, NEW n, WriterOk(L, M), imageCase' = imageCase, UNCHANGED writerVars \/ \E R : R = Names /\ Told(L, M, R, n)
  PROVE  /\ WriterOk(L, M)' /\ writerPc' = writerPc /\ drawn' = drawn
         /\ UNCHANGED writerVars \/ eventIDs' # <<>>
<1>1. PICK R : R = Names /\ EventsOk(L, M, R)
  BY DEF WriterOk
<1>2. R = Names' /\ InPlace /\ EndsKnown
  BY <1>1, CaseKept DEF WriterOk
<1>3. CASE UNCHANGED writerVars
  <2>1. EventsOk(L, M, R)' /\ InPlace' /\ EndsKnown'
    BY <1>1, <1>2, <1>3 DEF EventsOk, KnownEvents, EventOk, InPlace, EndsKnown, writerVars
  <2> QED BY <1>2, <1>3, <2>1 DEF WriterOk, writerVars
<1>4. CASE \E Q : Q = Names /\ Told(L, M, Q, n)
  <2>1. PICK e : Event(e) /\ Legal(L, M, R, e)
    BY <1>1, <1>4 DEF Told
  <2>2. EventsOk(L, M, R)' /\ eventIDs' # <<>>
    BY <1>1, <2>1, EventKeeps
  <2>3. EndsKnown'
    BY <1>2, <2>1, EndsStayKnown DEF Legal
  <2>4. UNCHANGED <<numLines, repeated, cursor, top, drawn, writerPc>>
    BY <2>1, EventFields
  <2>5. InPlace'
    BY <1>2, <2>4 DEF InPlace
  <2> QED BY <1>2, <2>2, <2>3, <2>4, <2>5 DEF WriterOk
<1> QED BY <1>3, <1>4

(* Of another service nothing else is told. *)
LEMMA OthersShown ==
  ASSUME NEW L \in Nat \ {0, 1}, NEW M \in Nat, NEW n, NEW m \in Names, m # n, WriterOk(L, M), ShownOk(m), imageCase' = imageCase,
         puller'[m] = puller[m], UNCHANGED writerVars \/ \E R : R = Names /\ Told(L, M, R, n)
  PROVE  ShownOk(m)'
<1>1. CASE UNCHANGED writerVars
  BY <1>1 DEF ShownOk, writerVars
<1>2. CASE \E R : R = Names /\ Told(L, M, R, n)
  <2>1. PICK e : Event(e) /\ m # e.id
    BY <1>2 DEF Told
  <2>2. (m \in DOMAIN events' <=> m \in DOMAIN events) /\ (m \in DOMAIN events => events'[m] = events[m]) /\ drawn' = drawn
    BY <2>1, EventFields
  <2> QED BY <2>2 DEF ShownOk
<1> QED BY <1>1, <1>2

(* A goroutine that goes on leaves the invariant to its own part of it. *)
LEMMA GoroutineKeeps ==
  ASSUME NEW L \in Nat \ {0, 1}, NEW M \in Nat, ImagesInv(L, M), NEW n \in Names, imagesPc = "spawn", UNCHANGED <<imageCase, builds, imagesPc>>,
         spawned' \in 0 .. Len(Services), \A i \in DOMAIN Services : i > spawned' => puller'[Services[i].name] = "none",
         puller' \in [Names -> PullerSteps], read' \in [Names -> Nat],
         \A m \in Names : m # n => puller'[m] = puller[m] /\ read'[m] = read[m],
         UNCHANGED writerVars \/ \E R : R = Names /\ Told(L, M, R, n),
         ServiceOk(n)', Pulling => ShownOk(n)'
  PROVE  ImagesInv(L, M)'
<1>0. ImagesTyped /\ ServicesOk /\ AllShown /\ CommandOk /\ LastOk /\ BuildsOk /\ WriterOk(L, M)
  BY DEF ImagesInv
<1>1. /\ Services' = Services /\ Names' = Names /\ (Pulling' <=> Pulling)
      /\ \A m : Service(m)' = Service(m)
      /\ \A s : Skipped(s)' <=> Skipped(s)
  BY CaseKept
<1>2. imageCase.op \in {"pull", "push"} /\ writerPc # "returned"
  BY <1>0 DEF CommandOk, LastOk
<1>3. WriterOk(L, M)' /\ writerPc' = writerPc /\ drawn' = drawn /\ (UNCHANGED writerVars \/ eventIDs' # <<>>)
  BY <1>0, WriterKept
<1>4. ImagesTyped'
  BY <1>0, <1>1, <1>3 DEF ImagesTyped
<1>5. ServicesOk'
  <2>1. ASSUME NEW m \in Names, m # n PROVE ServiceOk(m)'
    BY <1>0, <1>1, <2>1 DEF ServicesOk, ServiceOk, Read
  <2> QED BY <1>1, <2>1 DEF ServicesOk
<1>6. AllShown'
  <2>1. ASSUME Pulling, NEW m \in Names, m # n PROVE ShownOk(m)'
    <3>1. ShownOk(m)
      BY <1>0, <2>1 DEF AllShown
    <3> QED BY <1>0, <2>1, <3>1, OthersShown
  <2> QED BY <1>1, <2>1 DEF AllShown
<1>7. CommandOk'
  BY <1>1, <1>2 DEF CommandOk
<1>8. LastOk'
  BY <1>0, <1>2, <1>3 DEF LastOk, writerVars
<1>9. BuildsOk'
  BY <1>2 DEF BuildsOk
<1> QED BY <1>3, <1>4, <1>5, <1>6, <1>7, <1>8, <1>9 DEF ImagesInv

(* A goroutine that takes a step was one the command has begun. *)
LEMMA GoroutineActive ==
  ASSUME NEW L \in Nat \ {0, 1}, NEW M \in Nat, ImagesInv(L, M), NEW n \in Names, puller[n] \in {"begin", "auth", "ask", "stream", "read"}
  PROVE  imagesPc = "spawn" /\ \A i \in DOMAIN Services : i > spawned => Services[i].name # n
<1>0. ImagesTyped /\ CommandOk
  BY DEF ImagesInv
<1> QED BY <1>0 DEF ImagesTyped, CommandOk, Over

(* Its step, when it reads nothing. *)
LEMMA GoroutineSteps ==
  ASSUME NEW L \in Nat \ {0, 1}, NEW M \in Nat, ImagesInv(L, M), NEW n \in Names, puller[n] \in {"begin", "auth", "ask", "stream", "read"},
         NEW x \in PullerSteps \ {"none"}, puller' = [puller EXCEPT ![n] = x], UNCHANGED <<imageCase, spawned, read, builds, imagesPc>>,
         UNCHANGED writerVars \/ \E R : R = Names /\ Told(L, M, R, n),
         ServiceOk(n)', Pulling => ShownOk(n)'
  PROVE  ImagesInv(L, M)'
<1>0. ImagesTyped /\ CommandOk
  BY DEF ImagesInv
<1>1. imagesPc = "spawn" /\ \A i \in DOMAIN Services : i > spawned => Services[i].name # n
  BY GoroutineActive
<1>2. puller \in [Names -> PullerSteps] /\ read \in [Names -> Nat]
  BY <1>0 DEF ImagesTyped
<1>3. puller' \in [Names -> PullerSteps] /\ \A m \in Names : m # n => puller'[m] = puller[m]
  BY <1>2
<1>4. \A i \in DOMAIN Services : i > spawned' => puller'[Services[i].name] = "none"
  <2>1. \A i \in DOMAIN Services : Services[i].name \in Names
    BY DEF Names, Range
  <2> QED BY <1>0, <1>1, <1>3, <2>1 DEF CommandOk
<1>5. spawned' \in 0 .. Len(Services)
  BY <1>0 DEF ImagesTyped
<1> QED BY <1>1, <1>2, <1>3, <1>4, <1>5, GoroutineKeeps

(* An event of a service is one that may come. *)
LEMMA ServiceTold ==
  ASSUME NEW L \in Nat \ {0, 1}, NEW M \in Nat, TextsWithin(L, M), imageCase \in ImageCases, NEW n \in Names, NEW st \in {"Working", "Done", "Error"},
         Event(NewEvent(n, NoParent, st, Service(n).text, 0))
  PROVE  /\ \E R : R = Names /\ Told(L, M, R, n)
         /\ n \in DOMAIN events' /\ events'[n].status = st /\ drawn' = drawn
<1>1. Service(n) \in Range(Services)
  BY ServiceOfName
<1>2. Service(n).text \in L .. M
  BY <1>1, ServiceSends
<1>3. PICK t \in L .. M : t = Service(n).text
  BY <1>2
<1>4. PICK e : e = NewEvent(n, NoParent, st, t, 0)
  OBVIOUS
<1>5. e.id = n /\ e.parent = NoParent /\ e.status = st /\ e.text = t /\ e.note = 0
  BY <1>4 DEF NewEvent
<1>6. Event(e)
  BY <1>3, <1>4
<1>7. PICK R : R = Names
  OBVIOUS
<1>8. Legal(L, M, R, e)
  BY <1>5 DEF Legal
<1>9. Told(L, M, R, n)
  BY <1>5, <1>6, <1>8 DEF Told
<1>10. n \in DOMAIN events' /\ events'[n].status = st /\ drawn' = drawn
  BY <1>5, <1>6, EventFields
<1> QED BY <1>7, <1>9, <1>10

(* A goroutine begins: a pull says so, with an event of the service. *)
LEMMA BeginServiceKeeps ==
  ASSUME NEW L \in Nat \ {0, 1}, NEW M \in Nat, TextsWithin(L, M), ImagesInv(L, M), NEW n \in Names, BeginService(n)
  PROVE  ImagesInv(L, M)'
<1>0. ImagesTyped /\ ServiceOk(n) /\ (Pulling => ShownOk(n))
  BY DEF ImagesInv, ServicesOk, AllShown
<1>1. puller[n] = "begin" /\ puller' = [puller EXCEPT ![n] = "auth"] /\ UNCHANGED <<imageCase, spawned, read, builds, imagesPc>> /\ puller'[n] = "auth"
  BY <1>0 DEF BeginService, Ok, ImagesTyped
<1>2. ServiceOk(n)'
  BY <1>0, <1>1 DEF ServiceOk
<1>3. (UNCHANGED writerVars \/ \E R : R = Names /\ Told(L, M, R, n)) /\ (Pulling => ShownOk(n)')
  <2>1. CASE Pulling
    <3>1. Event(NewEvent(n, NoParent, "Working", Service(n).text, 0))
      BY <2>1 DEF BeginService
    <3>2. /\ \E R : R = Names /\ Told(L, M, R, n)
          /\ n \in DOMAIN events' /\ events'[n].status = "Working" /\ drawn' = drawn
      BY <1>0, <3>1, ServiceTold DEF ImagesTyped
    <3> QED BY <1>0, <1>1, <2>1, <3>2 DEF ShownOk, Over
  <2>2. CASE ~Pulling
    BY <2>2 DEF BeginService, Silent
  <2> QED BY <2>1, <2>2
<1>4. "auth" \in PullerSteps \ {"none"}
  BY DEF PullerSteps
<1> QED BY <1>1, <1>2, <1>3, <1>4, GoroutineSteps

(* Only an image that is a reference, with credentials, is asked for. *)
LEMMA AuthorizeKeeps ==
  ASSUME NEW L \in Nat \ {0, 1}, NEW M \in Nat, TextsWithin(L, M), ImagesInv(L, M), NEW n \in Names, Authorize(n)
  PROVE  ImagesInv(L, M)'
<1>0. ImagesTyped /\ ServiceOk(n) /\ (Pulling => ShownOk(n))
  BY DEF ImagesInv, ServicesOk, AllShown
<1>1. PICK x \in {"ask", "failed"} : puller' = [puller EXCEPT ![n] = x] /\ (x = "ask" => Service(n).valid)
  BY DEF Authorize, Ok, ServiceFails
<1>2. puller[n] = "auth" /\ UNCHANGED <<imageCase, spawned, read, builds, imagesPc>> /\ puller'[n] = x /\ UNCHANGED writerVars
  BY <1>0, <1>1 DEF Authorize, ImagesTyped, Silent
<1>3. ServiceOk(n)'
  <2>1. Service(n)' = Service(n)
    BY <1>2, CaseKept
  <2> QED BY <1>0, <1>1, <1>2, <2>1 DEF ServiceOk
<1>4. Pulling => ShownOk(n)'
  BY <1>0, <1>1, <1>2 DEF ShownOk, Over, writerVars
<1>5. x \in PullerSteps \ {"none"}
  BY <1>1 DEF PullerSteps
<1> QED BY <1>1, <1>2, <1>3, <1>4, <1>5, GoroutineSteps

(* A stream is opened, or the service is shown in error. *)
LEMMA AskKeeps ==
  ASSUME NEW L \in Nat \ {0, 1}, NEW M \in Nat, TextsWithin(L, M), ImagesInv(L, M), NEW n \in Names, Ask(n)
  PROVE  ImagesInv(L, M)'
<1>0. ImagesTyped /\ ServiceOk(n) /\ (Pulling => ShownOk(n))
  BY DEF ImagesInv, ServicesOk, AllShown
<1>1. puller[n] = "ask" /\ UNCHANGED <<imageCase, spawned, read, builds, imagesPc>>
  BY DEF Ask
<1>2. Service(n)' = Service(n)
  BY <1>1, CaseKept
<1>3. CASE Service(n).stream # <<>> /\ Ok(n, "stream") /\ Silent
  <2>1. puller' = [puller EXCEPT ![n] = "stream"] /\ puller'[n] = "stream" /\ UNCHANGED writerVars
    BY <1>0, <1>3 DEF Ok, Silent, ImagesTyped
  <2>2. 0 < Len(Service(n).stream)
    <3>1. Service(n) \in Range(Services)
      BY <1>0, ServiceOfName DEF ImagesTyped
    <3>2. PICK s : s = Service(n).stream
      OBVIOUS
    <3>3. s \in Seq(Range(s)) /\ s # <<>>
      BY <1>0, <1>3, <3>1, <3>2, ServiceSends DEF ImagesTyped
    <3> QED BY <3>2, <3>3
  <2>3. ServiceOk(n)'
    BY <1>0, <1>1, <1>2, <2>1, <2>2 DEF ServiceOk
  <2>4. Pulling => ShownOk(n)'
    BY <1>0, <1>1, <2>1 DEF ShownOk, Over, writerVars
  <2>5. "stream" \in PullerSteps \ {"none"}
    BY DEF PullerSteps
  <2> QED BY <1>1, <2>1, <2>3, <2>4, <2>5, GoroutineSteps
<1>4. CASE ServiceFails(n) /\ IF Pulling THEN Event(NewEvent(n, NoParent, "Error", Service(n).text, 0)) ELSE Silent
  <2>1. puller' = [puller EXCEPT ![n] = "failed"] /\ puller'[n] = "failed"
    BY <1>0, <1>4 DEF ServiceFails, ImagesTyped
  <2>2. ServiceOk(n)'
    BY <2>1 DEF ServiceOk
  <2>3. (UNCHANGED writerVars \/ \E R : R = Names /\ Told(L, M, R, n)) /\ (Pulling => ShownOk(n)')
    <3>1. CASE Pulling
      <4>1. Event(NewEvent(n, NoParent, "Error", Service(n).text, 0))
        BY <1>4, <3>1
      <4>2. /\ \E R : R = Names /\ Told(L, M, R, n)
            /\ n \in DOMAIN events' /\ events'[n].status = "Error" /\ drawn' = drawn
        BY <1>0, <4>1, ServiceTold DEF ImagesTyped
      <4> QED BY <1>0, <1>1, <2>1, <3>1, <4>2 DEF ShownOk, Over
    <3>2. CASE ~Pulling
      BY <1>4, <3>2 DEF Silent
    <3> QED BY <3>1, <3>2
  <2>4. "failed" \in PullerSteps \ {"none"}
    BY DEF PullerSteps
  <2> QED BY <1>1, <2>1, <2>2, <2>3, <2>4, GoroutineSteps
<1> QED BY <1>3, <1>4 DEF Ask

(* A service is shown done when its stream has been read to the end. *)
LEMMA PulledKeeps ==
  ASSUME NEW L \in Nat \ {0, 1}, NEW M \in Nat, TextsWithin(L, M), ImagesInv(L, M), NEW n \in Names, Pulled(n)
  PROVE  ImagesInv(L, M)'
<1>0. ImagesTyped /\ ServiceOk(n) /\ (Pulling => ShownOk(n))
  BY DEF ImagesInv, ServicesOk, AllShown
<1>1. puller[n] = "read" /\ puller' = [puller EXCEPT ![n] = "done"] /\ UNCHANGED <<imageCase, spawned, read, builds, imagesPc>> /\ puller'[n] = "done"
  BY <1>0 DEF Pulled, Ok, ImagesTyped
<1>2. ServiceOk(n)'
  <2>1. Service(n)' = Service(n)
    BY <1>1, CaseKept
  <2> QED BY <1>0, <1>1, <2>1 DEF ServiceOk, Read
<1>3. (UNCHANGED writerVars \/ \E R : R = Names /\ Told(L, M, R, n)) /\ (Pulling => ShownOk(n)')
  <2>1. CASE Pulling
    <3>1. Event(NewEvent(n, NoParent, "Done", Service(n).text, 0))
      BY <2>1 DEF Pulled
    <3>2. /\ \E R : R = Names /\ Told(L, M, R, n)
          /\ n \in DOMAIN events' /\ events'[n].status = "Done" /\ drawn' = drawn
      BY <1>0, <3>1, ServiceTold DEF ImagesTyped
    <3> QED BY <1>1, <2>1, <3>2 DEF ShownOk, Over
  <2>2. CASE ~Pulling
    BY <2>2 DEF Pulled, Silent
  <2> QED BY <2>1, <2>2
<1>4. "done" \in PullerSteps \ {"none"}
  BY DEF PullerSteps
<1> QED BY <1>1, <1>2, <1>3, <1>4, GoroutineSteps

(* What is told of a layer is one that may come, and is not of a service. *)
LEMMA LayerTold ==
  ASSUME NEW L \in Nat \ {0, 1}, NEW M \in Nat, TextsWithin(L, M), ImagesInv(L, M), NEW n \in Names, puller[n] = "stream", NEW jm \in Range(Service(n).stream),
         IF Pulling THEN toPullProgressEvent(n, jm) ELSE toPushProgressEvent(n, jm)
  PROVE  /\ UNCHANGED writerVars \/ \E R : R = Names /\ Told(L, M, R, n)
         /\ n \in DOMAIN events => n \in DOMAIN events' /\ events'[n] = events[n]
         /\ n \in DOMAIN events' => n \in DOMAIN events
         /\ drawn' = drawn
<1>0. ImagesTyped /\ (Pulling => ShownOk(n))
  BY DEF ImagesInv, AllShown
<1>1. Service(n) \in Range(Services)
  BY <1>0, ServiceOfName DEF ImagesTyped
<1>2. jm.text \in L .. M /\ jm.note \in Nat /\ jm.id \notin Names /\ (jm.status = "complete" => jm.note = 0)
  BY <1>0, <1>1, ServiceSends DEF ImagesTyped
<1>3. PICK R : R = Names
  OBVIOUS
<1>4. ASSUME NEW p, NEW st \in {"Working", "Done"}, NEW t, NEW note \in Nat, t = jm.text, Event(NewEvent(jm.id, p, st, t, note)),
             p # NoParent => p \in R \cap DOMAIN events, st = "Working" \/ note = 0
      PROVE  Told(L, M, R, n) /\ \E e : Event(e) /\ e.id # n
  <2>1. PICK e : e = NewEvent(jm.id, p, st, t, note)
    OBVIOUS
  <2>2. e.id = jm.id /\ e.parent = p /\ e.status = st /\ e.text = t /\ e.note = note /\ Event(e)
    BY <1>4, <2>1 DEF NewEvent
  <2>3. Legal(L, M, R, e)
    BY <1>2, <1>3, <1>4, <2>2 DEF Legal
  <2> QED BY <1>2, <1>3, <2>2, <2>3 DEF Told
<1>5. UNCHANGED writerVars \/ (Told(L, M, R, n) /\ \E e : Event(e) /\ e.id # n)
  <2>1. PICK st \in {"Working", "Done"} : st = (IF jm.status = "complete" THEN "Done" ELSE "Working")
    OBVIOUS
  <2>2. PICK t : t = jm.text
    OBVIOUS
  <2>3. CASE Pulling
    <3>1. n \in R \cap DOMAIN events
      BY <1>0, <1>3, <2>3 DEF ShownOk
    <3>2. CASE jm.progress
      <4>1. Event(NewEvent(jm.id, n, st, t, jm.note))
        BY <2>1, <2>2, <2>3, <3>2 DEF toPullProgressEvent
      <4> QED BY <1>2, <1>4, <2>1, <2>2, <3>1, <4>1
    <3>3. CASE ~jm.progress
      BY <2>3, <3>3 DEF toPullProgressEvent, Silent
    <3> QED BY <3>2, <3>3
  <2>4. CASE ~Pulling
    <3>1. PICK note \in Nat : note = (IF jm.progress THEN jm.note ELSE 0) /\ (jm.status = "complete" => note = 0)
      BY <1>2
    <3>2. Event(NewEvent(jm.id, NoParent, st, t, note))
      BY <2>1, <2>2, <2>4, <3>1 DEF toPushProgressEvent
    <3> QED BY <1>4, <2>1, <2>2, <3>1, <3>2
  <2> QED BY <2>3, <2>4
<1>6. CASE UNCHANGED writerVars
  BY <1>6 DEF writerVars
<1>7. CASE Told(L, M, R, n) /\ \E e : Event(e) /\ e.id # n
  <2>1. PICK e : Event(e) /\ e.id # n
    BY <1>7
  <2>2. /\ n \in DOMAIN events => n \in DOMAIN events' /\ events'[n] = events[n]
        /\ n \in DOMAIN events' => n \in DOMAIN events
        /\ drawn' = drawn
    BY <2>1, EventFields
  <2> QED BY <1>3, <1>7, <2>2
<1> QED BY <1>5, <1>6, <1>7

(* A message of the stream is a layer, the end, or an error. *)
LEMMA DecodeKeeps ==
  ASSUME NEW L \in Nat \ {0, 1}, NEW M \in Nat, TextsWithin(L, M), ImagesInv(L, M), NEW n \in Names, Decode(n)
  PROVE  ImagesInv(L, M)'
<1>0. ImagesTyped /\ ServiceOk(n) /\ (Pulling => ShownOk(n))
  BY DEF ImagesInv, ServicesOk, AllShown
<1>1. puller[n] = "stream" /\ UNCHANGED <<imageCase, spawned, builds, imagesPc>>
  BY DEF Decode
<1>2. Service(n)' = Service(n) /\ Service(n) \in Range(Services) /\ imageCase \in ImageCases
  BY <1>0, <1>1, CaseKept, ServiceOfName DEF ImagesTyped
<1>3. PICK st : st = Service(n).stream
  OBVIOUS
<1>4. /\ st \in Seq(Range(st)) /\ Len(st) \in Nat /\ DOMAIN st = 1 .. Len(st)
      /\ \A i \in DOMAIN st : st[i].kind = "layer" <=> i < Len(st)
  BY <1>2, <1>3, ServiceSends
<1>5. PICK r \in Nat : r = read[n] /\ r < Len(st)
  BY <1>0, <1>1, <1>3 DEF ImagesTyped, ServiceOk
<1>6. r + 1 \in DOMAIN st /\ Message(n) = st[r + 1] /\ Message(n) \in Range(st)
  <2>1. r + 1 \in DOMAIN st
    BY <1>4, <1>5
  <2> QED BY <1>3, <1>5, <2>1 DEF Message, Range
<1>7. CASE ServiceFails(n) /\ UNCHANGED read /\ Silent
  <2>1. puller' = [puller EXCEPT ![n] = "failed"] /\ puller'[n] = "failed" /\ UNCHANGED writerVars
    BY <1>0, <1>7 DEF ServiceFails, ImagesTyped, Silent
  <2>2. ServiceOk(n)'
    BY <2>1 DEF ServiceOk
  <2>3. Pulling => ShownOk(n)'
    BY <1>0, <1>1, <2>1 DEF ShownOk, Over, writerVars
  <2>4. "failed" \in PullerSteps \ {"none"}
    BY DEF PullerSteps
  <2> QED BY <1>1, <1>7, <2>1, <2>2, <2>3, <2>4, GoroutineSteps
<1>8. CASE Message(n).kind = "eof" /\ Ok(n, "read") /\ UNCHANGED read /\ Silent
  <2>1. puller' = [puller EXCEPT ![n] = "read"] /\ puller'[n] = "read" /\ UNCHANGED writerVars
    BY <1>0, <1>8 DEF Ok, ImagesTyped, Silent
  <2>2. r + 1 = Len(st) /\ st[Len(st)].kind = "eof"
    BY <1>4, <1>5, <1>6, <1>8
  <2>3. Read(n)'
    <3>1. st # <<>> /\ Last(st).kind = "eof" /\ r = Len(st) - 1
      BY <1>4, <1>5, <2>2 DEF Last
    <3> QED BY <1>2, <1>3, <1>5, <1>8, <3>1 DEF Read
  <2>4. ServiceOk(n)'
    BY <1>0, <1>1, <1>2, <2>1, <2>3 DEF ServiceOk
  <2>5. Pulling => ShownOk(n)'
    BY <1>0, <1>1, <2>1 DEF ShownOk, Over, writerVars
  <2>6. "read" \in PullerSteps \ {"none"}
    BY DEF PullerSteps
  <2> QED BY <1>1, <1>8, <2>1, <2>4, <2>5, <2>6, GoroutineSteps
<1>9. CASE /\ Message(n).kind = "layer"
           /\ read' = [read EXCEPT ![n] = @ + 1] /\ UNCHANGED <<puller, cancelled>>
           /\ IF Pulling THEN toPullProgressEvent(n, Message(n)) ELSE toPushProgressEvent(n, Message(n))
  <2>1. PICK jm : jm = Message(n)
    OBVIOUS
  <2>2. /\ UNCHANGED writerVars \/ \E R : R = Names /\ Told(L, M, R, n)
        /\ n \in DOMAIN events => n \in DOMAIN events' /\ events'[n] = events[n]
        /\ n \in DOMAIN events' => n \in DOMAIN events
        /\ drawn' = drawn
    BY <1>1, <1>3, <1>6, <1>9, <2>1, LayerTold
  <2>3. Pulling => ShownOk(n)'
    BY <1>0, <1>1, <1>9, <2>2 DEF ShownOk, Over
  <2>4. r + 1 < Len(st)
    BY <1>4, <1>6, <1>9
  <2>5. read' \in [Names -> Nat] /\ read'[n] = r + 1 /\ \A m \in Names : m # n => read'[m] = read[m]
    BY <1>0, <1>5, <1>9 DEF ImagesTyped
  <2>6. ServiceOk(n)'
    BY <1>0, <1>1, <1>2, <1>3, <1>9, <2>4, <2>5 DEF ServiceOk
  <2>7. imagesPc = "spawn"
    BY <1>1, GoroutineActive
  <2>8. spawned' \in 0 .. Len(Services) /\ puller' \in [Names -> PullerSteps] /\ \A i \in DOMAIN Services : i > spawned' => puller'[Services[i].name] = "none"
    BY <1>0, <1>1, <1>9 DEF ImagesTyped, ImagesInv, CommandOk
  <2> QED BY <1>1, <1>9, <2>2, <2>3, <2>5, <2>6, <2>7, <2>8, GoroutineKeeps
<1> QED BY <1>7, <1>8, <1>9 DEF Decode

(* A service that has nothing to pull is shown done at once; the others get a goroutine. *)
LEMMA SpawnKeeps ==
  ASSUME NEW L \in Nat \ {0, 1}, NEW M \in Nat, TextsWithin(L, M), ImagesInv(L, M), Spawn
  PROVE  ImagesInv(L, M)'
<1>0. ImagesTyped /\ CommandOk /\ LastOk /\ imageCase \in ImageCases
  BY DEF ImagesInv, ImagesTyped
<1>1. imagesPc = "spawn" /\ spawned' = spawned + 1 /\ spawned < Len(Services) /\ UNCHANGED <<imageCase, read, builds, imagesPc>>
  BY DEF Spawn
<1>2. /\ Services \in Seq(Range(Services)) /\ Len(Services) \in Nat /\ DOMAIN Services = 1 .. Len(Services)
      /\ \A s \in Range(Services) : s.name \in Names /\ Service(s.name) = s
  BY <1>0, ServiceOfName
<1>3. PICK i : i = spawned + 1
  OBVIOUS
<1>4. i \in DOMAIN Services /\ spawned' = i /\ spawned' \in 0 .. Len(Services) /\ i > spawned /\ spawned \in Nat
  BY <1>0, <1>1, <1>2, <1>3 DEF ImagesTyped
<1>5. PICK s : s = Services[i] /\ s \in Range(Services)
  BY <1>4 DEF Range
<1>6. PICK n \in Names : n = s.name /\ Service(n) = s
  BY <1>2, <1>5
<1>7. ServiceOk(n) /\ (Pulling => ShownOk(n)) /\ puller[n] = "none"
  BY <1>0, <1>4, <1>5, <1>6 DEF ImagesInv, ServicesOk, AllShown, CommandOk
<1>8. PICK x \in {"skipped", "begin"} : puller' = [puller EXCEPT ![n] = x] /\ (x = "skipped" <=> Skipped(s))
  BY <1>3, <1>5, <1>6 DEF Spawn
<1>9. puller \in [Names -> PullerSteps] /\ read \in [Names -> Nat]
  BY <1>0 DEF ImagesTyped
<1>10. puller' \in [Names -> PullerSteps] /\ puller'[n] = x /\ \A m \in Names : m # n => puller'[m] = puller[m]
  BY <1>8, <1>9 DEF PullerSteps
<1>11. Service(n)' = Service(n) /\ (Skipped(s)' <=> Skipped(s))
  BY <1>1, CaseKept
<1>12. ServiceOk(n)'
  BY <1>1, <1>6, <1>7, <1>8, <1>10, <1>11 DEF ServiceOk
<1>13. (UNCHANGED writerVars \/ \E R : R = Names /\ Told(L, M, R, n)) /\ (Pulling => ShownOk(n)')
  <2>1. CASE x = "skipped"
    <3>1. Event(NewEvent(n, NoParent, "Done", Service(n).text, 0))
      BY <1>3, <1>5, <1>6, <1>8, <2>1 DEF Spawn
    <3>2. /\ \E R : R = Names /\ Told(L, M, R, n)
          /\ n \in DOMAIN events' /\ events'[n].status = "Done" /\ drawn' = drawn
      BY <1>0, <3>1, ServiceTold
    <3> QED BY <1>10, <2>1, <3>2 DEF ShownOk, Over
  <2>2. CASE x = "begin"
    <3>1. UNCHANGED writerVars
      BY <1>3, <1>5, <1>6, <1>8, <2>2 DEF Spawn, Silent
    <3> QED BY <1>7, <1>10, <2>2, <3>1 DEF ShownOk, Over, writerVars
  <2> QED BY <1>8, <2>1, <2>2
<1>14. ASSUME NEW j \in DOMAIN Services, j > spawned' PROVE puller'[Services[j].name] = "none"
  <2>1. \A k, l \in DOMAIN Services : Services[k].name = Services[l].name => k = l
    BY <1>0, ImagesAssumption DEF Services
  <2>2. j \in Nat /\ j > spawned /\ j # i
    BY <1>2, <1>4, <1>14
  <2>3. Services[j].name # n /\ Services[j].name \in Names
    BY <1>2, <1>4, <1>5, <1>6, <2>1, <2>2 DEF Range
  <2> QED BY <1>0, <1>10, <2>2, <2>3 DEF CommandOk
<1> QED BY <1>1, <1>4, <1>9, <1>10, <1>12, <1>13, <1>14, GoroutineKeeps

(* A step of the command alone: goroutines and writer stay as they are. *)
LEMMA CommandAlone ==
  ASSUME NEW L \in Nat \ {0, 1}, NEW M \in Nat, ImagesInv(L, M), UNCHANGED <<imageCase, puller, read>>, UNCHANGED writerVars
  PROVE  ServicesOk' /\ AllShown' /\ WriterOk(L, M)'
<1>0. ServicesOk /\ AllShown /\ WriterOk(L, M)
  BY DEF ImagesInv
<1>1. /\ Names' = Names /\ (Pulling' <=> Pulling)
      /\ \A m : Service(m)' = Service(m)
      /\ \A s : Skipped(s)' <=> Skipped(s)
  BY CaseKept
<1>2. ServicesOk'
  BY <1>0, <1>1 DEF ServicesOk, ServiceOk, Read
<1>3. AllShown'
  BY <1>0, <1>1 DEF AllShown, ShownOk, writerVars
<1>4. WriterOk(L, M)'
  <2>1. PICK n : n = "none"
    OBVIOUS
  <2> QED BY <1>0, WriterKept
<1> QED BY <1>2, <1>3, <1>4

(* The command begins, or fails before any goroutine has. *)
LEMMA BeginImagesKeeps ==
  ASSUME NEW L \in Nat \ {0, 1}, NEW M \in Nat, ImagesInv(L, M), BeginImages
  PROVE  ImagesInv(L, M)'
<1>0. ImagesTyped /\ CommandOk /\ LastOk /\ BuildsOk
  BY DEF ImagesInv
<1>1. imagesPc = "start" /\ imagesPc' \in {"spawn", "failed"} /\ UNCHANGED <<imageCase, spawned, puller, read, present, builds>> /\ UNCHANGED writerVars
  BY DEF BeginImages, Silent
<1>2. Services' = Services /\ Names' = Names
  BY <1>1, CaseKept
<1>3. ServicesOk' /\ AllShown' /\ WriterOk(L, M)'
  BY <1>1, CommandAlone
<1>4. ImagesTyped'
  BY <1>0, <1>1, <1>2 DEF ImagesTyped, writerVars
<1>5. CommandOk'
  BY <1>0, <1>1, <1>2 DEF CommandOk
<1>6. LastOk'
  BY <1>0, <1>1 DEF LastOk, writerVars
<1>7. BuildsOk'
  BY <1>0, <1>1 DEF BuildsOk, CommandOk
<1> QED BY <1>3, <1>4, <1>5, <1>6, <1>7 DEF ImagesInv

(* eg.Wait returns when every goroutine has; without an error only when none has failed. *)
LEMMA WaitKeeps ==
  ASSUME NEW L \in Nat \ {0, 1}, NEW M \in Nat, ImagesInv(L, M), Wait
  PROVE  ImagesInv(L, M)'
<1>0. ImagesTyped /\ CommandOk /\ LastOk /\ BuildsOk
  BY DEF ImagesInv
<1>1. /\ imagesPc = "spawn" /\ imagesPc' \in {"ok", "failed"} /\ UNCHANGED <<imageCase, spawned, puller, read, present, builds>> /\ UNCHANGED writerVars
      /\ \A n \in Names : puller[n] \in {"skipped", "done", "failed"}
      /\ imagesPc' = "ok" => \A n \in Names : puller[n] # "failed"
  BY DEF Wait, Silent
<1>2. Services' = Services /\ Names' = Names
  BY <1>1, CaseKept
<1>3. ServicesOk' /\ AllShown' /\ WriterOk(L, M)'
  BY <1>1, CommandAlone
<1>4. ImagesTyped'
  BY <1>0, <1>1, <1>2 DEF ImagesTyped, writerVars
<1>5. CommandOk'
  <2>1. \A n \in Names' : puller'[n] \in Over \cup {"failed"} /\ (imagesPc' = "ok" => puller'[n] \in Over)
    BY <1>1, <1>2 DEF Over
  <2>2. \A i \in DOMAIN Services' : i > spawned' => puller'[Services'[i].name] = "none"
    BY <1>0, <1>1, <1>2 DEF CommandOk
  <2> QED BY <1>1, <2>1, <2>2 DEF CommandOk
<1>6. LastOk'
  BY <1>0, <1>1 DEF LastOk, writerVars
<1>7. BuildsOk'
  BY <1>0, <1>1 DEF BuildsOk, CommandOk
<1> QED BY <1>3, <1>4, <1>5, <1>6, <1>7 DEF ImagesInv

(* create and up set the pull policies. *)
LEMMA SetupKeeps ==
  ASSUME NEW L \in Nat \ {0, 1}, NEW M \in Nat, ImagesInv(L, M), setup
  PROVE  ImagesInv(L, M)'
<1>0. ImagesTyped /\ CommandOk /\ LastOk /\ BuildsOk
  BY DEF ImagesInv
<1>1. /\ imagesPc = "setup" /\ imagesPc' \in {"all", "ensure"} /\ UNCHANGED <<imageCase, spawned, puller, read, present, builds>> /\ UNCHANGED writerVars
      /\ (imagesPc' = "all" <=> imageCase.op = "build")
  BY DEF setup, Silent
<1>2. Services' = Services /\ Names' = Names /\ (OneKey' <=> OneKey)
  BY <1>1, CaseKept
<1>3. ServicesOk' /\ AllShown' /\ WriterOk(L, M)'
  BY <1>1, CommandAlone
<1>4. ImagesTyped'
  BY <1>0, <1>1, <1>2 DEF ImagesTyped, writerVars
<1>5. CommandOk'
  BY <1>0, <1>1, <1>2 DEF CommandOk
<1>6. LastOk'
  BY <1>0, <1>1 DEF LastOk, writerVars
<1>7. BuildsOk'
  BY <1>0, <1>1, <1>2 DEF BuildsOk, Key, getImageName
<1> QED BY <1>3, <1>4, <1>5, <1>6, <1>7 DEF ImagesInv

(* build makes its own list, of what is there too. *)
LEMMA BuildAllKeeps ==
  ASSUME NEW L \in Nat \ {0, 1}, NEW M \in Nat, ImagesInv(L, M), Build
  PROVE  ImagesInv(L, M)'
<1>0. ImagesTyped /\ CommandOk /\ LastOk
  BY DEF ImagesInv
<1>1. imagesPc = "all" /\ imagesPc' = "build" /\ UNCHANGED <<imageCase, spawned, puller, read, present>> /\ UNCHANGED writerVars
  BY DEF Build, Silent
<1>2. Services' = Services /\ Names' = Names
  BY <1>1, CaseKept
<1>3. ServicesOk' /\ AllShown' /\ WriterOk(L, M)'
  BY <1>1, CommandAlone
<1>4. ImagesTyped'
  BY <1>0, <1>1, <1>2 DEF ImagesTyped, writerVars
<1>5. CommandOk'
  BY <1>0, <1>1, <1>2 DEF CommandOk
<1>6. LastOk'
  BY <1>0, <1>1 DEF LastOk, writerVars
<1>7. BuildsOk'
  BY <1>0, <1>1 DEF BuildsOk, CommandOk
<1> QED BY <1>3, <1>4, <1>5, <1>6, <1>7 DEF ImagesInv

(* What was listed is there when all of it has been built. *)
LEMMA BuildKeeps ==
  ASSUME NEW L \in Nat \ {0, 1}, NEW M \in Nat, ImagesInv(L, M), build
  PROVE  ImagesInv(L, M)'
<1>0. ImagesTyped /\ CommandOk /\ LastOk /\ BuildsOk
  BY DEF ImagesInv
<1>1. /\ imagesPc = "build" /\ imagesPc' \in {"ok", "failed"} /\ UNCHANGED <<imageCase, spawned, puller, read, builds>> /\ UNCHANGED writerVars
      /\ imagesPc' = "ok" => present' = present \cup {toBuildOptions(builds[k]).tag : k \in DOMAIN builds}
  BY DEF build, Silent
<1>2. Services' = Services /\ Names' = Names /\ (OneKey' <=> OneKey)
  BY <1>1, CaseKept
<1>3. ServicesOk' /\ AllShown' /\ WriterOk(L, M)'
  BY <1>1, CommandAlone
<1>4. ImagesTyped'
  BY <1>0, <1>1, <1>2 DEF ImagesTyped, writerVars
<1>5. CommandOk'
  <2>1. \A n \in Names' : puller'[n] = "none"
    BY <1>0, <1>1, <1>2 DEF CommandOk
  <2>2. imageCase'.op \in {"ensure", "build"}
    BY <1>0, <1>1 DEF CommandOk
  <2>3. \A i \in DOMAIN Services' : i > spawned' => puller'[Services'[i].name] = "none"
    BY <1>0, <1>1, <1>2 DEF CommandOk
  <2> QED BY <1>1, <2>1, <2>2, <2>3 DEF CommandOk
<1>6. LastOk'
  BY <1>0, <1>1 DEF LastOk, writerVars
<1>7. BuildsOk'
  <2>1. SUFFICES ASSUME imageCase.op = "ensure", ~OneKey, imagesPc' = "ok", NEW s \in Range(Services) PROVE getImageName(s) \in present'
    BY <1>1, <1>2 DEF BuildsOk, getImageName
  <2>2. imageCase \in ImageCases
    BY <1>0 DEF ImagesTyped
  <2>3. PICK i \in 1 .. spawned : Services[i] = s
    <3>1. spawned = Len(Services) /\ DOMAIN Services = 1 .. Len(Services)
      BY <1>0, <1>1, <2>1, <2>2, ServiceOfName DEF BuildsOk
    <3> QED BY <3>1 DEF Range
  <2>4. getImageName(s) \in present \/ \E k \in DOMAIN builds : getImageName(builds[k]) = getImageName(s)
    BY <1>0, <1>1, <2>1, <2>3 DEF BuildsOk
  <2>5. \A b : toBuildOptions(b).tag = getImageName(b)
    BY DEF toBuildOptions
  <2> QED BY <1>1, <2>1, <2>4, <2>5
<1> QED BY <1>3, <1>4, <1>5, <1>6, <1>7 DEF ImagesInv

(* What is found to be missing is built or pulled, and takes the place of nothing else. *)
LEMMA EnsureGoesOn ==
  ASSUME NEW L \in Nat \ {0, 1}, NEW M \in Nat, ImagesInv(L, M), imagesPc = "ensure", imageCase.op = "ensure", ~OneKey, spawned < Len(Services),
         NEW s, s = Services[spawned + 1], spawned' = spawned + 1, UNCHANGED <<imageCase, present>>,
         builds' = IF Wanted(s) THEN [k \in DOMAIN builds \cup {Key(s)} |-> IF k = Key(s) THEN s ELSE builds[k]] ELSE builds
  PROVE  /\ \A k \in DOMAIN builds' : builds'[k] \in Range(Services) /\ Key(builds'[k]) = k
         /\ \A i \in 1 .. spawned' : getImageName(Services[i]) \in present
                      \/ \E k \in DOMAIN builds' : getImageName(builds'[k]) = getImageName(Services[i])
<1>0. ImagesTyped /\ imageCase \in ImageCases
  BY DEF ImagesInv, ImagesTyped
<1>1. /\ Len(Services) \in Nat /\ DOMAIN Services = 1 .. Len(Services)
      /\ \A a, b \in Range(Services) : a.name = b.name => a = b
  BY <1>0, ServiceOfName
<1>2. spawned \in Nat /\ spawned + 1 \in DOMAIN Services /\ s \in Range(Services)
  <2>1. spawned \in Nat /\ spawned + 1 \in DOMAIN Services
    BY <1>0, <1>1 DEF ImagesTyped
  <2> QED BY <2>1 DEF Range
<1>3. /\ \A k \in DOMAIN builds : builds[k] \in Range(Services) /\ Key(builds[k]) = k
      /\ \A i \in 1 .. spawned : getImageName(Services[i]) \in present
                      \/ \E k \in DOMAIN builds : getImageName(builds[k]) = getImageName(Services[i])
  BY DEF ImagesInv, BuildsOk
<1>4. \A i \in 1 .. spawned' : i \in 1 .. spawned \/ Services[i] = s
  BY <1>2
<1>5. CASE ~Wanted(s)
  <2>1. getImageName(s) \in present
    BY <1>5 DEF Wanted
  <2> QED BY <1>3, <1>4, <1>5, <2>1
<1>6. CASE Wanted(s)
  <2>1. PICK q : q = Key(s)
    OBVIOUS
  <2>2. builds' = [k \in DOMAIN builds \cup {q} |-> IF k = q THEN s ELSE builds[k]]
    BY <1>6, <2>1
  <2>3. \A k \in DOMAIN builds' : builds'[k] \in Range(Services) /\ Key(builds'[k]) = k
    BY <1>2, <1>3, <2>1, <2>2
  <2>4. ASSUME q \in DOMAIN builds PROVE getImageName(builds[q]) = getImageName(s)
    <3>1. PICK t \in Range(Services) : t = builds[q] /\ Key(t) = Key(s)
      BY <1>3, <2>1, <2>4
    <3>2. CASE s.build /\ t.build
      BY <3>1, <3>2 DEF Key
    <3>3. CASE ~s.build /\ ~t.build
      <4>1. s.name = t.name
        BY <3>1, <3>3 DEF Key
      <4> QED BY <1>1, <1>2, <3>1, <4>1
    <3>4. CASE s.build /\ ~t.build
      <4>1. getImageName(s) = t.name /\ s # t
        BY <3>1, <3>4 DEF Key
      <4> QED BY <1>2, <3>1, <3>4, <4>1 DEF OneKey
    <3>5. CASE ~s.build /\ t.build
      <4>1. getImageName(t) = s.name /\ s # t
        BY <3>1, <3>5 DEF Key
      <4> QED BY <1>2, <3>1, <3>5, <4>1 DEF OneKey
    <3> QED BY <3>2, <3>3, <3>4, <3>5
  <2>5. q \in DOMAIN builds' /\ builds'[q] = s /\ \A k \in DOMAIN builds : k \in DOMAIN builds' /\ getImageName(builds'[k]) = getImageName(builds[k])
    BY <2>2, <2>4
  <2>6. ASSUME NEW i \in 1 .. spawned'
        PROVE  getImageName(Services[i]) \in present \/ \E k \in DOMAIN builds' : getImageName(builds'[k]) = getImageName(Services[i])
    BY <1>3, <1>4, <2>5
  <2> QED BY <2>3, <2>6
<1> QED BY <1>5, <1>6

(* ensureImagesExists goes through the services, one at a time. *)
LEMMA EnsureKeeps ==
  ASSUME NEW L \in Nat \ {0, 1}, NEW M \in Nat, ImagesInv(L, M), ensureImagesExists
  PROVE  ImagesInv(L, M)'
<1>0. ImagesTyped /\ CommandOk /\ LastOk /\ BuildsOk /\ imageCase \in ImageCases
  BY DEF ImagesInv, ImagesTyped
<1>1. imagesPc = "ensure" /\ imagesPc' \in {"ensure", "build", "failed"} /\ UNCHANGED <<imageCase, puller, read, present>> /\ UNCHANGED writerVars
  BY DEF ensureImagesExists, Silent
<1>2. Services' = Services /\ Names' = Names /\ (OneKey' <=> OneKey)
  BY <1>1, CaseKept
<1>3. ServicesOk' /\ AllShown' /\ WriterOk(L, M)'
  BY <1>1, CommandAlone
<1>4. Len(Services) \in Nat /\ DOMAIN Services = 1 .. Len(Services)
  BY <1>0, ServiceOfName
<1>5. spawned' \in 0 .. Len(Services) /\ spawned' >= spawned /\ spawned \in 0 .. Len(Services)
  <2>1. spawned \in 0 .. Len(Services)
    BY <1>0 DEF ImagesTyped
  <2>2. (spawned = Len(Services) /\ spawned' = spawned) \/ (spawned # Len(Services) /\ spawned' = spawned + 1)
    BY DEF ensureImagesExists
  <2>0. PICK len \in Nat : len = Len(Services)
    BY <1>4
  <2>3. PICK k \in 0 .. len : k = spawned
    BY <2>0, <2>1
  <2>4. (k = len /\ spawned' = k) \/ (k # len /\ spawned' = k + 1)
    BY <2>0, <2>2, <2>3
  <2>5. spawned' \in 0 .. len /\ spawned' >= k
    BY <2>3, <2>4
  <2> QED BY <2>0, <2>1, <2>3, <2>5
<1>6. ImagesTyped'
  BY <1>0, <1>1, <1>2, <1>5 DEF ImagesTyped, writerVars
<1>7. CommandOk'
  <2>1. \A n \in Names' : puller'[n] = "none"
    BY <1>0, <1>1, <1>2 DEF CommandOk
  <2>2. imageCase'.op \in {"ensure", "build"}
    BY <1>0, <1>1 DEF CommandOk
  <2>3. \A i \in DOMAIN Services' : puller'[Services'[i].name] = "none"
    <3>1. \A i \in DOMAIN Services : Services[i].name \in Names
      BY DEF Names, Range
    <3> QED BY <1>2, <2>1, <3>1
  <2> QED BY <1>1, <2>1, <2>2, <2>3 DEF CommandOk
<1>8. LastOk'
  BY <1>0, <1>1 DEF LastOk, writerVars
<1>9. BuildsOk'
  <2>0. SUFFICES ASSUME imageCase.op = "ensure", ~OneKey, imagesPc' \in {"ensure", "build"}
                 PROVE  /\ \A k \in DOMAIN builds' : builds'[k] \in Range(Services) /\ Key(builds'[k]) = k
                        /\ \A i \in 1 .. spawned' : getImageName(Services[i]) \in present
                              \/ \E k \in DOMAIN builds' : getImageName(builds'[k]) = getImageName(Services[i])
                        /\ imagesPc' = "build" => spawned' = Len(Services)
    BY <1>1, <1>2 DEF BuildsOk, Key, getImageName
  <2>1. CASE spawned = Len(Services)
    <3>1. UNCHANGED <<spawned, builds>>
      BY <2>1 DEF ensureImagesExists
    <3>2. /\ \A k \in DOMAIN builds : builds[k] \in Range(Services) /\ Key(builds[k]) = k
          /\ \A i \in 1 .. spawned : getImageName(Services[i]) \in present
                      \/ \E k \in DOMAIN builds : getImageName(builds[k]) = getImageName(Services[i])
      BY <1>0, <1>1, <2>0 DEF BuildsOk
    <3> QED BY <2>1, <3>1, <3>2
  <2>2. CASE spawned # Len(Services)
    <3>1. PICK s : s = Services[spawned + 1]
      OBVIOUS
    <3>2. /\ spawned' = spawned + 1 /\ imagesPc' = imagesPc
          /\ builds' = IF Wanted(s) THEN [k \in DOMAIN builds \cup {Key(s)} |-> IF k = Key(s) THEN s ELSE builds[k]] ELSE builds
      BY <2>0, <2>2, <3>1 DEF ensureImagesExists
    <3>3. spawned < Len(Services)
      <4>1. PICK len \in Nat : len = Len(Services)
        BY <1>4
      <4>2. PICK k \in 0 .. len : k = spawned
        BY <1>5, <4>1
      <4>3. k # len => k < len
        OBVIOUS
      <4> QED BY <2>2, <4>1, <4>2, <4>3
    <3> QED BY <1>1, <2>0, <3>1, <3>2, <3>3, EnsureGoesOn
  <2> QED BY <2>1, <2>2
<1> QED BY <1>3, <1>6, <1>7, <1>8, <1>9 DEF ImagesInv

(* The writer draws, at its own time or for the last time. *)
LEMMA DrawKeeps ==
  ASSUME NEW L \in Nat \ {0, 1}, NEW M \in Nat, Roomy(L, M), ImagesInv(L, M), UNCHANGED imageVars, print, UNCHANGED <<eventIDs, events>>,
         writerPc' = writerPc \/ (writerPc' = "returned" /\ imagesPc \in {"ok", "failed"})
  PROVE  ImagesInv(L, M)'
<1>0. ImagesTyped /\ ServicesOk /\ AllShown /\ CommandOk /\ LastOk /\ BuildsOk /\ WriterOk(L, M)
  BY DEF ImagesInv
<1>1. UNCHANGED <<imageCase, spawned, puller, read, present, builds, imagesPc>>
  BY DEF imageVars
<1>2. /\ Services' = Services /\ Names' = Names /\ (Pulling' <=> Pulling) /\ (OneKey' <=> OneKey)
      /\ \A m : Service(m)' = Service(m)
      /\ \A s : Skipped(s)' <=> Skipped(s)
  BY <1>1, CaseKept
<1>3. PICK R : R = Names /\ EventsOk(L, M, R)
  BY <1>0 DEF WriterOk
<1>4. EventsOk(L, M, R)' /\ InPlace' /\ drawn' = [id \in DOMAIN events |-> events[id].status]
  BY <1>0, <1>3, PrintKeeps DEF LastOk, WriterOk
<1>5. WriterOk(L, M)'
  BY <1>0, <1>2, <1>3, <1>4 DEF WriterOk, EndsKnown
<1>6. ImagesTyped'
  BY <1>0, <1>1, <1>2 DEF ImagesTyped
<1>7. ServicesOk'
  BY <1>0, <1>1, <1>2 DEF ServicesOk, ServiceOk, Read
<1>8. AllShown'
  BY <1>0, <1>1, <1>2, <1>4 DEF AllShown, ShownOk
<1>9. CommandOk'
  BY <1>0, <1>1, <1>2 DEF CommandOk
<1>10. LastOk'
  <2>1. eventIDs' = <<>> => drawn' = NoEvents
    BY <1>0 DEF LastOk, print
  <2> QED BY <1>0, <1>1, <1>4, <2>1 DEF LastOk
<1>11. BuildsOk'
  BY <1>0, <1>1, <1>2 DEF BuildsOk, Key, getImageName
<1> QED BY <1>5, <1>6, <1>7, <1>8, <1>9, <1>10, <1>11 DEF ImagesInv

(* Every step of a command on images, and of the writer, keeps the invariant. *)
LEMMA ImagesStep ==
  ASSUME NEW L \in Nat \ {0, 1}, NEW M \in Nat, Roomy(L, M), TextsWithin(L, M), ImagesInv(L, M), [ImagesNext]_<<imageVars, writerVars>>
  PROVE  ImagesInv(L, M)'
<1>1. CASE BeginImages
  BY <1>1, BeginImagesKeeps
<1>2. CASE Spawn
  BY <1>2, SpawnKeeps
<1>3. CASE Wait
  BY <1>3, WaitKeeps
<1>4. CASE RunStop
  BY <1>4, DrawKeeps DEF RunStop, StopReceived
<1>5. CASE Redraw
  BY <1>5, DrawKeeps DEF Redraw, Tick
<1>6. CASE \E n \in DOMAIN puller : ServiceStep(n)
  <2>1. PICK n \in Names : ServiceStep(n)
    BY <1>6 DEF ImagesInv, ImagesTyped
  <2> QED BY <2>1, BeginServiceKeeps, AuthorizeKeeps, AskKeeps, DecodeKeeps, PulledKeeps DEF ServiceStep
<1>7. CASE setup
  BY <1>7, SetupKeeps
<1>8. CASE ensureImagesExists
  BY <1>8, EnsureKeeps
<1>9. CASE Build
  BY <1>9, BuildAllKeeps
<1>10. CASE build
  BY <1>10, BuildKeeps
<1>11. CASE UNCHANGED <<imageVars, writerVars>>
  <2>1. UNCHANGED <<imageCase, spawned, puller, read, present, builds, imagesPc>> /\ UNCHANGED writerVars
    BY <1>11 DEF imageVars
  <2>2. /\ Services' = Services /\ Names' = Names /\ (OneKey' <=> OneKey)
    BY <2>1, CaseKept
  <2>3. ServicesOk' /\ AllShown' /\ WriterOk(L, M)'
    BY <2>1, CommandAlone
  <2>4. ImagesTyped' /\ CommandOk' /\ LastOk'
    BY <2>1, <2>2 DEF ImagesInv, ImagesTyped, CommandOk, LastOk, writerVars
  <2>5. BuildsOk'
    BY <2>1, <2>2 DEF ImagesInv, BuildsOk, Key, getImageName
  <2> QED BY <2>3, <2>4, <2>5 DEF ImagesInv
<1> QED BY <1>1, <1>2, <1>3, <1>4, <1>5, <1>6, <1>7, <1>8, <1>9, <1>10, <1>11 DEF ImagesNext, ImagesDone

(***************************************************************************)
(* What a pull, a push or a build reports and draws is what happened to    *)
(* every service, in any project, with any streams, in every order of its  *)
(* goroutines, their failures and the writer's drawings (Pull, Push,       *)
(* ensureImagesExists, print). Drawings stay in place on a terminal that   *)
(* is wide enough for the texts of this project, and for its times.        *)
(***************************************************************************)
THEOREM PullsAreRight ==
  ASSUME NEW L \in Nat \ {0, 1}, NEW M \in Nat, Roomy(L, M), TextsWithin(L, M)
  PROVE  ImagesSpec => []PulledRight
<1>1. ImagesInit => ImagesInv(L, M)
  BY ImagesBegin
<1>2. ImagesInv(L, M) /\ [ImagesNext]_<<imageVars, writerVars>> => ImagesInv(L, M)'
  BY ImagesStep
<1>3. ImagesInv(L, M) => PulledRight
  BY ImagesInvGives
<1> QED BY <1>1, <1>2, <1>3, PTL DEF ImagesSpec
=============================================================================
