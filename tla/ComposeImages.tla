--------------------------- MODULE ComposeImages ---------------------------
(***************************************************************************)
(* Pull and push, inside progress.Run: a goroutine for each service reads  *)
(* the messages of a stream of the Docker engine, the first error cancels  *)
(* the others; and the images that create and up make sure of. A stream is *)
(* the sequence of messages the engine will send, its last one an end of   *)
(* file or an error. Registry and engine are external.                     *)
(***************************************************************************)
EXTENDS ProgressWriter

CONSTANTS ImageCases      \* a pull, a push, or the images of a project to make sure of

NoImage == "no image"

(***************************************************************************)
(* The services of a project have names of their own, which are not ids of *)
(* layers. A stream ends with an end of file or an error. A line begins    *)
(* with an id and a space, and a layer that is complete has no progress.   *)
(***************************************************************************)
ASSUME ImagesAssumption ==
    \A case \in ImageCases :
        /\ case.op \in {"pull", "push", "ensure", "build"}
        /\ case.services \in Seq(Range(case.services))
        /\ \A i, j \in DOMAIN case.services : case.services[i].name = case.services[j].name => i = j
        /\ \A s \in Range(case.services) :
              /\ s.stream \in Seq(Range(s.stream)) /\ s.text \in Nat \ {0, 1}
              /\ \A i \in DOMAIN s.stream : s.stream[i].kind = "layer" <=> i < Len(s.stream)
              /\ \A jm \in Range(s.stream) :
                    /\ jm.kind \in {"layer", "eof", "error"} /\ jm.text \in Nat \ {0, 1} /\ jm.note \in Nat
                    /\ \A t \in Range(case.services) : jm.id # t.name
                    /\ jm.status = "complete" => jm.note = 0

VARIABLES imageCase,
          spawned,        \* the services the command has gone through
          puller,         \* service -> the step of its goroutine
          read,           \* service -> the messages read
          cancelled,      \* the errgroup's context
          present,        \* the images the engine has
          builds,         \* what is to be built or pulled, by key
          imagesPc        \* the command

imageVars == <<imageCase, spawned, puller, read, cancelled, present, builds, imagesPc>>

Services == imageCase.services
Names == { s.name : s \in Range(Services) }
Service(n) == CHOOSE s \in Range(Services) : s.name = n

ImagesInit ==
    /\ imageCase \in ImageCases
    /\ spawned = 0
    /\ puller = [n \in Names |-> "none"]
    /\ read = [n \in Names |-> 0]
    /\ cancelled = FALSE
    /\ present = imageCase.present
    /\ builds = NoEvents
    /\ imagesPc = IF imageCase.op \in {"ensure", "build"} THEN "setup" ELSE "start"
    /\ IF imageCase.op \in {"ensure", "build"} THEN WriterOff ELSE WriterInit

NoImageCase == [op |-> "", services |-> <<>>]

ImagesIdle ==
    /\ imageCase = NoImageCase /\ spawned = 0 /\ puller = NoEvents /\ read = NoEvents /\ cancelled = FALSE
    /\ present = {} /\ builds = NoEvents /\ imagesPc = "idle" /\ WriterOff

Pulling == imageCase.op = "pull"
Silent == UNCHANGED writerVars

-----------------------------------------------------------------------------
(* The configuration is loaded and the engine asked for its index server. *)
BeginImages ==
    /\ imagesPc = "start"
    /\ imagesPc' = IF imageCase.answers THEN "spawn" ELSE "failed"
    /\ UNCHANGED <<imageCase, spawned, puller, read, cancelled, present, builds>> /\ Silent

Skipped(s) == s.image = NoImage \/ (~Pulling /\ ~s.build)

(* One goroutine for each service that has an image. *)
Spawn ==
    /\ imagesPc = "spawn"
    /\ spawned < Len(Services)
    /\ spawned' = spawned + 1
    /\ LET s == Services[spawned + 1] IN
       IF Skipped(s)
       THEN Event(NewEvent(s.name, NoParent, "Done", s.text, 0)) /\ puller' = [puller EXCEPT ![s.name] = "skipped"]
       ELSE Silent /\ puller' = [puller EXCEPT ![s.name] = "begin"]
    /\ UNCHANGED <<imageCase, read, cancelled, present, builds, imagesPc>>

(* The first error cancels the context of the others. *)
ServiceFails(n) ==
    /\ puller' = [puller EXCEPT ![n] = "failed"]
    /\ cancelled' = TRUE
Ok(n, step) == puller' = [puller EXCEPT ![n] = step] /\ UNCHANGED cancelled

(* Pull says so, push does not. *)
BeginService(n) ==
    /\ puller[n] = "begin"
    /\ Ok(n, "auth")
    /\ IF Pulling THEN Event(NewEvent(n, NoParent, "Working", Service(n).text, 0)) ELSE Silent
    /\ UNCHANGED <<imageCase, spawned, read, present, builds, imagesPc>>

(* An image that is no reference, or has no credentials, fails without a word. *)
Authorize(n) ==
    /\ puller[n] = "auth"
    /\ IF Service(n).valid THEN Ok(n, "ask") ELSE ServiceFails(n)
    /\ UNCHANGED <<imageCase, spawned, read, present, builds, imagesPc>> /\ Silent

Ask(n) ==
    /\ puller[n] = "ask"
    /\ \/ ~cancelled /\ Service(n).stream # <<>> /\ Ok(n, "stream") /\ Silent
       \/ /\ cancelled \/ Service(n).stream = <<>>
          /\ ServiceFails(n)
          /\ IF Pulling THEN Event(NewEvent(n, NoParent, "Error", Service(n).text, 0)) ELSE Silent
    /\ UNCHANGED <<imageCase, spawned, read, present, builds, imagesPc>>

(* A layer is a line below its service; two services with one layer share its line. *)
toPullProgressEvent(n, jm) ==
    IF jm.progress THEN Event(NewEvent(jm.id, n, IF jm.status = "complete" THEN "Done" ELSE "Working", jm.text, jm.note)) ELSE Silent

toPushProgressEvent(n, jm) ==
    Event(NewEvent(jm.id, NoParent, IF jm.status = "complete" THEN "Done" ELSE "Working", jm.text, IF jm.progress THEN jm.note ELSE 0))

Message(n) == Service(n).stream[read[n] + 1]

(* Mutant: what cannot be decoded is taken for the end. *)
Decode_AnyEnd(n) ==
    /\ puller[n] = "stream"
    /\ LET jm == Message(n) IN
       CASE jm.kind \in {"eof", "error"} \/ cancelled -> Ok(n, "read") /\ UNCHANGED read /\ Silent
         [] OTHER -> /\ read' = [read EXCEPT ![n] = @ + 1] /\ UNCHANGED <<puller, cancelled>>
                     /\ IF Pulling THEN toPullProgressEvent(n, jm) ELSE toPushProgressEvent(n, jm)
    /\ UNCHANGED <<imageCase, spawned, present, builds, imagesPc>>

Decode(n) ==
    /\ puller[n] = "stream"
    /\ LET jm == Message(n) IN
       \/ cancelled /\ ServiceFails(n) /\ UNCHANGED read /\ Silent
       \/ jm.kind = "error" /\ ServiceFails(n) /\ UNCHANGED read /\ Silent
       \/ jm.kind = "eof" /\ Ok(n, "read") /\ UNCHANGED read /\ Silent
       \/ /\ jm.kind = "layer"
          /\ read' = [read EXCEPT ![n] = @ + 1] /\ UNCHANGED <<puller, cancelled>>
          /\ IF Pulling THEN toPullProgressEvent(n, jm) ELSE toPushProgressEvent(n, jm)
    /\ UNCHANGED <<imageCase, spawned, present, builds, imagesPc>>

Pulled(n) ==
    /\ puller[n] = "read"
    /\ Ok(n, "done")
    /\ IF Pulling THEN Event(NewEvent(n, NoParent, "Done", Service(n).text, 0)) ELSE Silent
    /\ present' = present \cup {Service(n).image}
    /\ UNCHANGED <<imageCase, spawned, read, builds, imagesPc>>

Wait ==
    /\ imagesPc = "spawn" /\ spawned = Len(Services)
    /\ \A n \in Names : puller[n] \in {"skipped", "done", "failed"}
    /\ imagesPc' = IF \E n \in Names : puller[n] = "failed" THEN "failed" ELSE "ok"
    /\ UNCHANGED <<imageCase, spawned, puller, read, cancelled, present, builds>> /\ Silent

(* progress.Run: Stop is deferred, and returns once the writer has received it. *)
RunStop ==
    /\ imagesPc \in {"ok", "failed"}
    /\ StopReceived
    /\ UNCHANGED imageVars

Redraw == imagesPc \in {"spawn", "ok", "failed"} /\ Tick /\ UNCHANGED imageVars

-----------------------------------------------------------------------------
(***************************************************************************)
(* The images of create and up. The pull policy of --build is set on a     *)
(* copy of each service.                                                   *)
(***************************************************************************)
setup ==
    /\ imagesPc = "setup"
    /\ imagesPc' = IF imageCase.op = "build" THEN "all" ELSE "ensure"
    /\ UNCHANGED <<imageCase, spawned, puller, read, cancelled, present, builds>> /\ Silent

(* The image of the project's name and the service's (own), where the service names none. *)
getImageName(s) == IF s.image # NoImage THEN s.image ELSE s.own
PullPolicyBuild(s) == FALSE

Wanted(s) ==
    LET here == getImageName(s) \in present
    IN  ~(s.image # NoImage /\ here) /\ ~(s.build /\ here /\ ~PullPolicyBuild(s))

(* An image is built under its own name, and pulled under its service's. *)
Key(s) == IF s.build THEN getImageName(s) ELSE s.name

(* A service with neither fails; so does one whose image the engine cannot be asked about. *)
ensureImagesExists ==
    /\ imagesPc = "ensure"
    /\ IF spawned = Len(Services) THEN imagesPc' = "build" /\ UNCHANGED <<spawned, builds>>
       ELSE LET s == Services[spawned + 1] IN
            /\ spawned' = spawned + 1
            /\ \/ imagesPc' = "failed" /\ UNCHANGED builds
               \/ /\ s.image # NoImage \/ s.build
                  /\ builds' = IF Wanted(s) THEN [k \in DOMAIN builds \cup {Key(s)} |-> IF k = Key(s) THEN s ELSE builds[k]] ELSE builds
                  /\ UNCHANGED imagesPc
    /\ UNCHANGED <<imageCase, puller, read, cancelled, present>> /\ Silent

(* Arguments without a value are left out. *)
flatten(args) == [k \in { x \in DOMAIN args : args[x] # <<>> } |-> args[k][1]]
mergeArgs(args, values) == [k \in DOMAIN args |-> IF k \notin DOMAIN values THEN args[k] ELSE IF values[k] = "" THEN <<>> ELSE <<values[k]>>]
toBuildOptions(s) == [tag |-> getImageName(s), args |-> flatten(mergeArgs(s.args, NoEvents))]

(* The command build: whatever can be built is, present or not. *)
Build ==
    /\ imagesPc = "all"
    /\ builds' = [k \in { getImageName(s) : s \in { x \in Range(Services) : x.build } } |->
                    Last(SelectSeq(Services, LAMBDA s : s.build /\ getImageName(s) = k))]
    /\ imagesPc' = "build"
    /\ UNCHANGED <<imageCase, spawned, puller, read, cancelled, present>> /\ Silent

(* What is built is tagged; one that cannot be fails them all. *)
build ==
    /\ imagesPc = "build"
    /\ \/ /\ present' = present \cup { toBuildOptions(builds[k]).tag : k \in DOMAIN builds }
          /\ imagesPc' = "ok"
       \/ \E done \in SUBSET DOMAIN builds :
            /\ done # DOMAIN builds
            /\ present' = present \cup { toBuildOptions(builds[k]).tag : k \in done }
            /\ imagesPc' = "failed"
    /\ UNCHANGED <<imageCase, spawned, puller, read, cancelled, builds>> /\ Silent

ServiceStep(n) == BeginService(n) \/ Authorize(n) \/ Ask(n) \/ Decode(n) \/ Pulled(n)

ImagesDone ==
    /\ imagesPc \in {"ok", "failed"} /\ writerPc # "loop"
    /\ UNCHANGED <<imageVars, writerVars>>

ImagesNext ==
    \/ BeginImages \/ Spawn \/ Wait \/ RunStop \/ Redraw
    \/ \E n \in DOMAIN puller : ServiceStep(n)
    \/ setup \/ ensureImagesExists \/ Build \/ build
    \/ ImagesDone

ImagesSpec == ImagesInit /\ [][ImagesNext]_<<imageVars, writerVars>>

-----------------------------------------------------------------------------
(* Read(n): the goroutine of n has read its stream to the end of file. *)
Read(n) == Service(n).stream # <<>> /\ Last(Service(n).stream).kind = "eof" /\ read[n] = Len(Service(n).stream) - 1

(***************************************************************************)
(* A pull or a push that reports success has read every service's stream   *)
(* to its end, and the last drawing shows each service of a pull done      *)
(* (Pull, Push, eg.Wait).                                                  *)
(***************************************************************************)
SuccessIsPulled ==
    imagesPc = "ok" /\ imageCase.op \in {"pull", "push"} => \A n \in Names :
        /\ ~Skipped(Service(n)) => Service(n).valid /\ Read(n)
        /\ Pulling => events[n].status = "Done"

(* A service drawn as done has been pulled to the end, or has nothing to pull: neither its own failure nor another's shows it so (Pull). *)
DoneIsPulled ==
    Pulling => \A n \in Names \cap DOMAIN drawn : drawn[n] = "Done" => puller[n] = "skipped" \/ (puller[n] = "done" /\ Read(n))

OneKey == \E s, t \in Range(Services) : s # t /\ s.build /\ ~t.build /\ getImageName(s) = t.name

(***************************************************************************)
(* Once ensureImagesExists has succeeded the image of every service is     *)
(* there, unless a service has the name of an image another one builds:    *)
(* they have one key, and the later one is built alone.                    *)
(***************************************************************************)
ImagesReady ==
    imageCase.op = "ensure" /\ imagesPc = "ok" /\ ~OneKey => \A s \in Range(Services) : getImageName(s) \in present

(***************************************************************************)
(* What a pull, push or build reports and draws is what happened to every  *)
(* service, though one may fail while others go on and the writer draws at *)
(* its own times (Pull, ensureImagesExists, Run).                          *)
(***************************************************************************)
PulledRight ==
    /\ SuccessIsPulled
    /\ DoneIsPulled
    /\ ImagesReady
    /\ DrawnInPlace
    /\ LastIsDrawn
    /\ EndsKnown
=============================================================================
