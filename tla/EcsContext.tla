----------------------------- MODULE EcsContext -----------------------------
(***************************************************************************)
(* Contexts for ECS: how one is created from environment variables, keys,  *)
(* a profile or by questions, what that saves in the AWS files, and the    *)
(* region and profile the backend takes from them when it is used.         *)
(* A file is a function from its sections; None is what is not set, an     *)
(* empty string in the code.                                               *)
(***************************************************************************)
EXTENDS Naturals, Sequences, FiniteSets

CONSTANTS Profiles,     \* names of profiles in lower case, "default" among them
          Regions,
          Environments, \* the variables of the process
          Options       \* what context create is given

None == "none"
KeyFiles == {None, "given", "empty", "unreadable"}   \* --access-keys: a file with keys, with empty ones, with none
FileNames == {"credentials", "home", "env"}
Sections == { <<p>> : p \in Profiles } \cup { <<"profile", p>> : p \in Profiles }

ASSUME ContextAssumption ==
    /\ "default" \in Profiles /\ None \notin Profiles \cup Regions /\ Regions \subseteq STRING
    /\ Options \subseteq [fromEnv : BOOLEAN, keys : KeyFiles, profile : Profiles \cup {None}, region : {None}]

VARIABLES files,        \* "credentials", "home" and "env": a sequence of at most one file
          environ,      \* the environment variables
          create,       \* the creation: its options, its program counter and the files before it
          ecsCtx,       \* the context made: a sequence of at most one
          used          \* the region and profile of the session

contextVars == <<files, environ, create, ecsCtx, used>>

At(pc) == create.pc = pc
To(pc) == create' = [create EXCEPT !.pc = pc]

getAWSConfigFile == IF environ.configFile THEN "env" ELSE "home"
Load(f) == IF files[f] = <<>> THEN <<>> ELSE files[f][1]

(* Mutant: the file is always begun anew. *)
Save_Anew(f, section, value) == files' = [files EXCEPT ![f] = << [s \in {section} |-> value] >>]

Save(f, section, value) == files' = [files EXCEPT ![f] = << [s \in DOMAIN Load(f) \cup {section} |->
                                                              IF s = section THEN value ELSE Load(f)[s]] >>]

(***************************************************************************)
(* The names of both files' sections, in lower case. The library has an    *)
(* empty section DEFAULT in every file, which only the credentials show.   *)
(***************************************************************************)
loadIniFile(f, prefix) ==
    IF files[f] = <<>> THEN {}
    ELSE IF prefix THEN { p \in Profiles : <<"profile", p>> \in DOMAIN Load(f) } \cup {p \in {"default"} : <<p>> \in DOMAIN Load(f)}
    ELSE { p \in Profiles : <<p>> \in DOMAIN Load(f) } \cup {"default"}
getProfiles == loadIniFile("credentials", FALSE) \cup loadIniFile(getAWSConfigFile, TRUE)

-----------------------------------------------------------------------------
(* The flags exclude one another; none gives a region. *)
createEcsCommand ==
    /\ At("flags")
    /\ LET o == create.opts
           refused == \/ o.keys = "unreadable"
                      \/ o.fromEnv /\ o.profile # None
                      \/ o.keys # None /\ (o.profile # None \/ o.fromEnv)
       IN  To(IF refused THEN "failed" ELSE "start")
    /\ UNCHANGED <<files, environ, ecsCtx, used>>

(* createContextData: which of the four ways. *)

ByEnvironment == create.opts.fromEnv
ByKeys == ~ByEnvironment /\ create.opts.keys = "given"
ByProfile == ~ByEnvironment /\ ~ByKeys /\ create.opts.profile # None

createContextData ==
    /\ At("start")
    /\ \/ ByEnvironment /\ To("context")
       \/ ByKeys /\ To("region")
       \/ ByProfile /\ To(IF create.opts.profile \in getProfiles THEN "context" ELSE "failed")
       \/ ~ByEnvironment /\ ~ByKeys /\ ~ByProfile /\ To("select")
    /\ UNCHANGED <<files, environ, ecsCtx, used>>

(* The questions; a profile only when there is a configuration file. *)
Select ==
    /\ At("select")
    /\ \/ files[getAWSConfigFile] # <<>> /\ To("profile")
       \/ To("keys")
       \/ create' = [create EXCEPT !.opts.fromEnv = TRUE, !.pc = "context"]
       \/ To("failed")
    /\ UNCHANGED <<files, environ, ecsCtx, used>>

chooseProfile ==
    /\ At("profile")
    /\ \/ \E p \in getProfiles : create' = [create EXCEPT !.opts.profile = p, !.pc = "context"]
       \/ To("failed")
    /\ UNCHANGED <<files, environ, ecsCtx, used>>

(* Keys that are too short are refused. *)
askCredentials ==
    /\ At("keys")
    /\ \/ create' = [create EXCEPT !.opts.keys = "asked", !.pc = "region"]
       \/ To("failed")
    /\ UNCHANGED <<files, environ, ecsCtx, used>>

(* The regions are asked of AWS, with the keys. *)
chooseRegion ==
    /\ At("region")
    /\ \/ \E r \in Regions : create' = [create EXCEPT !.opts.region = r, !.pc = "save"]
       \/ To("failed")
    /\ UNCHANGED <<files, environ, ecsCtx, used>>

Profile == IF create.opts.profile = None THEN "default" ELSE create.opts.profile

saveCredentials ==
    /\ At("save")
    /\ \/ /\ Save("credentials", <<Profile>>, create.opts.keys)
          /\ create' = [create EXCEPT !.opts.profile = Profile, !.pc = "saveRegion"]
       \/ To("failed") /\ UNCHANGED files
    /\ UNCHANGED <<environ, ecsCtx, used>>

RegionSection(p) == <<"profile", p>>

(* The keys stay when the region cannot be saved. *)
saveRegion ==
    /\ At("saveRegion")
    /\ \/ Save(getAWSConfigFile, RegionSection(create.opts.profile), create.opts.region) /\ To("context")
       \/ To("failed") /\ UNCHANGED files
    /\ UNCHANGED <<environ, ecsCtx, used>>

createContext ==
    /\ At("context")
    /\ ecsCtx' = << [fromEnv |-> create.opts.fromEnv, profile |-> create.opts.profile] >>
    /\ To("created")
    /\ UNCHANGED <<files, environ, used>>

-----------------------------------------------------------------------------
(* The backend: profile and region, from the environment or the files. *)

getEnvVars == [profile |-> environ.profile, keys |-> environ.keys,
               region |-> CHOOSE r \in {environ.region, environ.defaultRegion, "us-east-1"} :
                            \/ r = environ.region /\ r # None
                            \/ r = environ.defaultRegion /\ r # None /\ environ.region = None
                            \/ r = "us-east-1" /\ environ.region = None /\ environ.defaultRegion = None]
haveRequiredEnvVars == getEnvVars.profile # None \/ getEnvVars.keys # None

(* Always the file in the home directory; its default section is the fallback. *)
getProfileRegion(fs, section) == IF fs["home"] # <<>> /\ section \in DOMAIN fs["home"][1] THEN fs["home"][1][section] ELSE None
RegionIn(fs, p) ==
    LET own      == getProfileRegion(fs, IF p \in {None, "default"} THEN <<"default">> ELSE <<"profile", p>>)
        fallback == getProfileRegion(fs, <<"default">>)
    IN  IF own # None THEN own ELSE IF fallback # None THEN fallback ELSE "us-east-1"
getRegion(p) == RegionIn(files, p)

getEcsAPIService ==
    /\ At("created")
    /\ LET ctx == ecsCtx[1]
           p   == IF ctx.fromEnv THEN getEnvVars.profile ELSE ctx.profile
       IN  IF ctx.fromEnv /\ ~haveRequiredEnvVars THEN To("refused") /\ UNCHANGED used
           ELSE /\ used' = << [profile |-> p, region |-> IF ctx.fromEnv THEN getEnvVars.region ELSE getRegion(p)] >>
                /\ To("used")
    /\ UNCHANGED <<files, environ, ecsCtx>>

-----------------------------------------------------------------------------
(* The files of an earlier configuration, or none. *)
Single(section, value) == << [s \in {section} |-> value] >>
Earlier(section) == { <<>>, Single(section, CHOOSE r \in Regions : TRUE) }

ContextInit ==
    /\ \E c \in { <<>>, Single(<<"default">>, "old") }, h, e \in UNION { Earlier(s) : s \in Sections } :
         files = [f \in FileNames |-> CASE f = "credentials" -> c [] f = "home" -> h [] f = "env" -> e]
    /\ environ \in Environments
    /\ \E o \in Options : create = [pc |-> "flags", opts |-> o, before |-> files]
    /\ ecsCtx = <<>>
    /\ used = <<>>

ContextIdle ==
    /\ files = [f \in FileNames |-> <<>>]
    /\ environ = (CHOOSE e \in Environments : TRUE)
    /\ create = [pc |-> "failed", opts |-> CHOOSE o \in Options : TRUE, before |-> files]
    /\ ecsCtx = <<>>
    /\ used = <<>>

ContextNext == \/ createEcsCommand
               \/ createContextData
               \/ Select
               \/ chooseProfile
               \/ askCredentials
               \/ chooseRegion
               \/ saveCredentials
               \/ saveRegion
               \/ createContext
               \/ getEcsAPIService

ContextSpec == ContextInit /\ [][ContextNext]_contextVars

-----------------------------------------------------------------------------
(* Properties. *)

(***************************************************************************)
(* The keys that were given or asked for are those of the profile which    *)
(* the backend then uses, and this profile is always "default": the flags  *)
(* refuse another (createEcsCommand, saveCredentials).                     *)
(***************************************************************************)
SavedIsUsed ==
    At("used") /\ create.opts.keys \in {"given", "asked"} /\ ~create.opts.fromEnv
      => /\ used[1].profile = "default"
         /\ files["credentials"][1][<<"default">>] = create.opts.keys

(***************************************************************************)
(* A creation takes nothing from the files and changes only the keys of    *)
(* "default" in them, and a region that is written: also when it fails     *)
(* between the two files (saveCredentials, saveRegion).                    *)
(***************************************************************************)
OthersKept ==
    \A f \in FileNames : create.before[f] # <<>> =>
      /\ files[f] # <<>>
      /\ \A s \in DOMAIN create.before[f][1] :
           /\ s \in DOMAIN files[f][1]
           /\ files[f][1][s] # create.before[f][1][s] =>
                \/ f = "credentials" /\ s = <<"default">>
                \/ f = getAWSConfigFile /\ s = <<"profile", "default">>

(***************************************************************************)
(* No creation changes the region of any profile, nor does the one chosen  *)
(* for the keys become that of "default": it is saved under                *)
(* [profile default], where getRegion never looks (saveRegion, getRegion). *)
(***************************************************************************)
RegionsStay == \A p \in Profiles \cup {None} : getRegion(p) = RegionIn(create.before, p)

(* A context made from a profile is one of a profile the files have. *)
ProfileExists ==
    ecsCtx # <<>> /\ ~ecsCtx[1].fromEnv => ecsCtx[1].profile \in getProfiles

(***************************************************************************)
(* What the creation of a context saved is what a later command uses, as   *)
(* far as the code goes: the keys, for the profile "default"; the region   *)
(* is that of the files before, and the other profiles stay as they were   *)
(* (createContextData, getEcsAPIService).                                  *)
(***************************************************************************)
ContextUsable == SavedIsUsed /\ OthersKept /\ RegionsStay /\ ProfileExists
=============================================================================
