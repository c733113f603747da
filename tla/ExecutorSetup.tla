---------------------------- MODULE ExecutorSetup ----------------------------
(***************************************************************************)
(* From the start of the API process to the verdict on one task: main.go   *)
(* puts the seccomp profile in place, file by file, and chooses an         *)
(* executor; the executor then works out the limits of each task and       *)
(* refuses what does not fit its configuration.                            *)
(*                                                                         *)
(* Every file operation may fail and the process may be killed between any *)
(* two of them; the files survive.  No failure stops the start: main.go    *)
(* logs a warning and goes on.                                             *)
(***************************************************************************)
EXTENDS Integers, Sequences

CONSTANTS
  Preferred,      \* the candidates for the directory of the profile, in order
  Fallback,       \* the candidate under os.TempDir(), used when all others fail
  Dirs,           \* these and the directories that the profile may be configured in
  Configs,        \* the executor configurations
  ServiceLimits,  \* the limits that the task executor service hard-codes
  Priorities, Timeouts  \* of the tasks the API accepts

\* memory .. timeout: the defaults.  maxMemory .. maxTimeout: the security caps.
\* images: the script types whose image is on the white list.  safeUser: the
\* user is UID:GID and neither is 0.  seccomp: EnableSeccomp.  dir: the directory
\* of SeccompProfilePath, its file name being the one the profile is made under.
ConfigType ==
  [memory : Int, cpu : Int, pids : Int, timeout : Int,
   maxMemory : Int, maxCPU : Int, maxPids : Int, maxTimeout : Int,
   images : SUBSET {"python", "bash", "javascript", "go"},
   safeUser : BOOLEAN, seccomp : BOOLEAN, dir : Dirs]

LimitsType == [memory : Int, cpu : Int, pids : Int, timeout : Int]

Candidates == Append(Preferred, Fallback)

ASSUME DirsAssumption ==
  /\ Preferred \in Seq(Dirs)
  /\ Fallback \in Dirs
ASSUME ConfigsAssumption == Configs \subseteq ConfigType
ASSUME TasksAssumption ==
  /\ ServiceLimits \in LimitsType
  /\ Priorities \subseteq 0..10
  /\ Timeouts \subseteq Nat \ {0}

VARIABLES
  pc,       \* how far this process has come
  try,      \* the candidate that getSecureProfileDirectory is at, or took
  config,   \* the configuration of this process
  warned,   \* whether this process has warned of the profile
  dirs,     \* the mode of each directory: "private" is 0700
  profile,  \* the profile in each directory; its mode is private when 0600
  chosen,   \* the executor of this process
  last      \* the last task it was given, and its verdict

vars == <<pc, try, config, warned, dirs, profile, chosen, last>>

Absent == [content |-> "none", private |-> FALSE]

NoTask == [verdict |-> "none", priority |-> 0, timeout |-> 1,
           asked |-> ServiceLimits, granted |-> ServiceLimits]

\* The caps are not set: main.go names no field for them.
MainConfig(c) ==
  [c EXCEPT !.maxMemory = 0, !.maxCPU = 0, !.maxPids = 0, !.maxTimeout = 0]

\* What main.go passes, and what NewDefaultConfig passes in the tests.
Passed == Configs \cup {MainConfig(c) : c \in Configs}

Init ==
  /\ pc = "down"
  /\ try = 1
  /\ config \in Passed
  /\ warned = FALSE
  /\ dirs \in [Dirs -> {"none", "private", "wider"}]
  /\ profile = [d \in Dirs |-> Absent]
  /\ chosen = "none"
  /\ last = NoTask

-----------------------------------------------------------------------------
(* The profile. *)

Generated == Candidates[try]

Goto(label) ==
  /\ pc' = label
  /\ UNCHANGED <<config, chosen, last>>

Warn(label) == Goto(label) /\ warned' = TRUE /\ UNCHANGED try

Proceed(label) == Goto(label) /\ UNCHANGED <<warned, try>>

\* os.MkdirAll leaves the mode of a directory that exists alone.  The parents it
\* makes as well are never candidates that are still to be tried.
MkdirAll(d, mode) ==
  dirs' = [dirs EXCEPT ![d] = IF @ = "none" THEN mode ELSE @]

Start ==
  /\ pc = "down"
  /\ config' \in Passed
  /\ pc' = IF config'.seccomp THEN "makeDir" ELSE "choose"
  /\ try' = 1
  /\ warned' = FALSE
  /\ UNCHANGED <<dirs, profile, chosen, last>>

\* The configured directory gets mode 0750.
MakeConfiguredDir ==
  /\ pc = "makeDir"
  /\ UNCHANGED profile
  /\ \/ Proceed("tryDir") /\ MkdirAll(config.dir, "wider")
     \/ Warn("tryDir") /\ UNCHANGED dirs

\* Mutant: the search runs past the last candidate.
TryPastTheEnd ==
  /\ pc = "tryDir"
  /\ UNCHANGED profile
  /\ \/ Proceed("checkDir") /\ MkdirAll(Generated, "private")
     \/ /\ try <= Len(Candidates)
        /\ Goto("tryDir")
        /\ try' = try + 1
        /\ UNCHANGED <<warned, dirs>>

\* A preferred directory must take a test file; the fallback need only be there.
TryDirectory ==
  /\ pc = "tryDir"
  /\ UNCHANGED profile
  /\ \/ Proceed("checkDir") /\ MkdirAll(Generated, "private")
     \/ /\ try < Len(Candidates)
        /\ Goto("tryDir")
        /\ try' = try + 1
        /\ UNCHANGED warned
        /\ UNCHANGED dirs \/ MkdirAll(Generated, "private")
     \/ try = Len(Candidates) /\ Warn("choose") /\ UNCHANGED dirs

\* Mutant: a directory that fails the check starts the search again.
CheckDirectoryAndRetry ==
  /\ pc = "checkDir"
  /\ UNCHANGED <<profile, dirs>>
  /\ \/ dirs[Generated] = "private" /\ Proceed("write")
     \/ Warn("tryDir")

\* A directory that was there with another mode fails; no other is tried.
ValidateSecureDirectory ==
  /\ pc = "checkDir"
  /\ UNCHANGED <<profile, dirs>>
  /\ \/ dirs[Generated] = "private" /\ Proceed("write")
     \/ Warn("choose")

\* Opening for writing empties the file; a new one gets the mode that is asked
\* for, an old one keeps its own.
Opened(file, private) ==
  [content |-> "part",
   private |-> IF file.content = "none" THEN private ELSE file.private]

WriteProfile ==
  /\ pc = "write"
  /\ UNCHANGED dirs
  /\ \/ /\ profile' = [profile EXCEPT ![Generated] = Opened(@, TRUE)]
        /\ Proceed("fill") \/ Warn("choose")
     \/ Warn("choose") /\ UNCHANGED profile

FillProfile ==
  /\ pc = "fill"
  /\ UNCHANGED dirs
  /\ \/ Proceed("checkFile") /\ profile' = [profile EXCEPT ![Generated].content = "whole"]
     \/ Warn("choose") /\ UNCHANGED profile

\* A profile that fails the check is removed, if it can be.
CheckProfile ==
  /\ pc = "checkFile"
  /\ UNCHANGED dirs
  /\ \/ /\ profile[Generated].private
        /\ Proceed(IF Generated = config.dir THEN "choose" ELSE "copyOpen")
        /\ UNCHANGED profile
     \/ /\ Warn("choose")
        /\ UNCHANGED profile \/ profile' = [profile EXCEPT ![Generated] = Absent]

-----------------------------------------------------------------------------
(* copyFile, from the generated to the configured path. *)

CopyOpen ==
  /\ pc = "copyOpen"
  /\ UNCHANGED profile
  /\ \/ Proceed("copyCreate") /\ MkdirAll(config.dir, "wider")
     \/ Warn("remove") /\ UNCHANGED dirs

\* os.Create asks for 0666.
CopyCreate ==
  /\ pc = "copyCreate"
  /\ UNCHANGED dirs
  /\ \/ Proceed("copyFill") /\ profile' = [profile EXCEPT ![config.dir] = Opened(@, FALSE)]
     \/ Warn("remove") /\ UNCHANGED profile

\* Mutant: no Chmod.
CopyFillAndReturn ==
  /\ pc = "copyFill"
  /\ UNCHANGED dirs
  /\ \/ Proceed("remove") /\ profile' = [profile EXCEPT ![config.dir].content = "whole"]
     \/ Warn("remove") /\ UNCHANGED profile

CopyFill ==
  /\ pc = "copyFill"
  /\ UNCHANGED dirs
  /\ \/ /\ Proceed("copyChmod")
        /\ profile' = [profile EXCEPT ![config.dir].content = profile[Generated].content]
     \/ Warn("remove") /\ UNCHANGED profile

CopyChmod ==
  /\ pc = "copyChmod"
  /\ UNCHANGED dirs
  /\ \/ Proceed("remove") /\ profile' = [profile EXCEPT ![config.dir].private = TRUE]
     \/ Warn("remove") /\ UNCHANGED profile

\* The generated file goes whether or not it could be copied.
RemoveGenerated ==
  /\ pc = "remove"
  /\ Proceed("choose")
  /\ UNCHANGED dirs
  /\ UNCHANGED profile \/ profile' = [profile EXCEPT ![Generated] = Absent]

-----------------------------------------------------------------------------
(* The executor. *)

\* Mutant: the caps may be missing.
ValidateDefaults(c) ==
  /\ c.memory > 0 /\ c.cpu > 0 /\ c.pids > 0 /\ c.timeout > 0

\* Images are left out: they need only have a name here, for which the configuration
\* has defaults, and a name that is not on the white list is refused with each task.
\* The default timeout is a limit and a field of its own; all configurations give
\* both the same value.
Validate(c) ==
  /\ c.memory > 0 /\ c.cpu > 0 /\ c.pids > 0 /\ c.timeout > 0
  /\ c.maxMemory > 0 /\ c.maxCPU > 0 /\ c.maxPids > 0 /\ c.maxTimeout > 0
  /\ c.memory <= c.maxMemory
  /\ c.cpu <= c.maxCPU
  /\ c.pids <= c.maxPids
  /\ c.timeout <= c.maxTimeout

\* NewExecutor validates and then needs a daemon that answers, as IsHealthy does.
Choose ==
  /\ pc = "choose"
  /\ pc' = "serving"
  /\ chosen' \in IF Validate(config) THEN {"docker", "mock"} ELSE {"mock"}
  /\ UNCHANGED <<try, config, warned, dirs, profile, last>>

AtMost(x, cap) == IF x > cap THEN cap ELSE x

\* Mutant: no caps.
ApplyNoCaps(c, limits) == limits

ApplySecurityCaps(c, limits) ==
  [memory  |-> AtMost(limits.memory, c.maxMemory),
   cpu     |-> AtMost(limits.cpu, c.maxCPU),
   pids    |-> AtMost(limits.pids, c.maxPids),
   timeout |-> AtMost(limits.timeout, c.maxTimeout)]

ScaledMemory(c, priority) ==
  CASE priority \in 0..2  -> c.memory \div 2
    [] priority \in 3..5  -> c.memory
    [] priority \in 6..8  -> c.memory * 2
    [] priority \in 9..10 -> c.memory * 4

ScaledCPU(c, priority) ==
  CASE priority \in 0..2  -> c.cpu \div 2
    [] priority \in 3..5  -> c.cpu
    [] priority \in 6..10 -> c.cpu * 2

GetResourceLimitsForTask(c, priority, timeout) ==
  ApplySecurityCaps(c,
    [memory |-> ScaledMemory(c, priority), cpu |-> ScaledCPU(c, priority),
     pids |-> c.pids, timeout |-> timeout])

\* A caller that leaves the memory at zero gets the limits of the configuration.
NoLimits == [memory |-> 0, cpu |-> 0, pids |-> 0, timeout |-> 0]

Granted(c, priority, timeout, asked) ==
  IF asked.memory = 0 THEN GetResourceLimitsForTask(c, priority, timeout) ELSE asked

\* What executeTaskAsync asks for: its own limits and the timeout of the task.
ServiceAsks(timeout) == [ServiceLimits EXCEPT !.timeout = timeout]

FitsCaps(c, limits) ==
  /\ limits.memory \in 1..c.maxMemory
  /\ limits.cpu \in 1..c.maxCPU
  /\ limits.pids \in 1..c.maxPids
  /\ limits.timeout \in 1..c.maxTimeout

\* Mutant: the profile need not be private.
AnyProfileIsValid(c) == c.seccomp => profile[c.dir].content # "none"

ValidateSeccompProfilePath(c) ==
  c.seccomp => profile[c.dir].content # "none" /\ profile[c.dir].private

\* The first check that fails.  Whether a script is refused for what it says is
\* not modelled.  Left out are checks of what buildContainerConfig fixes (mounts,
\* network, no-new-privileges) and of an AppArmor profile named "unconfined", which
\* refuses every task, as an unsafe user does.
Verdict(c, harmless, type, timeout, limits) ==
  IF ~harmless THEN "script"
  ELSE IF type \notin c.images THEN "image"
  ELSE IF ~c.safeUser THEN "user"
  ELSE IF ~ValidateSeccompProfilePath(c) THEN "profile"
  ELSE IF ~FitsCaps(c, limits) THEN "limits"
  ELSE IF timeout > c.maxTimeout THEN "timeout"
  ELSE "run"

Execute ==
  /\ pc = "serving"
  /\ UNCHANGED <<pc, try, config, warned, dirs, profile, chosen>>
  /\ \E priority \in Priorities, timeout \in Timeouts, harmless \in BOOLEAN,
        type \in {"python", "bash", "javascript", "go"} :
       \E asked \in {NoLimits, ServiceAsks(timeout)} :
         LET granted == Granted(config, priority, timeout, asked)
         IN last' = [verdict  |-> IF chosen = "mock" THEN "mocked"
                                  ELSE Verdict(config, harmless, type, timeout, granted),
                     priority |-> priority, timeout |-> timeout,
                     asked |-> asked, granted |-> granted]

-----------------------------------------------------------------------------
\* The process is stopped or killed; its files stay.
Crash ==
  /\ pc # "down"
  /\ pc' = "down"
  /\ chosen' = "none"
  /\ last' = NoTask
  /\ UNCHANGED <<try, config, warned, dirs, profile>>

CreateSeccompProfile ==
  TryDirectory \/ ValidateSecureDirectory \/ WriteProfile \/ FillProfile \/ CheckProfile

CopyProfile == CopyOpen \/ CopyCreate \/ CopyFill \/ CopyChmod \/ RemoveGenerated

Boot == MakeConfiguredDir \/ CreateSeccompProfile \/ CopyProfile \/ Choose

Next == Start \/ Boot \/ Execute \/ Crash

Spec == Init /\ [][Next]_vars

\* main runs its statements one after another until it serves.
FairSpec == Spec /\ WF_vars(Boot)

-----------------------------------------------------------------------------
(* Properties. *)

Labels ==
  {"down", "makeDir", "tryDir", "checkDir", "write", "fill", "checkFile", "copyOpen",
   "copyCreate", "copyFill", "copyChmod", "remove", "choose", "serving"}

TypeOK ==
  /\ pc \in Labels
  /\ try \in 1..Len(Candidates)
  /\ config \in Passed
  /\ warned \in BOOLEAN
  /\ dirs \in [Dirs -> {"none", "private", "wider"}]
  /\ profile \in [Dirs -> [content : {"none", "part", "whole"}, private : BOOLEAN]]
  /\ chosen \in {"none", "docker", "mock"}

Whole == [content |-> "whole", private |-> TRUE]

\* What a start without a warning has achieved by each of its steps.
ProfileAdvances ==
  ~warned =>
    /\ pc = "checkFile" => profile[Generated].content = "whole"
    /\ pc \in {"copyOpen", "copyCreate", "copyFill"} => profile[Generated] = Whole
    /\ pc = "copyChmod" => profile[config.dir].content = "whole"
    /\ pc = "remove" => profile[config.dir] = Whole
    /\ pc \in {"choose", "serving"} /\ config.seccomp => profile[config.dir] = Whole

\* Every verdict but that of the mock is one on a configuration that Validate
\* accepted, and belongs to this process.
Inv ==
  /\ TypeOK
  /\ ProfileAdvances
  /\ pc \in {"copyOpen", "copyCreate", "copyFill", "copyChmod", "remove"} =>
       Generated # config.dir
  /\ chosen = "docker" => Validate(config)
  /\ last.verdict \notin {"none", "mocked"} => chosen = "docker"
  /\ pc = "serving" <=> chosen # "none"
  /\ pc # "serving" => last = NoTask

\* A start that warned of nothing has put a whole profile with mode 0600 where
\* the executor will look for it, whatever earlier starts have left behind: a
\* directory or a file with another mode, a copy cut short by a crash or by a
\* full disk.  After a warning the executor may find a part of a profile there,
\* and takes it if an earlier start gave it the mode.
QuietStartLeavesProfile ==
  pc = "serving" /\ config.seccomp /\ ~warned =>
    profile[config.dir] = Whole

\* A task that is run has limits, a timeout included, within the caps of the
\* configuration, and under seccomp a private profile, whole unless this
\* process has warned of it.
RunsAreConfined ==
  last.verdict = "run" =>
    /\ FitsCaps(config, last.granted)
    /\ last.timeout <= config.maxTimeout
    /\ config.seccomp =>
         /\ profile[config.dir].private
         /\ warned \/ profile[config.dir].content = "whole"

\* A configuration that Validate accepts refuses no task for the limits that it
\* works out itself, though priorities double and quadruple its defaults, save
\* that a default of one is halved to nothing and that a timeout above the cap
\* is only cut in the limits.  The limits that the service hard-codes know no
\* configuration and are refused by caps below them.
RefusalsHaveCause ==
  last.verdict \in {"limits", "timeout"} =>
    \/ last.timeout > config.maxTimeout
    \/ last.asked # NoLimits /\ ~FitsCaps(config, last.asked)
    \/ last.asked = NoLimits /\ last.priority <= 2 /\ 1 \in {config.memory, config.cpu}

\* The configuration that main.go builds never gets the Docker executor, with a
\* healthy daemon and any environment: it lacks the caps, and Validate wants them.
MainStartsTheMock == config = MainConfig(config) => chosen # "docker"

\* No failure while the profile is put in place keeps the API from serving.
StartsEnd == (pc # "down") ~> (pc \in {"serving", "down"})

=============================================================================
