------------------------- MODULE ExecutorSetup_proofs -------------------------
(***************************************************************************)
(* For every list of candidates, every set of configurations and every     *)
(* task: a quiet start leaves a whole profile, what runs is confined, and  *)
(* main.go's configuration never gets the Docker executor.                 *)
(***************************************************************************)
EXTENDS ExecutorSetup, TLAPS

LEMMA CandidatesType ==
  /\ Candidates \in Seq(Dirs)
  /\ Len(Candidates) \in Nat \ {0}
  /\ \A i \in 1..Len(Candidates) : Candidates[i] \in Dirs
BY DirsAssumption DEF Candidates

LEMMA PassedType == Passed \subseteq ConfigType
<1>1. ASSUME NEW c \in ConfigType PROVE MainConfig(c) \in ConfigType
  <2> DEFINE c1 == [c EXCEPT !.maxMemory = 0]
             c2 == [c1 EXCEPT !.maxCPU = 0]
             c3 == [c2 EXCEPT !.maxPids = 0]
             c4 == [c3 EXCEPT !.maxTimeout = 0]
  <2>1. c1 \in ConfigType BY DEF ConfigType
  <2> HIDE DEF c1
  <2>2. c2 \in ConfigType BY <2>1 DEF ConfigType
  <2> HIDE DEF c2
  <2>3. c3 \in ConfigType BY <2>2 DEF ConfigType
  <2> HIDE DEF c3
  <2>4. c4 \in ConfigType BY <2>3 DEF ConfigType
  <2>5. c4 = MainConfig(c) BY DEF c3, c2, c1, MainConfig
  <2>6. QED BY <2>4, <2>5
<1>2. QED BY <1>1, ConfigsAssumption DEF Passed

LEMMA ConfigOf ==
  ASSUME TypeOK
  PROVE  config.dir \in Dirs /\ Generated \in Dirs
BY CandidatesType, PassedType DEF TypeOK, ConfigType, Generated

(***************************************************************************)
(* Type correctness, one lemma for each kind of step.                      *)
(***************************************************************************)

LEMMA MkdirAllKeepsType ==
  ASSUME TypeOK, NEW d \in Dirs, NEW mode \in {"private", "wider"}, MkdirAll(d, mode)
  PROVE  dirs' \in [Dirs -> {"none", "private", "wider"}]
BY DEF TypeOK, MkdirAll

LEMMA GotoKeepsType ==
  ASSUME TypeOK, NEW label \in Labels, Warn(label) \/ Proceed(label)
  PROVE  /\ pc' = label
         /\ UNCHANGED <<try, config, chosen, last>>
         /\ warned' \in BOOLEAN
         /\ ~warned' => ~warned
BY DEF TypeOK, Warn, Proceed, Goto

Files == [Dirs -> [content : {"none", "part", "whole"}, private : BOOLEAN]]

LEMMA WritesKeepType ==
  ASSUME profile \in Files, NEW d \in Dirs
  PROVE  /\ [profile EXCEPT ![d] = Absent] \in Files
         /\ [profile EXCEPT ![d] = Opened(@, TRUE)] \in Files
         /\ [profile EXCEPT ![d] = Opened(@, FALSE)] \in Files
         /\ \A c \in {"none", "part", "whole"} : [profile EXCEPT ![d].content = c] \in Files
         /\ [profile EXCEPT ![d].private = TRUE] \in Files
<1>1. /\ profile[d] \in [content : {"none", "part", "whole"}, private : BOOLEAN]
      /\ Absent \in [content : {"none", "part", "whole"}, private : BOOLEAN]
  BY DEF Files, Absent
<1>2. \A b \in BOOLEAN :
        Opened(profile[d], b) \in [content : {"none", "part", "whole"}, private : BOOLEAN]
  BY <1>1 DEF Opened
<1>3. \A c \in {"none", "part", "whole"} :
        [profile[d] EXCEPT !.content = c] \in [content : {"none", "part", "whole"}, private : BOOLEAN]
  BY <1>1
<1>4. [profile[d] EXCEPT !.private = TRUE]
        \in [content : {"none", "part", "whole"}, private : BOOLEAN]
  BY <1>1
<1>5. \A f \in [content : {"none", "part", "whole"}, private : BOOLEAN] :
        [profile EXCEPT ![d] = f] \in Files
  BY DEF Files
<1>6. QED BY <1>1, <1>2, <1>3, <1>4, <1>5

(***************************************************************************)
(* The inductive invariant, one lemma for each step of the start.          *)
(***************************************************************************)

LEMMA StepBeforeServing ==
  ASSUME Inv, pc # "serving", pc' # "serving", UNCHANGED <<config, chosen, last>>
  PROVE  /\ (chosen = "docker" => Validate(config))'
         /\ (last.verdict \notin {"none", "mocked"} => chosen = "docker")'
         /\ (pc = "serving" <=> chosen # "none")'
         /\ (pc # "serving" => last = NoTask)'
BY DEF Inv, Validate

LEMMA StartKeepsInv ==
  ASSUME Inv, Start
  PROVE  Inv'
<1>1. /\ pc' \in {"makeDir", "choose"}
      /\ pc' = "choose" => ~config'.seccomp
      /\ UNCHANGED <<dirs, profile, chosen, last>>
  BY DEF Start
<1>2. TypeOK'
  <2>1. try' \in 1..Len(Candidates)
    BY CandidatesType DEF Start
  <2>2. config' \in Passed /\ warned' \in BOOLEAN
    BY DEF Start
  <2>3. QED BY <1>1, <2>1, <2>2 DEF Inv, TypeOK, Labels
<1>3. ProfileAdvances'
  BY <1>1 DEF ProfileAdvances
<1>4. chosen = "none" /\ last = NoTask
  BY DEF Inv, Start
<1>5. QED BY <1>1, <1>2, <1>3, <1>4 DEF Inv, NoTask

LEMMA MakeConfiguredDirKeepsInv ==
  ASSUME Inv, MakeConfiguredDir
  PROVE  Inv'
<1>1. /\ pc = "makeDir"
      /\ Warn("tryDir") \/ Proceed("tryDir")
      /\ UNCHANGED profile
      /\ MkdirAll(config.dir, "wider") \/ UNCHANGED dirs
  BY DEF MakeConfiguredDir
<1>2. /\ pc' = "tryDir"
      /\ UNCHANGED <<try, config, chosen, last>>
      /\ warned' \in BOOLEAN
  BY <1>1, GotoKeepsType DEF Inv, Labels
<1>3. dirs' \in [Dirs -> {"none", "private", "wider"}]
  BY <1>1, ConfigOf, MkdirAllKeepsType DEF Inv, TypeOK
<1>4. TypeOK'
  BY <1>1, <1>2, <1>3 DEF Inv, TypeOK, Labels
<1>5. ProfileAdvances'
  BY <1>2 DEF ProfileAdvances
<1>6. QED BY <1>1, <1>2, <1>4, <1>5, StepBeforeServing DEF Inv

LEMMA TryDirectoryKeepsInv ==
  ASSUME Inv, TryDirectory
  PROVE  Inv'
<1>1. /\ pc = "tryDir"
      /\ pc' \in {"tryDir", "checkDir", "choose"}
      /\ pc' = "choose" => warned'
      /\ warned' \in BOOLEAN
      /\ try' = try \/ (try < Len(Candidates) /\ try' = try + 1)
      /\ UNCHANGED <<profile, config, chosen, last>>
      /\ MkdirAll(Generated, "private") \/ UNCHANGED dirs
  <2>1. warned \in BOOLEAN BY DEF Inv, TypeOK
  <2>2. QED BY <2>1 DEF TryDirectory, Proceed, Warn, Goto
<1>2. dirs' \in [Dirs -> {"none", "private", "wider"}]
  BY <1>1, ConfigOf, MkdirAllKeepsType DEF Inv, TypeOK
<1>3. TypeOK'
  <2>1. try' \in 1..Len(Candidates)
    BY <1>1, CandidatesType DEF Inv, TypeOK
  <2>2. QED BY <1>1, <1>2, <2>1 DEF Inv, TypeOK, Labels
<1>4. ProfileAdvances'
  BY <1>1 DEF ProfileAdvances
<1>5. QED BY <1>1, <1>3, <1>4, StepBeforeServing DEF Inv

LEMMA ValidateSecureDirectoryKeepsInv ==
  ASSUME Inv, ValidateSecureDirectory
  PROVE  Inv'
<1>1. /\ pc = "checkDir"
      /\ pc' \in {"write", "choose"}
      /\ pc' = "choose" => warned'
      /\ warned' \in BOOLEAN
      /\ UNCHANGED <<try, dirs, profile, config, chosen, last>>
  BY DEF Inv, TypeOK, ValidateSecureDirectory, Proceed, Warn, Goto
<1>2. TypeOK'
  BY <1>1 DEF Inv, TypeOK, Labels
<1>3. ProfileAdvances'
  BY <1>1 DEF ProfileAdvances
<1>4. QED BY <1>1, <1>2, <1>3, StepBeforeServing DEF Inv

LEMMA WriteProfileKeepsInv ==
  ASSUME Inv, WriteProfile
  PROVE  Inv'
<1>1. /\ pc = "write"
      /\ pc' \in {"fill", "choose"}
      /\ pc' = "choose" => warned'
      /\ warned' \in BOOLEAN
      /\ UNCHANGED <<try, dirs, config, chosen, last>>
      /\ \/ profile' = [profile EXCEPT ![Generated] = Opened(@, TRUE)]
         \/ UNCHANGED profile
  BY DEF Inv, TypeOK, WriteProfile, Proceed, Warn, Goto
<1>2. profile' \in Files
  <2>1. profile \in Files BY DEF Inv, TypeOK, Files
  <2>2. Generated \in Dirs BY ConfigOf DEF Inv
  <2>3. QED BY <1>1, <2>1, <2>2, WritesKeepType
<1>3. TypeOK'
  BY <1>1, <1>2 DEF Inv, TypeOK, Files, Labels
<1>4. ProfileAdvances'
  BY <1>1 DEF ProfileAdvances
<1>5. QED BY <1>1, <1>3, <1>4, StepBeforeServing DEF Inv

LEMMA FillProfileKeepsInv ==
  ASSUME Inv, FillProfile
  PROVE  Inv'
<1>1. /\ pc = "fill"
      /\ warned' \in BOOLEAN
      /\ UNCHANGED <<try, dirs, config, chosen, last>>
      /\ \/ pc' = "checkFile" /\ profile' = [profile EXCEPT ![Generated].content = "whole"]
         \/ pc' = "choose" /\ warned' /\ UNCHANGED profile
  BY DEF Inv, TypeOK, FillProfile, Proceed, Warn, Goto
<1>2. profile' \in Files
  <2>1. profile \in Files BY DEF Inv, TypeOK, Files
  <2>2. Generated \in Dirs BY ConfigOf DEF Inv
  <2>3. QED BY <1>1, <2>1, <2>2, WritesKeepType
<1>3. TypeOK'
  BY <1>1, <1>2 DEF Inv, TypeOK, Files, Labels
<1>4. pc' = "checkFile" => (profile[Generated].content = "whole")'
  BY <1>1, ConfigOf DEF Inv, TypeOK, Generated
<1>5. ProfileAdvances'
  BY <1>1, <1>4 DEF ProfileAdvances
<1>6. QED BY <1>1, <1>3, <1>5, StepBeforeServing DEF Inv

LEMMA CheckProfileKeepsInv ==
  ASSUME Inv, CheckProfile
  PROVE  Inv'
<1>1. /\ pc = "checkFile"
      /\ warned' \in BOOLEAN
      /\ UNCHANGED <<try, dirs, config, chosen, last>>
      /\ \/ /\ profile[Generated].private
            /\ pc' = IF Generated = config.dir THEN "choose" ELSE "copyOpen"
            /\ UNCHANGED <<profile, warned>>
         \/ /\ pc' = "choose" /\ warned'
            /\ UNCHANGED profile \/ profile' = [profile EXCEPT ![Generated] = Absent]
  BY DEF Inv, TypeOK, CheckProfile, Proceed, Warn, Goto
<1>2. profile' \in Files
  <2>1. profile \in Files BY DEF Inv, TypeOK, Files
  <2>2. Generated \in Dirs BY ConfigOf DEF Inv
  <2>3. QED BY <1>1, <2>1, <2>2, WritesKeepType
<1>3. TypeOK'
  BY <1>1, <1>2 DEF Inv, TypeOK, Files, Labels
<1>4. ASSUME ~warned, profile[Generated].private
      PROVE  profile[Generated] = Whole
  <2>1. profile[Generated] \in [content : {"none", "part", "whole"}, private : BOOLEAN]
    BY ConfigOf DEF Inv, TypeOK
  <2>2. profile[Generated].content = "whole"
    BY <1>1, <1>4 DEF Inv, ProfileAdvances
  <2>3. QED BY <1>4, <2>1, <2>2 DEF Whole
<1>5. ProfileAdvances'
  BY <1>1, <1>4 DEF ProfileAdvances, Generated
<1>6. pc' = "copyOpen" => (Generated # config.dir)'
  BY <1>1 DEF Generated
<1>7. pc' \in {"copyOpen", "choose"}
  BY <1>1
<1>8. QED BY <1>1, <1>3, <1>5, <1>6, <1>7, StepBeforeServing DEF Inv

(***************************************************************************)
(* copyFile works on a file that is not the generated one.                 *)
(***************************************************************************)

LEMMA CopyOpenKeepsInv ==
  ASSUME Inv, CopyOpen
  PROVE  Inv'
<1>1. /\ pc = "copyOpen"
      /\ warned' \in BOOLEAN
      /\ UNCHANGED <<try, profile, config, chosen, last>>
      /\ \/ pc' = "copyCreate" /\ UNCHANGED warned /\ MkdirAll(config.dir, "wider")
         \/ pc' = "remove" /\ warned' /\ UNCHANGED dirs
  BY DEF Inv, TypeOK, CopyOpen, Proceed, Warn, Goto
<1>2. dirs' \in [Dirs -> {"none", "private", "wider"}]
  BY <1>1, ConfigOf, MkdirAllKeepsType DEF Inv, TypeOK
<1>3. TypeOK'
  BY <1>1, <1>2 DEF Inv, TypeOK, Labels
<1>4. ProfileAdvances'
  BY <1>1 DEF Inv, ProfileAdvances, Generated
<1>5. (Generated # config.dir)'
  BY <1>1 DEF Inv, Generated
<1>6. QED BY <1>1, <1>3, <1>4, <1>5, StepBeforeServing DEF Inv

LEMMA CopyCreateKeepsInv ==
  ASSUME Inv, CopyCreate
  PROVE  Inv'
<1>1. /\ pc = "copyCreate"
      /\ warned' \in BOOLEAN
      /\ UNCHANGED <<try, dirs, config, chosen, last>>
      /\ \/ /\ pc' = "copyFill" /\ UNCHANGED warned
            /\ profile' = [profile EXCEPT ![config.dir] = Opened(@, FALSE)]
         \/ pc' = "remove" /\ warned' /\ UNCHANGED profile
  BY DEF Inv, TypeOK, CopyCreate, Proceed, Warn, Goto
<1>2. profile' \in Files
  <2>1. profile \in Files BY DEF Inv, TypeOK, Files
  <2>2. config.dir \in Dirs BY ConfigOf DEF Inv
  <2>3. QED BY <1>1, <2>1, <2>2, WritesKeepType
<1>3. TypeOK'
  BY <1>1, <1>2 DEF Inv, TypeOK, Files, Labels
<1>4. (Generated # config.dir)'
  BY <1>1 DEF Inv, Generated
<1>5. profile'[Generated] = profile[Generated]
  BY <1>1, ConfigOf DEF Inv, TypeOK
<1>6. ASSUME ~warned', pc' = "copyFill"
      PROVE  (profile[Generated] = Whole)'
  <2>1. profile[Generated] = Whole
    BY <1>1, <1>6 DEF Inv, ProfileAdvances
  <2>2. Generated' = Generated
    BY <1>1 DEF Generated
  <2>3. QED BY <1>5, <2>1, <2>2 DEF Whole
<1>7. ProfileAdvances'
  BY <1>1, <1>6 DEF ProfileAdvances
<1>8. QED BY <1>1, <1>3, <1>4, <1>7, StepBeforeServing DEF Inv

LEMMA CopyFillKeepsInv ==
  ASSUME Inv, CopyFill
  PROVE  Inv'
<1>1. /\ pc = "copyFill"
      /\ warned' \in BOOLEAN
      /\ UNCHANGED <<try, dirs, config, chosen, last>>
      /\ \/ /\ pc' = "copyChmod" /\ UNCHANGED warned
            /\ profile' = [profile EXCEPT ![config.dir].content = profile[Generated].content]
         \/ pc' = "remove" /\ warned' /\ UNCHANGED profile
  BY DEF Inv, TypeOK, CopyFill, Proceed, Warn, Goto
<1>2. profile' \in Files
  <2>1. profile \in Files BY DEF Inv, TypeOK, Files
  <2>2. config.dir \in Dirs BY ConfigOf DEF Inv
  <2>3. profile[Generated].content \in {"none", "part", "whole"}
    BY <2>1, ConfigOf DEF Inv, Files
  <2>4. QED BY <1>1, <2>1, <2>2, <2>3, WritesKeepType
<1>3. TypeOK'
  BY <1>1, <1>2 DEF Inv, TypeOK, Files, Labels
<1>4. (Generated # config.dir)'
  BY <1>1 DEF Inv, Generated
<1>5. ASSUME ~warned, pc' = "copyChmod"
      PROVE  profile'[config.dir].content = "whole"
  <2>1. profile[Generated] = Whole
    BY <1>1, <1>5 DEF Inv, ProfileAdvances
  <2>2. profile'[config.dir].content = profile[Generated].content
    BY <1>1, <1>5, ConfigOf DEF Inv, TypeOK
  <2>3. QED BY <2>1, <2>2 DEF Whole
<1>6. ProfileAdvances'
  BY <1>1, <1>5 DEF ProfileAdvances
<1>7. QED BY <1>1, <1>3, <1>4, <1>6, StepBeforeServing DEF Inv

LEMMA CopyChmodKeepsInv ==
  ASSUME Inv, CopyChmod
  PROVE  Inv'
<1>1. /\ pc = "copyChmod"
      /\ pc' = "remove"
      /\ warned' \in BOOLEAN
      /\ UNCHANGED <<try, dirs, config, chosen, last>>
      /\ \/ /\ UNCHANGED warned
            /\ profile' = [profile EXCEPT ![config.dir].private = TRUE]
         \/ warned' /\ UNCHANGED profile
  BY DEF Inv, TypeOK, CopyChmod, Proceed, Warn, Goto
<1>2. profile' \in Files
  <2>1. profile \in Files BY DEF Inv, TypeOK, Files
  <2>2. config.dir \in Dirs BY ConfigOf DEF Inv
  <2>3. QED BY <1>1, <2>1, <2>2, WritesKeepType
<1>3. TypeOK'
  BY <1>1, <1>2 DEF Inv, TypeOK, Files, Labels
<1>4. (Generated # config.dir)'
  BY <1>1 DEF Inv, Generated
<1>5. ASSUME ~warned'
      PROVE  profile'[config.dir] = Whole
  <2>1. profile[config.dir].content = "whole"
    BY <1>1, <1>5 DEF Inv, ProfileAdvances
  <2>2. profile[config.dir] \in [content : {"none", "part", "whole"}, private : BOOLEAN]
    BY ConfigOf DEF Inv, TypeOK
  <2>3. profile'[config.dir] = [profile[config.dir] EXCEPT !.private = TRUE]
    BY <1>1, <1>5, ConfigOf DEF Inv, TypeOK
  <2>4. QED BY <2>1, <2>2, <2>3 DEF Whole
<1>6. ProfileAdvances'
  BY <1>1, <1>5 DEF ProfileAdvances
<1>7. QED BY <1>1, <1>3, <1>4, <1>6, StepBeforeServing DEF Inv

LEMMA RemoveGeneratedKeepsInv ==
  ASSUME Inv, RemoveGenerated
  PROVE  Inv'
<1>1. /\ pc = "remove"
      /\ pc' = "choose"
      /\ UNCHANGED <<try, dirs, config, chosen, last, warned>>
      /\ UNCHANGED profile \/ profile' = [profile EXCEPT ![Generated] = Absent]
  BY DEF RemoveGenerated, Proceed, Goto
<1>2. profile' \in Files
  <2>1. profile \in Files BY DEF Inv, TypeOK, Files
  <2>2. Generated \in Dirs BY ConfigOf DEF Inv
  <2>3. QED BY <1>1, <2>1, <2>2, WritesKeepType
<1>3. TypeOK'
  BY <1>1, <1>2 DEF Inv, TypeOK, Files, Labels
<1>4. profile'[config.dir] = profile[config.dir]
  BY <1>1, ConfigOf DEF Inv, TypeOK
<1>5. ProfileAdvances'
  BY <1>1, <1>4 DEF Inv, ProfileAdvances
<1>6. QED BY <1>1, <1>3, <1>5, StepBeforeServing DEF Inv

LEMMA ChooseKeepsInv ==
  ASSUME Inv, Choose
  PROVE  Inv'
<1>1. /\ pc = "choose"
      /\ pc' = "serving"
      /\ chosen' \in {"docker", "mock"}
      /\ chosen' = "docker" => Validate(config)
      /\ UNCHANGED <<try, config, warned, dirs, profile, last>>
  BY DEF Choose
<1>2. TypeOK'
  BY <1>1 DEF Inv, TypeOK, Labels
<1>3. ProfileAdvances'
  BY <1>1 DEF Inv, ProfileAdvances
<1>4. (chosen = "docker" => Validate(config))'
  BY <1>1 DEF Validate
<1>5. last.verdict = "none"
  BY <1>1 DEF Inv, NoTask
<1>6. QED BY <1>1, <1>2, <1>3, <1>4, <1>5 DEF Inv

LEMMA ExecuteKeepsInv ==
  ASSUME Inv, Execute
  PROVE  Inv'
<1>1. /\ pc = "serving"
      /\ UNCHANGED <<pc, try, config, warned, dirs, profile, chosen>>
  BY DEF Execute
<1>2. chosen \in {"docker", "mock"}
  BY <1>1 DEF Inv, TypeOK
<1>3. chosen = "mock" => last'.verdict = "mocked"
  BY DEF Execute
<1>4. TypeOK' /\ ProfileAdvances' /\ (chosen = "docker" => Validate(config))'
  BY <1>1 DEF Inv, TypeOK, ProfileAdvances, Validate, Generated
<1>5. QED BY <1>1, <1>2, <1>3, <1>4 DEF Inv

LEMMA CrashKeepsInv ==
  ASSUME Inv, Crash
  PROVE  Inv'
<1>1. /\ pc' = "down" /\ chosen' = "none" /\ last' = NoTask
      /\ UNCHANGED <<try, config, warned, dirs, profile>>
  BY DEF Crash
<1>2. TypeOK'
  BY <1>1 DEF Inv, TypeOK, Labels
<1>3. ProfileAdvances'
  BY <1>1 DEF ProfileAdvances
<1>4. QED BY <1>1, <1>2, <1>3 DEF Inv, NoTask

(***************************************************************************)
(* What the executor grants.                                               *)
(***************************************************************************)

LEMMA CapsAreKept ==
  ASSUME NEW x \in Nat \ {0}, NEW cap \in Nat \ {0}
  PROVE  AtMost(x, cap) \in 1..cap
BY DEF AtMost

\* The limits that a valid configuration works out fit its caps, unless a
\* default of one has been halved.
LEMMA WorkedOutLimitsFit ==
  ASSUME NEW c \in ConfigType, Validate(c),
         NEW priority \in 0..10, NEW timeout \in Nat \ {0},
         priority <= 2 => 1 \notin {c.memory, c.cpu}
  PROVE  FitsCaps(c, GetResourceLimitsForTask(c, priority, timeout))
<1>1. /\ c.memory \in Nat \ {0} /\ c.cpu \in Nat \ {0} /\ c.pids \in Nat \ {0}
      /\ c.maxMemory \in Nat \ {0} /\ c.maxCPU \in Nat \ {0}
      /\ c.maxPids \in Nat \ {0} /\ c.maxTimeout \in Nat \ {0}
  BY DEF ConfigType, Validate
<1>2. \A n \in Nat \ {0} : n # 1 => n \div 2 \in Nat \ {0}
  OBVIOUS
<1>3. ScaledMemory(c, priority) \in Nat \ {0}
  <2>1. CASE priority \in 0..2
    BY <1>1, <1>2, <2>1 DEF ScaledMemory
  <2>2. CASE priority \in 3..5
    BY <1>1, <2>2 DEF ScaledMemory
  <2>3. CASE priority \in 6..8
    BY <1>1, <2>3 DEF ScaledMemory
  <2>4. CASE priority \in 9..10
    BY <1>1, <2>4 DEF ScaledMemory
  <2>5. QED BY <2>1, <2>2, <2>3, <2>4
<1>4. ScaledCPU(c, priority) \in Nat \ {0}
  <2>1. CASE priority \in 0..2
    BY <1>1, <1>2, <2>1 DEF ScaledCPU
  <2>2. CASE priority \in 3..5
    BY <1>1, <2>2 DEF ScaledCPU
  <2>3. CASE priority \in 6..10
    BY <1>1, <2>3 DEF ScaledCPU
  <2>4. QED BY <2>1, <2>2, <2>3
<1>5. QED
  BY <1>1, <1>3, <1>4, CapsAreKept
  DEF FitsCaps, GetResourceLimitsForTask, ApplySecurityCaps

LEMMA RunMeansFit ==
  ASSUME NEW c \in ConfigType, NEW harmless \in BOOLEAN, NEW type, NEW timeout, NEW limits,
         Verdict(c, harmless, type, timeout, limits) = "run"
  PROVE  FitsCaps(c, limits) /\ ~(timeout > c.maxTimeout) /\ ValidateSeccompProfilePath(c)
BY DEF Verdict

LEMMA RefusalOfLimits ==
  ASSUME NEW c \in ConfigType, NEW harmless \in BOOLEAN, NEW type, NEW timeout, NEW limits,
         Verdict(c, harmless, type, timeout, limits) \in {"limits", "timeout"}
  PROVE  ~FitsCaps(c, limits) \/ timeout > c.maxTimeout
BY DEF Verdict

(***************************************************************************)
(* The theorems.                                                           *)
(***************************************************************************)

LEMMA InitInv == Init => Inv
<1> SUFFICES ASSUME Init PROVE Inv
  OBVIOUS
<1>1. 1 \in 1..Len(Candidates)
  BY CandidatesType
<1>2. Absent \in [content : {"none", "part", "whole"}, private : BOOLEAN]
  BY DEF Absent
<1>3. TypeOK
  BY <1>1, <1>2 DEF Init, TypeOK, Labels
<1>4. ProfileAdvances
  BY DEF Init, ProfileAdvances
<1>5. QED BY <1>3, <1>4 DEF Init, Inv, NoTask

LEMMA NextInv == Inv /\ [Next]_vars => Inv'
<1> SUFFICES ASSUME Inv, [Next]_vars PROVE Inv'
  OBVIOUS
<1>1. CASE Start
  BY <1>1, StartKeepsInv
<1>2. CASE CreateSeccompProfile
  BY <1>2, TryDirectoryKeepsInv, ValidateSecureDirectoryKeepsInv, WriteProfileKeepsInv,
     FillProfileKeepsInv, CheckProfileKeepsInv DEF CreateSeccompProfile
<1>3. CASE CopyProfile
  BY <1>3, CopyOpenKeepsInv, CopyCreateKeepsInv, CopyFillKeepsInv, CopyChmodKeepsInv,
     RemoveGeneratedKeepsInv DEF CopyProfile
<1>4. CASE MakeConfiguredDir \/ Choose
  BY <1>4, MakeConfiguredDirKeepsInv, ChooseKeepsInv
<1>5. CASE Execute
  BY <1>5, ExecuteKeepsInv
<1>6. CASE Crash
  BY <1>6, CrashKeepsInv
<1>7. CASE UNCHANGED vars
  BY <1>7 DEF Inv, TypeOK, ProfileAdvances, Generated, Validate, vars
<1>8. QED BY <1>1, <1>2, <1>3, <1>4, <1>5, <1>6, <1>7 DEF Next, Boot

\* Types, what each step of a start without a warning has achieved, and the
\* configuration behind every verdict.
THEOREM Invariance == Spec => []Inv
BY InitInv, NextInv, PTL DEF Spec

\* A start that warned of nothing leaves a whole profile with mode 0600, after
\* any number of starts that were cut short.
THEOREM QuietStart == Spec => []QuietStartLeavesProfile
<1>1. Inv => QuietStartLeavesProfile
  BY DEF Inv, ProfileAdvances, QuietStartLeavesProfile
<1>2. QED BY <1>1, Invariance, PTL

\* The configuration that cmd/api builds never gets the Docker executor.
THEOREM DockerIsOutOfReach == Spec => []MainStartsTheMock
<1>1. Inv => MainStartsTheMock
  <2> SUFFICES ASSUME Inv, config = MainConfig(config), chosen = "docker" PROVE FALSE
    BY DEF MainStartsTheMock
  <2>1. config \in ConfigType
    BY PassedType DEF Inv, TypeOK
  <2>2. MainConfig(config).maxMemory = 0
    BY <2>1 DEF MainConfig, ConfigType
  <2>3. Validate(config)
    BY DEF Inv
  <2>4. QED BY <2>2, <2>3 DEF Validate
<1>2. QED BY <1>1, Invariance, PTL

LEMMA ExecuteJudges ==
  ASSUME Inv, Execute
  PROVE  RunsAreConfined' /\ RefusalsHaveCause'
<1>1. /\ pc = "serving"
      /\ UNCHANGED <<config, warned, profile, chosen>>
  BY DEF Execute
<1>2. config \in ConfigType
  BY PassedType DEF Inv, TypeOK
<1>3. PICK priority \in Priorities, timeout \in Timeouts, harmless \in BOOLEAN,
           type \in {"python", "bash", "javascript", "go"} :
        \E asked \in {NoLimits, ServiceAsks(timeout)} :
          LET granted == Granted(config, priority, timeout, asked)
          IN last' = [verdict  |-> IF chosen = "mock" THEN "mocked"
                                   ELSE Verdict(config, harmless, type, timeout, granted),
                      priority |-> priority, timeout |-> timeout,
                      asked |-> asked, granted |-> granted]
  BY DEF Execute
<1>4. PICK asked \in {NoLimits, ServiceAsks(timeout)} :
        last' = [verdict  |-> IF chosen = "mock" THEN "mocked"
                              ELSE Verdict(config, harmless, type, timeout,
                                           Granted(config, priority, timeout, asked)),
                 priority |-> priority, timeout |-> timeout,
                 asked |-> asked, granted |-> Granted(config, priority, timeout, asked)]
  BY <1>3
<1> DEFINE granted == Granted(config, priority, timeout, asked)
           verdict == Verdict(config, harmless, type, timeout, granted)
<1>5. CASE chosen = "mock"
  <2>1. last'.verdict = "mocked"
    BY <1>4, <1>5
  <2>2. QED BY <2>1 DEF RunsAreConfined, RefusalsHaveCause
<1>6. CASE chosen # "mock"
  <2>1. /\ last'.verdict = verdict
        /\ last'.priority = priority
        /\ last'.timeout = timeout
        /\ last'.asked = asked
        /\ last'.granted = granted
    BY <1>4, <1>6
  <2>2. priority \in 0..10 /\ timeout \in Nat \ {0}
    BY TasksAssumption
  <2>3. Validate(config)
    BY <1>1, <1>6 DEF Inv, TypeOK
  <2> HIDE DEF granted, verdict
  <2>4. RunsAreConfined'
    <3> SUFFICES ASSUME verdict = "run"
                 PROVE  /\ FitsCaps(config, granted)
                        /\ timeout <= config.maxTimeout
                        /\ config.seccomp =>
                             /\ profile[config.dir].private
                             /\ warned \/ profile[config.dir].content = "whole"
      BY <1>1, <2>1 DEF RunsAreConfined, FitsCaps
    <3>1. /\ FitsCaps(config, granted)
          /\ ~(timeout > config.maxTimeout)
          /\ ValidateSeccompProfilePath(config)
      BY <1>2, RunMeansFit DEF verdict
    <3>2. timeout <= config.maxTimeout
      BY <1>2, <2>2, <3>1 DEF ConfigType
    <3>3. config.seccomp /\ ~warned => profile[config.dir].content = "whole"
      BY <1>1 DEF Inv, ProfileAdvances, Whole
    <3>4. QED BY <1>2, <3>1, <3>2, <3>3 DEF ValidateSeccompProfilePath, Inv, TypeOK, ConfigType
  <2>5. RefusalsHaveCause'
    <3> SUFFICES ASSUME verdict \in {"limits", "timeout"},
                        ~(timeout > config.maxTimeout)
                 PROVE  \/ asked # NoLimits /\ ~FitsCaps(config, asked)
                        \/ /\ asked = NoLimits /\ priority <= 2
                           /\ 1 \in {config.memory, config.cpu}
      BY <1>1, <2>1 DEF RefusalsHaveCause, FitsCaps
    <3>1. ~FitsCaps(config, granted)
      BY <1>2, RefusalOfLimits DEF verdict
    <3>2. CASE asked = NoLimits
      <4>1. granted = GetResourceLimitsForTask(config, priority, timeout)
        BY <3>2 DEF granted, Granted, NoLimits
      <4>2. QED BY <1>2, <2>2, <2>3, <3>1, <3>2, <4>1, WorkedOutLimitsFit
    <3>3. CASE asked # NoLimits /\ asked.memory # 0
      BY <3>1, <3>3 DEF granted, Granted
    <3>4. CASE asked # NoLimits /\ asked.memory = 0
      BY <1>2, <3>4 DEF FitsCaps
    <3>5. QED BY <3>2, <3>3, <3>4
  <2>6. QED BY <2>4, <2>5
<1>7. QED BY <1>5, <1>6

LEMMA VerdictsStay ==
  Inv /\ RunsAreConfined /\ RefusalsHaveCause /\ [Next]_vars
    => RunsAreConfined' /\ RefusalsHaveCause'
<1> SUFFICES ASSUME Inv, RunsAreConfined, RefusalsHaveCause, [Next]_vars
             PROVE  RunsAreConfined' /\ RefusalsHaveCause'
  OBVIOUS
<1>1. Inv'
  BY NextInv
<1>2. CASE pc' # "serving"
  BY <1>1, <1>2 DEF Inv, NoTask, RunsAreConfined, RefusalsHaveCause
<1>3. CASE Choose
  BY <1>3 DEF Choose, Inv, NoTask, RunsAreConfined, RefusalsHaveCause
<1>4. CASE Execute
  BY <1>4, ExecuteJudges
<1>5. CASE UNCHANGED vars
  BY <1>5 DEF vars, RunsAreConfined, RefusalsHaveCause, FitsCaps
<1>6. CASE Start \/ MakeConfiguredDir \/ CreateSeccompProfile \/ CopyProfile \/ Crash
  <2>1. Start \/ MakeConfiguredDir \/ Crash => pc' # "serving"
    BY DEF Start, MakeConfiguredDir, Crash, Warn, Proceed, Goto
  <2>2. CreateSeccompProfile => pc' # "serving"
    BY DEF CreateSeccompProfile, TryDirectory, ValidateSecureDirectory, WriteProfile,
       FillProfile, CheckProfile, Warn, Proceed, Goto
  <2>3. CopyProfile => pc' # "serving"
    BY DEF CopyProfile, CopyOpen, CopyCreate, CopyFill, CopyChmod, RemoveGenerated,
       Warn, Proceed, Goto
  <2>4. QED BY <1>2, <1>6, <2>1, <2>2, <2>3
<1>7. QED BY <1>3, <1>4, <1>5, <1>6 DEF Next, Boot

LEMMA InitJudges == Init => RunsAreConfined /\ RefusalsHaveCause
BY DEF Init, NoTask, RunsAreConfined, RefusalsHaveCause

\* What runs is within the caps and under a private, whole profile.
THEOREM RunsConfined == Spec => []RunsAreConfined
BY InitInv, NextInv, InitJudges, VerdictsStay, PTL DEF Spec

\* A valid configuration never refuses a task for the limits that it works out,
\* for every configuration and task, save by halving a one.
THEOREM RefusalsCaused == Spec => []RefusalsHaveCause
BY InitInv, NextInv, InitJudges, VerdictsStay, PTL DEF Spec

=============================================================================
