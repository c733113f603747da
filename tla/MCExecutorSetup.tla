--------------------------- MODULE MCExecutorSetup ---------------------------
(***************************************************************************)
(* One preferred directory, the fallback and one that is no candidate; the *)
(* default configuration with memory in units of 64 MB and a CPU quota in  *)
(* units of a quarter core, and one whose defaults and caps are smaller    *)
(* than what the service asks for.                                         *)
(***************************************************************************)
EXTENDS ExecutorSetup

CONSTANTS opt, tmp, etc

Default ==
  [memory |-> 2, cpu |-> 2, pids |-> 128, timeout |-> 300,
   maxMemory |-> 16, maxCPU |-> 8, maxPids |-> 1000, maxTimeout |-> 3600,
   images |-> {"python", "bash", "javascript", "go"},
   safeUser |-> TRUE, seccomp |-> TRUE, dir |-> etc]

Small ==
  [Default EXCEPT !.memory = 1, !.maxMemory = 3, !.maxCPU = 3, !.timeout = 30,
                  !.maxTimeout = 60, !.images = {"python", "bash"}, !.dir = opt]

Odd == [Default EXCEPT !.seccomp = FALSE, !.safeUser = FALSE]

MCConfigs == {Default, Small, Odd}

MCPreferred == <<opt>>

MCServiceLimits == [memory |-> 2, cpu |-> 2, pids |-> 128, timeout |-> 0]
=============================================================================
