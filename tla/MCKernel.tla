------------------------------ MODULE MCKernel ------------------------------
(***************************************************************************)
(* Kernel for TLC: two CPUs, a table of 2^LOG2NENV environments, and an    *)
(* envid_t narrow enough for the generation to wrap within the run.        *)
(***************************************************************************)
EXTENDS Kernel

CONSTANTS cpu0, cpu1

MCCPU == {cpu0, cpu1}

\* A machine on which mp_init found the boot processor alone.
OneCPU == {cpu0}

\* Everything but IPC: the life of environments.
LifecycleSyscalls ==
    {"SYS_cputs", "SYS_getenvid", "SYS_env_destroy", "SYS_yield", "SYS_exofork",
     "SYS_env_set_status", "SYS_env_set_pgfault_upcall"}

\* IPC between the environments created at boot.
IpcSyscalls ==
    {"SYS_ipc_try_send", "SYS_ipc_recv", "SYS_env_destroy", "SYS_exofork",
     "SYS_env_set_status"}

\* The calls of the runs under fairness.
FewSyscalls == {"SYS_env_destroy", "SYS_yield", "SYS_exofork", "SYS_env_set_status"}

BothCalls == {"SYS_env_destroy", "SYS_env_set_status"}
OnlyDestroy == {"SYS_env_destroy"}
OnlySetStatus == {"SYS_env_set_status"}

OneValue == {1}
TwoValues == {1, 2}
=============================================================================
