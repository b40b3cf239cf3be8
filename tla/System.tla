------------------------------- MODULE System -------------------------------
(***************************************************************************)
(* The machine from power-on: the loader and mp_init (module Boot), then   *)
(* the kernel of module Kernel on the processors mp_init counted.          *)
(*                                                                         *)
(* Kernel takes its processors as a constant; here CPU is the array        *)
(* cpus[NCPU] of kern/cpu.h, and the processors that ever run kernel code  *)
(* are the boot processor and cpus[1 .. ncpu-1], the ones boot_aps starts. *)
(* A machine whose MADT has one enabled processor, or whose loader never   *)
(* reaches the kernel, is a behaviour of this module as well as the        *)
(* machine with NCPU processors.                                           *)
(***************************************************************************)
EXTENDS Kernel

CONSTANTS
    SystemTables,   \* Boot: what the firmware's configuration table can hold
    NCPU,           \* kern/cpu.h: the entries of cpus[]
    SLACK,          \* Boot: main.c:32
    MaxMapChanges,  \* Boot: bound on the firmware's events
    cpus            \* cpus[]: the processors in the order of the array

ASSUME /\ cpus \in Seq(CPU) /\ Len(cpus) = NCPU /\ Range(cpus) = CPU
       /\ Cardinality(CPU) = NCPU /\ cpus[1] = BSP

VARIABLES ST, mem_map, boot_services, stage, rsdp, loc, map_key, ncpu

B == INSTANCE Boot WITH pc <- stage

bvars == <<ST, mem_map, boot_services, stage, rsdp, loc, map_key, ncpu>>
svars == <<vars, bvars>>

\* boot_aps: the boot processor, which runs i386_init whatever mp_init
\* counted, and the other processors of cpus[0 .. ncpu-1].
Started ==
    IF stage = "booted" THEN {BSP} \cup {cpus[i] : i \in 1 .. ncpu} ELSE {}

\* A step of the loader, the firmware or mp_init: the kernel has not begun.
BootStep ==
    \/ B!CallHandleProtocol /\ UNCHANGED vars
    \/ B!FindRsdp /\ UNCHANGED vars
    \/ B!LoadKernel /\ UNCHANGED vars
    \/ B!GetMemoryMap /\ UNCHANGED vars
    \/ B!GrowBuffer /\ UNCHANGED vars
    \/ B!Printf /\ UNCHANGED vars
    \/ B!ExitBootServices /\ UNCHANGED vars
    \/ B!KernelStart /\ UNCHANGED vars
    \/ B!FirmwareEvent /\ UNCHANGED vars
    \/ B!MpInit /\ UNCHANGED vars
    \/ B!Done /\ UNCHANGED vars

\* A step of a processor that was started, after mp_init.
KernelStep == ~Panicked /\ \E c \in Started : Step(c) /\ UNCHANGED bvars

SysInit == B!Init /\ Init

SysNext == BootStep \/ KernelStep \/ (Halt /\ UNCHANGED bvars)

\* No fairness: the properties checked of the whole machine are safety
\* properties, and nothing is asked of the loader or the firmware.
SysSpec == SysInit /\ [][SysNext]_svars

-----------------------------------------------------------------------------
(* Properties: those of Boot, and of Kernel on the machines Boot finds *)

\* The loader's and mp_init's variables keep their C types, and ncpu never
\* passes the size of cpus[]: 'if (ncpu < NCPU)' in mp_init.
BootTypeOK == B!BootTypeOK

\* find_rsdp hands the kernel an ACPI 2.0 RSDP whenever the configuration
\* table has one, an ACPI 1.0 RSDP only when it has no other, and NULL when
\* it has none, wherever the entries stand in the table.
Acpi20Preferred == B!Acpi20Preferred

\* "SMP: CPU %d found %d CPU(s)": when mp_init returns, ncpu is the number
\* of enabled processors of the MADT, and NCPU when the machine has more.
NcpuCountsEnabled == B!NcpuCountsEnabled

=============================================================================
