------------------------------ MODULE MCSystem ------------------------------
(* System for TLC: the machines of Machines with cpus[] of two processors.   *)
EXTENDS System, Machines

MCCPU  == {cpu0, cpu1}
MCcpus == <<cpu0, cpu1>>

LifecycleSyscalls ==
    {"SYS_cputs", "SYS_getenvid", "SYS_env_destroy", "SYS_yield", "SYS_exofork",
     "SYS_env_set_status", "SYS_env_set_pgfault_upcall"}
BothCalls   == {"SYS_env_destroy", "SYS_env_set_status"}
OneValue    == {1}

\* More processors than cpus[] holds behind an ACPI 2.0 RSDP that stands
\* before an ACPI 1.0 one, the boot processor alone, and ACPI 1.0 alone.
MCSystemTables ==
    {Table(<<New(ThreeCpus), Smbios, Old>>),
     Table(<<New(OneCpu)>>),
     Table(<<Smbios, Old>>)}
=============================================================================
