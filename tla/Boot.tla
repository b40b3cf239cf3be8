-------------------------------- MODULE Boot --------------------------------
(***************************************************************************)
(* From the firmware to the kernel's count of processors: main() of the    *)
(* UEFI loader with find_rsdp, load_kernel and get_mem_map                 *)
(* (bootloader/main.c), and mp_init with findSDT (kern/mpconfig.c), which  *)
(* the kernel runs on the pointer the loader hands to KernelStart.         *)
(*                                                                         *)
(* The loader is one thread, but it is not alone: while the boot services  *)
(* run, firmware events allocate memory between any two of its calls, and  *)
(* every change of the memory map makes the key of the last GetMemoryMap   *)
(* stale.  A step is one call of a firmware service with the code up to    *)
(* the next call.                                                          *)
(*                                                                         *)
(* The ACPI tables are data: a pointer is the table it points to, a table  *)
(* is a record of the fields the code reads, and an RSDP of revision 0 has *)
(* no field XsdtAddress (it is 20 bytes long, the field is at offset 24).  *)
(* The stores of main() to 0x10000 and 0x10008, the file calls of          *)
(* load_kernel and every cprintf are left out.                             *)
(***************************************************************************)
EXTENDS Integers, Sequences, FiniteSets, SequencesExt

CONSTANTS
    SystemTables,   \* the machines: what ST->ConfigurationTable can hold
    NCPU,           \* kern/cpu.h: the entries of cpus[]
    SLACK,          \* main.c:32, the descriptors added to the buffer (10)
    MaxMapChanges,  \* bound: firmware events change the map up to this key
    NULL

ASSUME NCPU \in Nat \ {0} /\ SLACK \in Nat \ {0} /\ MaxMapChanges \in Nat

VARIABLES
    ST,             \* the EFI system table: ST.ConfigurationTable
    mem_map,        \* the firmware's memory map: descriptors and MapKey
    boot_services,  \* the boot services have not been exited
    pc,             \* the call main() or i386_init() makes next
    rsdp,           \* main(): what find_rsdp returned
    loc,            \* the locals of get_mem_map
    map_key,        \* main(): what get_mem_map returned
    ncpu            \* mpconfig.c: cpus[i].cpu_id = i for every i < ncpu

bvars == <<ST, mem_map, boot_services, pc, rsdp, loc, map_key, ncpu>>

AcpiGuids == {"ACPI_20_TABLE_GUID", "ACPI_TABLE_GUID"}

\* memcmp("RSD PTR ", VendorTable, 8) of an entry with one of the two GUIDs.
is_rsdp(entry, guid) ==
    entry.VendorGuid = guid /\ entry.VendorTable.Signature = "RSD PTR "

-----------------------------------------------------------------------------
(* bootloader/main.c *)

\* find_rsdp without the break: the last RSDP of either GUID.
find_rsdp_no_break(table) ==
    FoldLeft(LAMBDA found, entry :
                 IF \E guid \in AcpiGuids : is_rsdp(entry, guid)
                 THEN entry.VendorTable ELSE found,
             NULL, table)

\* The loop of find_rsdp over the entries that are left, with the rsdp found
\* so far: an ACPI 2.0 table ends the search, an ACPI 1.0 table is kept
\* while the search goes on.
RECURSIVE find_rsdp_from(_, _)
find_rsdp_from(table, found) ==
    IF table = <<>> THEN found
    ELSE IF is_rsdp(Head(table), "ACPI_20_TABLE_GUID") THEN Head(table).VendorTable
    ELSE find_rsdp_from(Tail(table),
                        IF is_rsdp(Head(table), "ACPI_TABLE_GUID")
                        THEN Head(table).VendorTable ELSE found)

find_rsdp(table) == find_rsdp_from(table, NULL)

\* get_mem_map before its first call: no buffer, and a size of 0.
no_locals ==
    [EfiMemoryMapSize |-> 0, descriptors |-> FALSE, EfiMapKey |-> 0,
     status |-> "EFI_SUCCESS"]

\* The firmware's map when the loader starts: its size and its key.
first_map == [need |-> 2, key |-> 1]

\* The firmware's map after an allocation that adds d descriptors to it.
allocated(map, d) ==
    IF d = 0 THEN map ELSE [need |-> map.need + d, key |-> map.key + 1]

\* BS->GetMemoryMap: the size is checked before the buffer.
GetMemoryMapStatus ==
    IF loc.EfiMemoryMapSize < mem_map.need THEN "EFI_BUFFER_TOO_SMALL"
    ELSE IF ~loc.descriptors THEN "EFI_INVALID_PARAMETER"
    ELSE "EFI_SUCCESS"

\* What get_mem_map returns for a status that ends its loop.
returned_key(status) == IF status = "EFI_SUCCESS" THEN mem_map.key ELSE -1

CallHandleProtocol ==
    /\ pc = "HandleProtocol"
    /\ pc' \in {"find_rsdp", "returned"}
    /\ UNCHANGED <<ST, mem_map, boot_services, rsdp, loc, map_key, ncpu>>

FindRsdp ==
    /\ pc = "find_rsdp"
    /\ rsdp' = find_rsdp(ST.ConfigurationTable)
    /\ pc' = "load_kernel"
    /\ UNCHANGED <<ST, mem_map, boot_services, loc, map_key, ncpu>>

\* load_kernel: AllocatePages gives the pages of the segments, or refuses
\* them; its status is dropped and memcpy writes the segments all the same,
\* over memory that may be the firmware's.
LoadKernel ==
    /\ pc = "load_kernel"
    /\ \/ mem_map' = allocated(mem_map, 1) /\ pc' = "GetMemoryMap"
       \/ UNCHANGED mem_map /\ pc' \in {"GetMemoryMap", "hang"}
    /\ UNCHANGED <<ST, boot_services, rsdp, loc, map_key, ncpu>>

\* One call of GetMemoryMap in get_mem_map, and the return when the status
\* ends the loop.
GetMemoryMap ==
    /\ pc = "GetMemoryMap"
    /\ LET status == GetMemoryMapStatus IN
       /\ loc' = [loc EXCEPT
                    !.status = status,
                    !.EfiMemoryMapSize =
                        IF status = "EFI_INVALID_PARAMETER" THEN @ ELSE mem_map.need,
                    !.EfiMapKey = IF status = "EFI_SUCCESS" THEN mem_map.key ELSE @]
       /\ \/ /\ status = "EFI_BUFFER_TOO_SMALL"
             /\ pc' = "malloc" /\ UNCHANGED map_key
          \/ /\ status # "EFI_BUFFER_TOO_SMALL"
             /\ pc' = "printf" /\ map_key' = returned_key(status)
    /\ UNCHANGED <<ST, mem_map, boot_services, rsdp, ncpu>>

\* The body of the loop: free and malloc change the firmware's map or find
\* room in the pool, and malloc may return NULL.
GrowBuffer ==
    /\ pc = "malloc"
    /\ \E d \in {0, 1}, got \in BOOLEAN :
          /\ mem_map' = allocated(mem_map, d)
          /\ loc' = [loc EXCEPT !.EfiMemoryMapSize = @ + SLACK,
                                !.descriptors = got]
    /\ pc' = "GetMemoryMap"
    /\ UNCHANGED <<ST, boot_services, rsdp, map_key, ncpu>>

\* printf between get_mem_map and ExitBootServices: the console driver of
\* the firmware may allocate.
Printf ==
    /\ pc = "printf"
    /\ \E d \in {0, 1} : mem_map' = allocated(mem_map, d)
    /\ pc' = "ExitBootServices"
    /\ UNCHANGED <<ST, boot_services, rsdp, loc, map_key, ncpu>>

\* ExitBootServices succeeds with the key of the current map only; main()
\* drops the status.
ExitBootServices ==
    /\ pc = "ExitBootServices"
    /\ boot_services' = (map_key # mem_map.key)
    /\ pc' = "KernelStart"
    /\ UNCHANGED <<ST, mem_map, rsdp, loc, map_key, ncpu>>

\* The jump to e_entry: the kernel does not return and takes the
\* interrupts, so the locals of main() and get_mem_map and the map of a
\* firmware that runs no more are no state of the machine any longer, and
\* i386_init comes to mp_init(rsdp).
KernelStart ==
    /\ pc = "KernelStart"
    /\ pc' = "mp_init"
    /\ loc' = no_locals /\ map_key' = 0 /\ mem_map' = first_map
    /\ UNCHANGED <<ST, boot_services, rsdp, ncpu>>

\* A timer event of the firmware allocates while the loader runs.
FirmwareEvent ==
    /\ boot_services /\ mem_map.key <= MaxMapChanges
    /\ pc \notin {"mp_init", "booted", "fault", "hang", "returned"}
    /\ mem_map' = allocated(mem_map, 1)
    /\ UNCHANGED <<ST, boot_services, pc, rsdp, loc, map_key, ncpu>>

-----------------------------------------------------------------------------
(* kern/mpconfig.c *)

\* rsdp->XsdtAddress: a field of an RSDP of revision 2; behind a null
\* pointer or past the end of an RSDP of revision 0 lie other bytes, which
\* lead to no table.
XsdtAddress(r) ==
    IF r # NULL /\ "XsdtAddress" \in DOMAIN r THEN r.XsdtAddress ELSE NULL

\* The first table of the XSDT with the signature, or NULL.
findSDT(RootSDT, SDT) ==
    LET i == SelectInSeq(RootSDT, LAMBDA h : h.Signature = SDT) IN
    IF i = 0 THEN NULL ELSE RootSDT[i]

\* One entry of the MADT: a processor is counted if it is enabled.
madt_entry_unbounded(n, entry) ==
    IF entry.Type = 0 /\ entry.LAPIC_FLAGS % 2 = 1 THEN n + 1 ELSE n

\* One entry of the MADT that counts disabled processors too.
madt_entry_any_flags(n, entry) ==
    IF entry.Type = 0 /\ n < NCPU THEN n + 1 ELSE n

\* One entry of the MADT: an enabled processor is counted while cpus[] has
\* room.
madt_entry(n, entry) ==
    IF entry.Type = 0 /\ entry.LAPIC_FLAGS % 2 = 1 /\ n < NCPU THEN n + 1 ELSE n

\* mp_init(r): ncpu after the loop over the MADT, or the fault of the kernel
\* that reads a table through a pointer that leads to none (findSDT of no
\* XSDT, madt->LAPIC_ADDRESS of a null madt).
mp_init(r) ==
    LET xsdt == XsdtAddress(r)
        madt == IF xsdt = NULL THEN NULL ELSE findSDT(xsdt, "APIC")
    IN  IF madt = NULL THEN [fault |-> TRUE, ncpu |-> 0]
        ELSE [fault |-> FALSE, ncpu |-> FoldLeft(madt_entry, 0, madt.entries)]

MpInit ==
    /\ pc = "mp_init"
    /\ LET m == mp_init(rsdp) IN
       /\ ncpu' = m.ncpu
       /\ pc' = IF m.fault THEN "fault" ELSE "booted"
    /\ UNCHANGED <<ST, mem_map, boot_services, rsdp, loc, map_key>>

\* The loader has returned to the firmware or the machine has stopped, or
\* the kernel goes on with what mp_init found.
Done ==
    /\ pc \in {"booted", "fault", "hang", "returned"}
    /\ UNCHANGED bvars

-----------------------------------------------------------------------------
Init ==
    /\ ST \in SystemTables
    /\ mem_map = first_map
    /\ boot_services = TRUE
    /\ pc = "HandleProtocol"
    /\ rsdp = NULL
    /\ loc = no_locals
    /\ map_key = 0
    /\ ncpu = 0

LoaderStep ==
    \/ CallHandleProtocol \/ FindRsdp \/ LoadKernel \/ GetMemoryMap
    \/ GrowBuffer \/ Printf \/ ExitBootServices \/ KernelStart

Next == LoaderStep \/ MpInit \/ FirmwareEvent \/ Done

Spec == Init /\ [][Next]_bvars

-----------------------------------------------------------------------------
(* Properties *)

Statuses == {"EFI_SUCCESS", "EFI_BUFFER_TOO_SMALL", "EFI_INVALID_PARAMETER"}

\* The variables keep their C types and ncpu stays an index of cpus[] or
\* its size: 'if (ncpu < NCPU)' in mp_init.
BootTypeOK ==
    /\ ST \in SystemTables
    /\ mem_map.need \in Nat \ {0} /\ mem_map.key \in Nat
    /\ boot_services \in BOOLEAN
    /\ pc \in {"HandleProtocol", "find_rsdp", "load_kernel", "GetMemoryMap",
               "malloc", "printf", "ExitBootServices", "KernelStart",
               "mp_init", "booted", "fault", "hang", "returned"}
    /\ loc.EfiMemoryMapSize \in Nat /\ loc.descriptors \in BOOLEAN
    /\ loc.EfiMapKey \in Nat /\ loc.status \in Statuses
    /\ map_key \in Nat \cup {-1}
    /\ ncpu \in 0 .. NCPU

\* The RSDPs the firmware has under a GUID.
Rsdps(guid) ==
    {entry.VendorTable : entry \in {e \in Range(ST.ConfigurationTable) : is_rsdp(e, guid)}}

Searched == pc \notin {"HandleProtocol", "find_rsdp", "returned"}

\* "The UEFI specification defines two GUIDs for ACPI; one for ACPI 1.0 and
\* the other for ACPI 2.0 or later": find_rsdp hands the kernel an ACPI 2.0
\* RSDP whenever the configuration table has one, an ACPI 1.0 RSDP only
\* when it has no other, and NULL when it has none, wherever the entries
\* stand in the table.
Acpi20Preferred ==
    Searched =>
        LET new == Rsdps("ACPI_20_TABLE_GUID")
            old == Rsdps("ACPI_TABLE_GUID")
        IN  IF new # {} THEN rsdp \in new
            ELSE IF old # {} THEN rsdp \in old
            ELSE rsdp = NULL

\* The enabled processors of the MADT the kernel was led to.
EnabledLapics ==
    LET madt == findSDT(XsdtAddress(rsdp), "APIC") IN
    {i \in DOMAIN madt.entries :
        madt.entries[i].Type = 0 /\ madt.entries[i].LAPIC_FLAGS % 2 = 1}

\* "SMP: CPU %d found %d CPU(s)": when mp_init returns, ncpu is the number
\* of enabled processors of the MADT, and NCPU when the machine has more:
\* entries of other types and disabled processors between them are passed
\* over, whatever the order of the entries.
NcpuCountsEnabled ==
    pc = "booted" => ncpu = Min({NCPU, Cardinality(EnabledLapics)})

\* get_mem_map is called 'last after all other allocations' and
\* ExitBootServices is to end the firmware's work: the kernel starts on a
\* machine it owns.  main() drops the status of both calls, and this does
\* NOT hold: a firmware event or the printf between the two calls changes
\* the map, the key is stale, ExitBootServices refuses, and the kernel runs
\* with the boot services' timers and memory still live (ExitBoot.cfg).
KernelOwnsMachine ==
    pc \in {"mp_init", "booted", "fault"} => ~boot_services

=============================================================================
