------------------------------ MODULE Machines ------------------------------
(***************************************************************************)
(* What a firmware can hand to the loader: configuration tables, RSDPs of  *)
(* both revisions, and MADTs with processors that are enabled or not, for  *)
(* the models of Boot and of System.                                       *)
(***************************************************************************)
CONSTANTS cpu0, cpu1, cpu2

Lapic(id, flags) == [Type |-> 0, APIC_ID |-> id, LAPIC_FLAGS |-> flags]
IoApic           == [Type |-> 1]
Override         == [Type |-> 2]

\* Two enabled processors between entries of other types, one disabled.
TwoOfThree == <<Lapic(cpu0, 1), IoApic, Lapic(cpu2, 0), Override, Lapic(cpu1, 1)>>
\* More enabled processors than cpus[] has entries (NCPU = 2).
ThreeCpus  == <<Lapic(cpu0, 1), Lapic(cpu1, 1), IoApic, Lapic(cpu2, 1)>>
\* The boot processor alone; the flags of the other have bit 1 set only.
OneCpu     == <<Lapic(cpu0, 1), IoApic, Lapic(cpu1, 2)>>

Sdt(sig)   == [Signature |-> sig, entries |-> <<>>]
Madt(es)   == [Signature |-> "APIC", entries |-> es]

Rsdp2(xsdt) == [Signature |-> "RSD PTR ", Revision |-> 2, XsdtAddress |-> xsdt]
Rsdp1       == [Signature |-> "RSD PTR ", Revision |-> 0]
NoRsdp      == [Signature |-> "other"]

Entry(guid, table) == [VendorGuid |-> guid, VendorTable |-> table]
New(es)  == Entry("ACPI_20_TABLE_GUID", Rsdp2(<<Sdt("FACP"), Madt(es), Sdt("HPET")>>))
Old      == Entry("ACPI_TABLE_GUID", Rsdp1)
Smbios   == Entry("SMBIOS_TABLE_GUID", NoRsdp)

Table(entries) == [ConfigurationTable |-> entries]
=============================================================================
