------------------------------- MODULE MCBoot -------------------------------
(* Boot for TLC: the configuration tables and the MADTs of a few machines. *)
EXTENDS Boot, Machines

\* Both GUIDs in both orders, an ACPI 2.0 entry that is no RSDP, ACPI 1.0
\* alone, an XSDT without a MADT, and no ACPI at all.
MCSystemTables ==
    {Table(<<Smbios, Old, New(TwoOfThree)>>),
     Table(<<New(ThreeCpus), Smbios, Old>>),
     Table(<<New(OneCpu)>>),
     Table(<<Entry("ACPI_20_TABLE_GUID", NoRsdp), Old>>),
     Table(<<Entry("ACPI_20_TABLE_GUID", Rsdp2(<<Sdt("FACP")>>))>>),
     Table(<<Smbios>>)}
=============================================================================
