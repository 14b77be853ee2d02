-------------------------------- MODULE Acpi --------------------------------
(***************************************************************************)
(* Finding ACPI tables (arch-intel/acpi.c).  A platform's acpi record has  *)
(* the two places where the root pointer may be (scopes), each a sequence  *)
(* of what is found at the sixteen-byte boundaries:                        *)
(*   [sig, sum, revision, xsdt, xsdtLow, rsdt]                             *)
(* with the signature and the checksum right or not, and the names of the  *)
(* tables that XSDT and RSDT list (NoTables for a null RSDT pointer).      *)
(***************************************************************************)
EXTENDS Naturals, Sequences

NoRsdp == <<0, 0>>
NoTables == <<"null">>

RsdpAt(acpi, at) == acpi.scopes[at[1]][at[2]]

\* The first signature decides, with its checksum.
find_rsdp_in_range(acpi, s) ==
  LET signed == {i \in DOMAIN acpi.scopes[s] : acpi.scopes[s][i].sig}
      first == CHOOSE i \in signed : \A j \in signed : i <= j
  IN  IF signed # {} /\ acpi.scopes[s][first].sum THEN <<s, first>> ELSE NoRsdp

\* The static rsdp after find_rsdp(), which it was before.
find_rsdp(acpi, rsdp) ==
  CASE rsdp # NoRsdp -> rsdp
    [] rsdp = NoRsdp /\ find_rsdp_in_range(acpi, 1) # NoRsdp -> find_rsdp_in_range(acpi, 1)
    [] OTHER -> find_rsdp_in_range(acpi, 2)

\* The tables that are searched: those of the XSDT from ACPI 2.0 on, unless it is
\* above 4 GB, and never those of both.
Tables(acpi, at) ==
  LET r == RsdpAt(acpi, at)
  IN  IF r.revision >= 2 /\ r.xsdtLow THEN r.xsdt ELSE r.rsdt

find_table(acpi, rsdp, name) ==
  LET at == find_rsdp(acpi, rsdp)
  IN  at # NoRsdp /\ \E i \in DOMAIN Tables(acpi, at) : Tables(acpi, at)[i] = name

vtd_bios_enabled(acpi, rsdp) == find_table(acpi, rsdp, "DMAR")
get_acpi_mcfg_table(acpi, rsdp) == find_table(acpi, rsdp, "MCFG")

\* The entries of the MADT are [ioapic, length]; the first IOAPIC must have the
\* right length.  A length of zero before it is a loop without an end.
get_acpi_ioapic_table(acpi, rsdp) ==
  LET E == acpi.madt
      stops == {i \in DOMAIN E : E[i].ioapic \/ E[i].length = 0}
      first == CHOOSE i \in stops : \A j \in stops : i <= j
  IN  CASE ~find_table(acpi, rsdp, "APIC") \/ stops = {} -> "none"
        [] OTHER -> IF ~E[first].ioapic THEN "loops"
                    ELSE IF E[first].length = 12 THEN "found" ELSE "none"

=============================================================================
