---------------------------- MODULE MCAmdLaunch ----------------------------
(***************************************************************************)
(* The AMD launch with two APs around three TPM commands: a machine with a *)
(* DEV, and machines that differ from it in one respect.                   *)
(***************************************************************************)
EXTENDS AmdLaunch

MCLens == {2, 3, 4}

Apic == [enable |-> TRUE, bsp |-> TRUE, high |-> FALSE, busy |-> FALSE]
Cap(id, type) == [id |-> id, type |-> type]
Other == [id |-> "other", capable |-> TRUE, caps |-> <<Cap(5, 0), Cap(15, 0)>>]
North(id, caps) == [id |-> id, capable |-> TRUE, caps |-> caps]
Slot(multi, funcs) == [multi |-> multi, funcs |-> funcs]
WithPci(pci) ==
  [svm |-> TRUE, svmdis |-> FALSE, qemu |-> FALSE, apic |-> Apic, pci |-> pci]

Good == North("K10", <<Cap(1, 0), Cap(15, 0)>>)
Plain == WithPci(<<Slot(FALSE, <<Other>>), Slot(TRUE, <<Other, Good>>), Slot(FALSE, <<Other>>)>>)

MCMachines ==
  {Plain, [Plain EXCEPT !.svm = FALSE], [Plain EXCEPT !.svmdis = TRUE],
   [Plain EXCEPT !.apic.high = TRUE], [Plain EXCEPT !.apic.busy = TRUE],
   [Plain EXCEPT !.apic.bsp = FALSE], [Plain EXCEPT !.apic.enable = FALSE],
   [Plain EXCEPT !.apic.bsp = FALSE, !.apic.enable = FALSE]}
  \cup {WithPci(<<Slot(TRUE, <<Other, Good>>), Slot(FALSE, <<g>>)>>) :
          g \in {Good, North("OLD", <<Cap(15, 1)>>), [Good EXCEPT !.capable = FALSE]}}
  \cup {[WithPci(<<Slot(FALSE, <<Other, Good>>), Slot(FALSE, <<North("LEN", <<Cap(1, 0)>>)>>)>>)
           EXCEPT !.qemu = q] : q \in BOOLEAN}
=============================================================================
