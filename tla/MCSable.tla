------------------------------ MODULE MCSable ------------------------------
(***************************************************************************)
(* Configurations for Sable: a complete one, and ones that differ from it  *)
(* in the image, the command line, the last module's contents, a string,   *)
(* the order, or only in a SINIT module; and ones that SABLE must turn     *)
(* down.                                                                   *)
(***************************************************************************)
EXTENDS Sable

Module(d, s) == [data |-> d, string |-> s, bad |-> FALSE, sinit |-> FALSE]
Config(i, c, n, ms) ==
  [image |-> i, cmdline |-> [text |-> c, nv |-> n],
   flagCmdline |-> TRUE, flagMods |-> TRUE, mods |-> ms]

kernel == Module("kernel", "args")
initrd == Module("initrd", Empty)
sinit == [Module("acm", "path") EXCEPT !.sinit = TRUE]
base == Config("v1", "cmd", "fits", <<kernel, initrd>>)

MCConfigs ==
  {base,
   [base EXCEPT !.image = "v2"],
   Config("v1", "cmd2", "short", <<kernel, initrd>>),
   [base EXCEPT !.mods = <<kernel, sinit, initrd>>],
   [base EXCEPT !.mods = <<sinit>>],
   [base EXCEPT !.mods = <<initrd, kernel>>],
   [base EXCEPT !.mods = <<kernel, Module("initrd2", Empty)>>],
   [base EXCEPT !.mods = <<Module("kernel", Empty), initrd>>, !.flagCmdline = FALSE],
   [base EXCEPT !.flagMods = FALSE, !.mods = <<>>],
   [base EXCEPT !.mods = <<kernel, [initrd EXCEPT !.bad = TRUE]>>],
   [base EXCEPT !.cmdline.nv = "absent"]}

\* Assumed of the configurations where equal PCRs are to mean the same configuration.
ASSUME MCSeparable == Separable

MCAuthStrings == {"srk", "other", Empty}
=============================================================================
