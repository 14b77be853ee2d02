----------------------------- MODULE MCHelpers -----------------------------
(***************************************************************************)
(* The library for TLC: a heap of twelve cells and requests on both sides  *)
(* of each block border; blocks of five bytes and messages on both sides   *)
(* of one to three of them; commands with data that just fits and does not *)
(* fit, and sizes in the responses on both sides of 0 and of 2^32; command *)
(* lines of up to five pieces.                                             *)
(***************************************************************************)
EXTENDS Helpers

MCRequests == {1, 7, 8, 9, 16, 24, 39, 40, 88}

Job(f, k, p, o) == [fn |-> f, key |-> k, parts |-> p, out |-> o]
MCJobs ==
  {Job("measure", 0, <<a, b, c>>, 0) : a, b, c \in 0 .. 11}
  \cup {Job("measure", 0, <<a>>, 0) : a \in 12 .. 40}
  \cup {Job("hmac", k, <<a, b>>, 0) : k \in 0 .. 11, a, b \in 0 .. 6}
  \cup {Job("mgf1", 0, <<a>>, o) : a \in 0 .. 6, o \in 1 .. 9}

Cmd(f, x, a, b) == [fn |-> f, n |-> x, seal |-> a, enc |-> b]
MCCommands ==
  {Cmd(f, 20, 0, 0) : f \in {"TPM_Startup", "TPM_GetRandom", "TPM_PCRRead", "TPM_Extend",
                             "TPM_OIAP", "TPM_OSAP", "TPM_NV_ReadValue"}}
  \cup {Cmd(f, x, 0, 0) : f \in {"TPM_NV_WriteValueAuth", "TPM_Seal"},
                          x \in {0, 1, 128, 312, 902, 957, 958, 5000}}
  \cup {Cmd("TPM_Unseal", 0, a, b) : a \in {1, 44, 900}, b \in {1, 256, 500}}
  \cup {Cmd("unpack", x, 0, 0) : x \in {0, 7, 8, 12, 13, 312, 1000}}
MCLengths ==
  {0, 1, 20, 44, 256, 300, 1000, 2^16 - 1000, 2^16 - 20, 2^16 - 9, 2^16 - 8, 2^16 - 1}

\* --nv-index= and --nv-size=, cut down to what they share and do not share.
ArgI == <<"-", "-", "i", "=">>
ArgS == <<"-", "-", "s", "=">>
MCArguments == {ArgI, ArgS}
Pieces == {ArgI, ArgS, <<"-">>, <<" ">>, <<"1">>, <<"7", "x">>}
MCLines == {a \o b \o c \o d \o f : a, b, c, d, f \in Pieces \cup {<<>>}}
MCNumbers ==
  {a \o b \o c \o d : a \in {<<>>, <<" ">>, <<"-">>, <<"+">>, <<"0">>, <<"0", "x">>, <<"+", "0", "X">>},
                      b, c, d \in {<<>>, <<"0">>, <<"1">>, <<"7">>, <<"9">>, <<"a">>, <<"G">>}}
=============================================================================
