-------------------------------- MODULE Sable --------------------------------
(***************************************************************************)
(* The boot flow of src/sable.c, over any number of boots: pre_launch(),   *)
(* the late launch, post_launch() with mbi_calc_hash(), configure() and    *)
(* trusted_boot(), and the start of the kernel.  One action is one TPM     *)
(* command, one prompt, or the code between two of them.  The TPM's        *)
(* nonvolatile area outlives a boot; everything else is lost when the      *)
(* machine reboots or loses power, which may happen between any two steps. *)
(*                                                                         *)
(* A configuration is what the multiboot loader hands over: the SABLE      *)
(* image, SABLE's command line, the flags, and the modules in order, with  *)
(* the SINIT modules among them.                                           *)
(* Digests are modelled as what was hashed: PCR 19 is the sequence of the  *)
(* items extended into it, so that equal PCRs mean equal sequences.        *)
(***************************************************************************)
EXTENDS Naturals, Sequences, Functions

CONSTANTS
  Configs,       \* the configurations that a boot may be started with
  Passphrases,   \* what the user may type as passphrase
  AuthStrings,   \* what the user may type as authdata
  SrkAuth,       \* the authdata of the TPM's storage root key
  NvAuth,        \* the authdata of the nonvolatile area
  Debug          \* is it a build without NDEBUG?

Empty == "empty"          \* the string of length 0
Zero == "zero_authdata"
NoBlob == [whole |-> FALSE]
None == "none"
Handles == 1 .. 2

\* A module is bad when mod_end < mod_start.  nv says what --nv-size= gives:
\* enough for a sealed blob, too little, or no such argument.
ASSUME SableAssumption ==
  /\ \A c \in Configs :
       /\ DOMAIN c = {"image", "cmdline", "flagCmdline", "flagMods", "mods"}
       /\ c.flagCmdline \in BOOLEAN /\ c.flagMods \in BOOLEAN
       /\ c.cmdline.nv \in {"fits", "short", "absent"}
       /\ c.mods \in Seq(Range(c.mods))
       /\ \A k \in 1 .. Len(c.mods) : c.mods[k].bad \in BOOLEAN /\ c.mods[k].sinit \in BOOLEAN
  /\ Debug \in BOOLEAN
  /\ None \notin Passphrases

VARIABLES
  intel,     \* is it the Intel TXT build, or the AMD SKINIT one?
  nv,        \* the nonvolatile area: the sealed blob that was written last
  config,    \* what this boot was started with
  pc,        \* where SABLE is
  mbi,       \* the multiboot information: the modules now (mods), the one that
             \* mbi_calc_hash() is at, and the kernel with its modules (started)
  pcr,       \* the TPM's PCRs: launch is PCR 17 (AMD) or 18 (Intel), and PCR 19
  open,      \* the TPM's open authorisation sessions, as a set of handles
  sessions,  \* the static array of sable.c
  typed,     \* what the user has typed in this boot: a function of the prompt
  blob,      \* the sealed data in memory
  shown,     \* the passphrase on the screen
  why        \* why the last boot ended

vars == <<intel, nv, config, pc, mbi, pcr, open, sessions, typed, blob, shown, why>>
volatile == <<mbi, pcr, open, sessions, typed, blob, shown>>

NULL == [handle |-> 0, osap |-> FALSE, nonceOdd |-> None]
Unmeasured == [launch |-> None, p19 |-> <<>>]
NothingTyped == [prompt \in {"config", "pp", "ppAuth", "srkAuth", "nvAuth", "yes"} |-> None]

NoMbi == [mods |-> <<>>, at |-> 0, started |-> <<>>]

VolatileReset ==
  /\ mbi' = NoMbi /\ pcr' = Unmeasured /\ open' = {}
  /\ sessions' = [s \in 0 .. 1 |-> NULL]
  /\ typed' = NothingTyped /\ blob' = NoBlob /\ shown' = None

Init ==
  /\ intel \in BOOLEAN
  /\ nv = NoBlob
  /\ config \in Configs
  /\ pc = "off" /\ mbi = NoMbi /\ pcr = Unmeasured /\ open = {}
  /\ sessions = [s \in 0 .. 1 |-> NULL]
  /\ typed = NothingTyped /\ blob = NoBlob /\ shown = None
  /\ why = "NONE"

-----------------------------------------------------------------------------
(* Ends of a boot.                                                           *)

\* reboot() and exit(), the latter also from fail(), i.e. a failed ASSERT, and
\* from the handlers of _pre_launch() and _post_launch().
Reboot(reason) ==
  /\ pc' = "off" /\ why' = reason
  /\ VolatileReset
  /\ UNCHANGED <<intel, nv, config>>

PowerLoss == pc # "off" /\ Reboot("POWER")

\* Where an exception of the TIS or of the TPM may be thrown.  The nonce at the
\* start of unseal_passphrase() is missing: its exception is dropped.
Throws ==
  {"prepare", "access", "hashCmdline", "hashModule", "hashString",
   "read17", "read19", "sealNonce", "sealOSAP", "sealNonceOdd", "info17", "info19",
   "seal", "writeOIAP", "writeNonceOdd", "write", "read", "unsealOSAP",
   "unsealOIAP", "unsealNonceOdd", "unseal", "deactivateOff", "deactivate"}

TpmFault == pc \in Throws /\ Reboot("FAULT")

-----------------------------------------------------------------------------
(* Up to the late launch.                                                    *)

Goto(label) == pc' = label
Keep(unchanged) == UNCHANGED <<intel, config, why>> /\ UNCHANGED unchanged

PowerOn(c) ==
  /\ pc = "off"
  /\ config' = c /\ Goto("prepare") /\ why' = "NONE"
  /\ mbi' = [NoMbi EXCEPT !.mods = c.mods]
  /\ UNCHANGED <<intel, nv, pcr, open, sessions, typed, blob, shown>>

prepare_tpm ==
  /\ pc = "prepare" /\ Goto("platform")
  /\ Keep(<<nv, volatile>>)

\* The platform passes the checks.  The late launch resets the dynamic PCRs and
\* measures the image.
pre_launch ==
  /\ pc = "platform"
  /\ pcr' = [launch |-> config.image, p19 |-> <<>>]
  /\ Goto("post_launch")
  /\ Keep(<<nv, mbi, open, sessions, typed, blob, shown>>)

\* The platform does not pass: Intel stops in while (1), AMD throws.
PlatformFails ==
  /\ pc = "platform"
  /\ \/ intel /\ Goto("hang") /\ Keep(<<nv, volatile>>)
     \/ ~intel /\ Reboot("PLATFORM")

\* remove_txt_modules() walks from the last module down to the second.
IsSinit(m) == m.sinit
NotFirstSinit(ms) ==
  LET kept[k \in 0 .. Len(ms)] ==
        IF k = 0 THEN <<>>
        ELSE IF k > 1 /\ IsSinit(ms[k]) THEN kept[k - 1] ELSE Append(kept[k - 1], ms[k])
  IN  kept[Len(ms)]

SinitStays == mbi' = mbi

remove_txt_modules == mbi' = [mbi EXCEPT !.mods = NotFirstSinit(@)]

\* What undoes the launch: intel_post_launch() stops in while (1) when the
\* platform is not as it was, and prints when a module is not in RAM;
\* revert_skinit() throws.
intel_post_launch ==
  /\ pc = "post_launch" /\ intel
  /\ \/ Goto("hang") /\ UNCHANGED mbi
     \/ Goto("arguments") /\ remove_txt_modules
  /\ Keep(<<nv, pcr, open, sessions, typed, blob, shown>>)

revert_skinit ==
  /\ pc = "post_launch" /\ ~intel
  /\ \/ Reboot("PLATFORM")
     \/ Goto("arguments") /\ Keep(<<nv, volatile>>)

\* cmdlineArgVal() asserts that the argument is there; without a TPM the boot
\* goes on, unprotected.
post_launch ==
  /\ pc = "arguments"
  /\ \/ config.cmdline.nv = "absent" /\ Reboot("ASSERT")
     \/ /\ config.cmdline.nv # "absent"
        /\ Goto("access") \/ Goto("launch_kernel")
        /\ Keep(<<nv, volatile>>)

tis_access ==
  /\ pc = "access" /\ Goto("hashCmdline")
  /\ Keep(<<nv, volatile>>)

-----------------------------------------------------------------------------
(* mbi_calc_hash(): SABLE's command line, then each module and its string.   *)

At(k) == mbi' = [mbi EXCEPT !.at = k]

TPM_Extend(item) == pcr' = [pcr EXCEPT !.p19 = Append(@, item)]

HashCmdline ==
  /\ pc = "hashCmdline"
  /\ \/ /\ config.flagMods /\ Len(mbi.mods) > 0
        /\ IF config.flagCmdline THEN TPM_Extend(config.cmdline.text) ELSE UNCHANGED pcr
        /\ At(1) /\ Goto("hashModule")
        /\ Keep(<<nv, open, sessions, typed, blob, shown>>)
     \/ (~config.flagMods \/ mbi.mods = <<>>) /\ Reboot("MODULE")

SkipLastModule ==
  IF mbi.at + 1 < Len(mbi.mods) THEN At(mbi.at + 1) /\ Goto("hashModule")
                                ELSE At(mbi.at) /\ Goto("read17")

NextModule ==
  IF mbi.at < Len(mbi.mods) THEN At(mbi.at + 1) /\ Goto("hashModule")
                            ELSE At(mbi.at) /\ Goto("read17")

HashModule ==
  /\ pc = "hashModule"
  /\ \/ /\ ~mbi.mods[mbi.at].bad
        /\ TPM_Extend(mbi.mods[mbi.at].data)
        /\ IF mbi.mods[mbi.at].string # Empty THEN At(mbi.at) /\ Goto("hashString")
                                              ELSE NextModule
        /\ Keep(<<nv, open, sessions, typed, blob, shown>>)
     \/ mbi.mods[mbi.at].bad /\ Reboot("MODULE")

HashString ==
  /\ pc = "hashString"
  /\ TPM_Extend(mbi.mods[mbi.at].string)
  /\ NextModule
  /\ Keep(<<nv, open, sessions, typed, blob, shown>>)

-----------------------------------------------------------------------------
(* TPM commands whose result only matters when it is an exception: the PCRs  *)
(* that post_launch() prints and get_pcr_info() reads, and random numbers.   *)

TPM_PCRRead ==
  LET after == [read17 |-> "read19", read19 |-> "askConfig",
                info17 |-> "info19", info19 |-> "seal"]
  IN  /\ pc \in DOMAIN after /\ Goto(after[pc])
      /\ Keep(<<nv, volatile>>)

\* unseal_passphrase() goes on whether or not it got a random number.
TPM_GetRandom ==
  /\ \/ pc = "sealNonce" /\ Goto("sealOSAP")
     \/ pc = "unsealNonce" /\ Goto("unsealOSAP")
  /\ Keep(<<nv, volatile>>)

-----------------------------------------------------------------------------
(* Authorisation sessions.                                                   *)

\* TPM_OIAP() and TPM_OSAP() leave nonceOdd to the caller.
OpenSession(s, osap) ==
  \E h \in Handles \ open :
    /\ open' = open \cup {h}
    /\ sessions' = [sessions EXCEPT ![s] = [handle |-> h, osap |-> osap, nonceOdd |-> None]]

\* With continueAuthSession FALSE the TPM ends the session, and SABLE forgets it.
CloseSessions(S) ==
  /\ open' = open \ {sessions[s].handle : s \in S}
  /\ sessions' = [s \in 0 .. 1 |-> IF s \in S THEN NULL ELSE sessions[s]]

TPM_OSAP ==
  /\ pc \in {"sealOSAP", "unsealOSAP"}
  /\ OpenSession(0, TRUE)
  /\ Goto(IF pc = "sealOSAP" THEN "sealNonceOdd" ELSE "unsealOIAP")
  /\ Keep(<<nv, mbi, pcr, typed, blob, shown>>)

OiapInSlot0 ==
  /\ \/ pc = "writeOIAP" /\ OpenSession(0, FALSE) /\ Goto("writeNonceOdd")
     \/ pc = "unsealOIAP" /\ OpenSession(0, FALSE) /\ Goto("unsealNonceOdd")
  /\ Keep(<<nv, mbi, pcr, typed, blob, shown>>)

TPM_OIAP ==
  /\ \/ pc = "writeOIAP" /\ OpenSession(0, FALSE) /\ Goto("writeNonceOdd")
     \/ pc = "unsealOIAP" /\ OpenSession(1, FALSE) /\ Goto("unsealNonceOdd")
  /\ Keep(<<nv, mbi, pcr, typed, blob, shown>>)

get_nonce(s, from, to) ==
  /\ pc = from /\ Goto(to)
  /\ sessions' = [sessions EXCEPT ![s].nonceOdd = "random"]
  /\ Keep(<<nv, mbi, pcr, open, typed, blob, shown>>)

NonceOdd ==
  \/ get_nonce(0, "sealNonceOdd", "info17")
  \/ get_nonce(0, "writeNonceOdd", "write")
  \/ get_nonce(1, "unsealNonceOdd", "unseal")

-----------------------------------------------------------------------------
(* Prompts.                                                                  *)

Type(prompt, answer) ==
  /\ typed' = [typed EXCEPT ![prompt] = answer]
  /\ Keep(<<nv, mbi, pcr, open, sessions, blob, shown>>)

AskConfig ==
  /\ pc = "askConfig"
  /\ \E a \in {"y", "n", "s"} :
       /\ Goto(CASE a = "y" -> "askPassphrase"
                 [] a = "s" /\ Debug -> "launch_kernel"
                 [] OTHER -> "read")
       /\ Type("config", a)

AskPassphrase ==
  /\ pc = "askPassphrase" /\ Goto("askPpAuth")
  /\ \E p \in Passphrases : Type("pp", p)

\* get_authdata(): an empty answer stands for the well-known authdata.
get_authdata(from, prompt, to) ==
  /\ pc = from /\ Goto(to)
  /\ \E a \in AuthStrings : Type(prompt, IF a = Empty THEN Zero ELSE a)

AskAuthdata ==
  \/ get_authdata("askPpAuth", "ppAuth", "askSrkAuth")
  \/ get_authdata("askSrkAuth", "srkAuth", "sealNonce")
  \/ get_authdata("askNvAuth", "nvAuth", "writeOIAP")
  \/ get_authdata("bootPpAuth", "ppAuth", "bootSrkAuth")
  \/ get_authdata("bootSrkAuth", "srkAuth", "unsealNonce")

-----------------------------------------------------------------------------
(* configure().                                                              *)

\* get_pcr_info(): both PCRs as they are now, for creation and for release.
get_pcr_info == <<pcr.launch, pcr.p19>>

\* The new blob; config is history: the boot that sealed it.
TPM_Seal ==
  blob' = [whole |-> TRUE, pp |-> typed["pp"], auth |-> typed["ppAuth"],
           digest |-> get_pcr_info, config |-> config]

\* The TPM checks the SRK's authdata.
seal_passphrase ==
  /\ pc = "seal"
  /\ \/ /\ typed["srkAuth"] = SrkAuth
        /\ TPM_Seal
        /\ CloseSessions({0}) /\ Goto("askNvAuth")
        /\ Keep(<<nv, mbi, pcr, typed, shown>>)
     \/ typed["srkAuth"] # SrkAuth /\ Reboot("AUTHFAIL")

\* NV_WriteValueAuth() is given --nv-size= bytes of the blob, however long it is.
Stored == [blob EXCEPT !.whole = (config.cmdline.nv = "fits")]

WriteUnchecked == nv' = Stored

TPM_NV_WriteValueAuth ==
  /\ typed["nvAuth"] = NvAuth
  /\ nv' = Stored

\* The TPM may have written although the driver then throws, in which case
\* nothing but the area survives.
write_passphrase ==
  /\ pc = "write"
  /\ \/ /\ TPM_NV_WriteValueAuth
        /\ CloseSessions({0}) /\ Goto("deactivateOff")
        /\ Keep(<<mbi, pcr, typed, blob, shown>>)
     \/ /\ TPM_NV_WriteValueAuth
        /\ Goto("off") /\ why' = "FAULT" /\ VolatileReset
        /\ UNCHANGED <<intel, config>>
     \/ typed["nvAuth"] # NvAuth /\ Reboot("AUTHFAIL")

ConfigureDone == pc = "deactivateOff" /\ Reboot("CONFIGURED")

-----------------------------------------------------------------------------
(* trusted_boot().                                                           *)

TPM_NV_ReadValue == blob' = nv

\* Whether what was read holds a whole blob: otherwise the unpacking exits.
unpack_TPM_STORED_DATA12 == nv.whole /\ config.cmdline.nv = "fits"

ReadRetries ==
  /\ pc = "read"
  /\ \/ unpack_TPM_STORED_DATA12 /\ TPM_NV_ReadValue /\ Goto("bootPpAuth")
     \/ ~unpack_TPM_STORED_DATA12 /\ UNCHANGED <<blob, pc>>
  /\ Keep(<<nv, mbi, pcr, open, sessions, typed, shown>>)

read_passphrase ==
  /\ pc = "read"
  /\ \/ /\ unpack_TPM_STORED_DATA12
        /\ TPM_NV_ReadValue /\ Goto("bootPpAuth")
        /\ Keep(<<nv, mbi, pcr, open, sessions, typed, shown>>)
     \/ ~unpack_TPM_STORED_DATA12 /\ Reboot("UNPACK")

UnsealSwapped == typed["srkAuth"] = blob.auth /\ typed["ppAuth"] = SrkAuth

\* The TPM checks both authdata, then the PCRs.
TPM_Unseal == typed["srkAuth"] = SrkAuth /\ typed["ppAuth"] = blob.auth

unseal_passphrase ==
  /\ pc = "unseal"
  /\ \/ /\ TPM_Unseal /\ blob.digest = get_pcr_info
        /\ shown' = blob.pp
        /\ CloseSessions({0, 1}) /\ Goto("askYes")
        /\ Keep(<<nv, mbi, pcr, typed, blob>>)
     \/ ~TPM_Unseal /\ Reboot("AUTHFAIL")
     \/ TPM_Unseal /\ blob.digest # get_pcr_info /\ Reboot("WRONGPCR")

ConfirmAny(a) == TRUE

\* memcmp() looks at the first three characters.
Confirms(a) == a \in {"YES", "YES+"}

AskYes ==
  /\ pc = "askYes"
  /\ \E a \in {"YES", "YES+", "yes", Empty} :
       \/ Confirms(a) /\ Goto("deactivate") /\ Type("yes", a)
       \/ ~Confirms(a) /\ Reboot("REFUSED")

DeactivateAll ==
  /\ pc = "deactivate" /\ Goto("launch_kernel")
  /\ Keep(<<nv, volatile>>)

\* The kernel is the first module; the others go with it, on Intel only the
\* initrd, which is the next one.
StartFirst(ms, others) ==
  mbi' = [mods |-> Tail(ms), at |-> 0, started |-> <<Head(ms)>> \o others]

\* On Intel it returns only when there is no module, and it stops in while (1)
\* when expand_linux_image() finds no room, or no Linux kernel, which a SINIT
\* module is not.
launch_kernel ==
  /\ pc = "launch_kernel"
  /\ LET ms == NotFirstSinit(mbi.mods)
     IN  \/ (~intel \/ ms = <<>>) /\ Goto("start_module") /\ UNCHANGED mbi
         \/ intel /\ ms # <<>> /\ Goto("hang") /\ mbi' = [NoMbi EXCEPT !.mods = Tail(ms)]
         \/ /\ intel /\ ms # <<>> /\ ~IsSinit(ms[1]) /\ Goto("kernel")
            /\ StartFirst(ms, IF Len(ms) > 1 THEN <<ms[2]>> ELSE <<>>)
  /\ Keep(<<nv, pcr, open, sessions, typed, blob, shown>>)

\* It throws when there is no module, or the first is no kernel.
start_module ==
  /\ pc = "start_module"
  /\ \/ /\ mbi.mods # <<>> /\ ~IsSinit(mbi.mods[1]) /\ Goto("kernel")
        /\ StartFirst(mbi.mods, Tail(mbi.mods))
        /\ Keep(<<nv, pcr, open, sessions, typed, blob, shown>>)
     \/ Reboot("MODULE")

-----------------------------------------------------------------------------
Step ==
  \/ prepare_tpm \/ pre_launch \/ PlatformFails
  \/ intel_post_launch \/ revert_skinit \/ post_launch \/ tis_access
  \/ HashCmdline \/ HashModule \/ HashString
  \/ TPM_PCRRead \/ TPM_GetRandom \/ TPM_OSAP \/ TPM_OIAP \/ NonceOdd
  \/ AskConfig \/ AskPassphrase \/ AskAuthdata
  \/ seal_passphrase \/ write_passphrase \/ ConfigureDone
  \/ read_passphrase \/ unseal_passphrase \/ AskYes \/ DeactivateAll
  \/ launch_kernel \/ start_module

Next ==
  \/ Step \/ TpmFault \/ PowerLoss
  \/ \E c \in Configs : PowerOn(c)

Spec == Init /\ [][Next]_vars

\* SABLE runs on one processor without interrupts, and the user answers.
FairSpec == Spec /\ WF_vars(Step)

-----------------------------------------------------------------------------
(* Properties.                                                               *)

\* What a complete measurement of modules ms, and of configuration c, extends
\* into PCR 19.
ModuleItem(m) == <<m.data>> \o (IF m.string = Empty THEN <<>> ELSE <<m.string>>)
ModuleItems(ms) ==
  LET items[k \in 0 .. Len(ms)] == IF k = 0 THEN <<>> ELSE items[k - 1] \o ModuleItem(ms[k])
  IN  items[Len(ms)]
CmdlineItems(c) == IF c.flagCmdline THEN <<c.cmdline.text>> ELSE <<>>
\* The configuration as far as it is measured: without the SINIT modules on Intel.
MeasuredOn(txt, c) == IF txt THEN [c EXCEPT !.mods = NotFirstSinit(@)] ELSE c
Measured(c) == MeasuredOn(intel, c)
ItemsOn(txt, c) == CmdlineItems(c) \o ModuleItems(MeasuredOn(txt, c).mods)
Items(c) == ItemsOn(intel, c)

\* Configurations that post_launch() measures to the end.
Measurable(txt, c) ==
  LET ms == MeasuredOn(txt, c).mods
  IN  /\ c.cmdline.nv # "absent" /\ c.flagMods /\ ms # <<>>
      /\ \A k \in DOMAIN ms : ~ms[k].bad

\* The image and the items tell the measured configurations apart.  The code does
\* not see to it: mbi_calc_hash() extends the items without their lengths or their
\* places, so that a string could as well be the contents of a further module.
Separable ==
  \A txt \in BOOLEAN : \A c, d \in Configs :
    /\ Measurable(txt, c) /\ Measurable(txt, d)
    /\ c.image = d.image /\ ItemsOn(txt, c) = ItemsOn(txt, d)
    => MeasuredOn(txt, c) = MeasuredOn(txt, d)

BeginsWith(items, first) == Len(first) <= Len(items) /\ SubSeq(items, 1, Len(first)) = first

\* A kernel runs only if the user has confirmed the passphrase of this very boot,
\* which is the stored one and was sealed under the PCRs as they are now; or if
\* post_launch() found no TPM, or a debug build was told to skip.
KernelConfirmed ==
  pc = "kernel" =>
    \/ /\ shown # None /\ shown = nv.pp /\ nv.digest = <<pcr.launch, pcr.p19>>
       /\ typed["yes"] \in {"YES", "YES+"}
    \/ typed = NothingTyped
    \/ Debug /\ typed["config"] = "s"

\* The kernel that runs after a confirmation, and the modules that it is given, are
\* those that the passphrase was sealed under, from the first one on, although the
\* list of modules was cut before the measurement and again after it.
StartedMeasured ==
  pc = "kernel" /\ shown # None =>
    BeginsWith(nv.digest[2], CmdlineItems(config) \o ModuleItems(mbi.started))

\* The sessions that an authorised command uses are of the right kind and open
\* in the TPM, although sessions[0] serves several commands in turn, and none is
\* left behind in the TPM when SABLE is done with it.
SessionsHeld ==
  LET live(s, osap) == sessions[s].handle \in open /\ sessions[s].osap = osap
  IN  /\ pc = "seal" => live(0, TRUE)
      /\ pc = "write" => live(0, FALSE)
      /\ pc = "unseal" => live(0, TRUE) /\ live(1, FALSE)
                           /\ sessions[0].handle # sessions[1].handle
      /\ pc \in {"askNvAuth", "deactivateOff", "askYes", "deactivate", "kernel"} => open = {}

\* The nonvolatile area changes only in a configure() whose SRK and area authdata
\* were right, and then holds what was typed, bound to this configuration; a
\* crash, a fault or a refusal at any step leaves it alone.
WrittenByOwner ==
  [][nv' # nv =>
       /\ typed["config"] = "y" /\ typed["srkAuth"] = SrkAuth /\ typed["nvAuth"] = NvAuth
       /\ nv'.pp = typed["pp"] /\ nv'.auth = typed["ppAuth"]
       /\ nv'.config = config /\ nv'.digest = <<config.image, Items(config)>>]_vars

\* The sealed configuration is running, SINIT modules aside, and both authdata are right.
Rightful ==
  /\ Measured(nv.config) = Measured(config)
  /\ typed["ppAuth"] = nv.auth /\ typed["srkAuth"] = SrkAuth

\* TPM_Unseal puts the passphrase on the screen only if it was sealed under this
\* configuration and both authdata typed are right; and then only a fault of the
\* TPM or a loss of power keeps it off.
ShownWhenRight ==
  [][IF pc = "unseal" /\ Rightful
     THEN shown' = nv.pp \/ why' \in {"FAULT", "POWER"}
     ELSE shown' \in {shown, None}]_vars

Over == pc \in {"off", "kernel", "hang"}

\* A boot comes to an end: the kernel, a reboot, or the stop of a failed check.
BootEnds == ~Over ~> Over

\* How far the boot is, as TrustedBoot sees it.
phase ==
  CASE pc = "off" -> "off"
    [] pc = "kernel" -> IF shown # None THEN "running" ELSE "bare"
    [] pc = "askYes" -> "revealed"
    [] pc # "kernel" /\ shown # None /\ typed["yes"] # None -> "confirmed"
    [] OTHER -> "up"

TB == INSTANCE TrustedBoot WITH
  Configs <- Configs \cup {[c EXCEPT !.mods = NotFirstSinit(@)] : c \in Configs},
  config <- Measured(config),
  Nothing <- None, display <- shown,
  secret <- IF nv = NoBlob THEN {} ELSE {[pp |-> nv.pp, config |-> Measured(nv.config)]}

\* The promise of TrustedBoot is kept: what the code shows and starts is what it allows.
TrustedBootSpec == TB!Spec

==============================================================================
