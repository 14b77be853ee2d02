-------------------------------- MODULE Tis --------------------------------
(***************************************************************************)
(* The TPM driver of src/tis.c against the TPM chip, and the calls that    *)
(* prepare_tpm() and post_launch() (src/sable.c) make to it.  The chip     *)
(* runs on its own: it wakes up, grants a locality, finishes a command and *)
(* updates its status register between any two register accesses of the    *)
(* driver.                                                                 *)
(*                                                                         *)
(* A response is a sequence of cells <<k, j, len>>: cell j of the len      *)
(* cells that answer the k-th command.  The header is the first HDR cells, *)
(* and its paramSize is the len of cell HDR.  The transmit buffers outlive *)
(* a call, so that out keeps what earlier responses left in it.            *)
(*                                                                         *)
(* A slow chip is one that may be slower than the driver's waits: 10 ms    *)
(* for a locality, 4000 polls of 1 ms for a status.                        *)
(***************************************************************************)
EXTENDS Integers, Sequences

CONSTANTS
  Speeds,     \* of the chips that may be fitted: can one be slow?
  MaxCmds,    \* bound on the commands sent
  Lens        \* the lengths of responses, in cells

HDR == 2
NoLocality == 5
Localities == 0 .. 4
NoCell == <<0, 0, 0>>

ASSUME TisAssumption ==
  /\ Speeds \subseteq BOOLEAN
  /\ MaxCmds \in Nat
  /\ Lens \subseteq Nat /\ \A len \in Lens : len >= HDR
  /\ \E m \in Lens : \A len \in Lens : len <= m

BufSize == CHOOSE m \in Lens : \A len \in Lens : len <= m
Response(k, len) == [j \in 1 .. len |-> <<k, j, len>>]

VARIABLES
  chip,          \* the chip that is fitted: present, hidesId, accessValid, slow
  active,        \* the locality that the chip serves, or NoLocality
  pending,       \* the locality that has requested access, or NoLocality
  st,            \* the chip's state
  valid,         \* status bit TIS_STS_VALID
  complete,      \* the chip has all the bytes of the command
  fifo,          \* the response cells not yet read
  used0,         \* locality 0 has been active
  executed,      \* history: the commands that the chip has executed
  pc,            \* where the driver is
  phase,         \* what its caller does: "prepare", "post" or "over"
  tis_locality,  \* the static variable of tis.c
  cmd,           \* number and response length of the last command: [k, len]
  out,           \* tis_buffers.out
  i,             \* ret.value in tis_read(): the cells read
  size,          \* the size that tis_read() took from the header in out
  error          \* the exception that ended the boot, or "NONE"

chipVars == <<chip, active, pending, st, valid, complete, fifo, used0, executed>>
readVars == <<out, i, size>>
vars == <<chipVars, pc, phase, tis_locality, cmd, readVars, error>>

\* hidesId: whether the chip has the DID/VID bug that tis_init() describes, and
\* then whether its id stays visible once locality 0 has been active.
Chips == [present : BOOLEAN, hidesId : {"no", "untilUsed", "always"},
          accessValid : BOOLEAN, slow : Speeds]

\* May the chip outlast a wait of the driver?
Slow == chip.slow

\* The firmware may have left locality 0 active.
Init ==
  /\ chip \in Chips
  /\ active \in IF chip.present THEN {NoLocality, 0} ELSE {NoLocality}
  /\ used0 = (active = 0)
  /\ pending = NoLocality
  /\ st = "idle" /\ valid = FALSE /\ complete = FALSE /\ fifo = <<>>
  /\ executed = {}
  /\ pc = "init" /\ phase = "prepare"
  /\ tis_locality = NoLocality
  /\ cmd = [k |-> 0, len |-> 0]
  /\ out = [j \in 1 .. BufSize |-> NoCell] /\ i = 0 /\ size = 0
  /\ error = "NONE"

-----------------------------------------------------------------------------
(* The chip: external, as the driver's polling and its comments rely on it.  *)

Grant ==
  /\ pending # NoLocality /\ active = NoLocality
  /\ active' = pending /\ pending' = NoLocality
  /\ used0' = (used0 \/ pending = 0)
  /\ UNCHANGED <<chip, st, valid, complete, fifo, executed,
                 pc, phase, tis_locality, cmd, readVars, error>>

Wake ==
  /\ st = "waking" /\ st' = "ready"
  /\ UNCHANGED <<chip, active, pending, valid, complete, fifo, used0, executed,
                 pc, phase, tis_locality, cmd, readVars, error>>

UpdateStatus ==
  /\ st \in {"reception", "execution"} /\ ~valid /\ valid' = TRUE
  /\ UNCHANGED <<chip, active, pending, st, complete, fifo, used0, executed,
                 pc, phase, tis_locality, cmd, readVars, error>>

Execute ==
  /\ st = "execution"
  /\ st' = "completion" /\ valid' = TRUE
  /\ fifo' = Response(cmd.k, cmd.len)
  /\ executed' = executed \cup {cmd.k}
  /\ UNCHANGED <<chip, active, pending, complete, used0,
                 pc, phase, tis_locality, cmd, readVars, error>>

\* Writing TIS_STS_CMD_READY aborts what the chip is doing.
CmdReady == st' = "waking" /\ fifo' = <<>> /\ valid' = FALSE

dataAvail == st = "completion" /\ fifo # <<>>

-----------------------------------------------------------------------------
(* The driver.  Fail is an exception that reaches _pre_launch() or             *)
(* _post_launch(), which reboot.                                               *)

Goto(label) == pc' = label
Fail(e) == error' = e /\ phase' = "over" /\ Goto("halt")

idVisible ==
  /\ chip.present
  /\ chip.hidesId = "always" => active = 0
  /\ chip.hidesId = "untilUsed" => used0

\* What prepare_tpm() and post_launch() do when tis_init() returned.
AfterInit ==
  IF idVisible THEN Goto("access") /\ UNCHANGED <<phase, error>>
  ELSE IF phase = "prepare" THEN Fail("ERROR_BAD_TPM_VENDOR")
  ELSE Goto("halt") /\ phase' = "over" /\ UNCHANGED error

\* tis_init(): the work-around for the bug requests locality 0 and ignores the
\* outcome.  Without an id there is no TPM: prepare_tpm() throws, post_launch()
\* skips all that needs the TPM and goes on to start the kernel.
tis_init ==
  /\ pc = "init"
  /\ IF chip.present /\ ~idVisible /\ active # 0 /\ chip.accessValid
     THEN /\ Goto("fix")
          /\ tis_locality' = 0 /\ pending' = 0
          /\ UNCHANGED <<phase, error>>
     ELSE AfterInit /\ UNCHANGED <<pending, tis_locality>>
  /\ UNCHANGED <<chip, active, st, valid, complete, fifo, used0, executed, cmd, readVars>>

FixIdBug ==
  /\ pc = "fix"
  /\ Slow \/ active # NoLocality
  /\ IF active = 0 THEN CmdReady ELSE UNCHANGED <<st, fifo, valid>>
  /\ AfterInit
  /\ UNCHANGED <<chip, active, pending, complete, used0, executed, tis_locality, cmd, readVars>>

Wanted == IF phase = "prepare" THEN 0 ELSE 2

\* tis_access() up to the write of TIS_ACCESS_REQUEST.  prepare_tpm() catches
\* ERROR_TIS_LOCALITY_ALREADY_ACCESSED.
tis_access ==
  /\ pc = "access"
  /\ tis_locality' = Wanted
  /\ \/ /\ ~chip.accessValid
        /\ Fail("ERROR_TIS_LOCALITY_REGISTER_INVALID") /\ UNCHANGED pending
     \/ /\ chip.accessValid /\ active = Wanted
        /\ IF phase = "prepare" THEN Goto("ready") /\ UNCHANGED <<phase, error>>
           ELSE Fail("ERROR_TIS_LOCALITY_ALREADY_ACCESSED")
        /\ UNCHANGED pending
     \/ /\ chip.accessValid /\ active # Wanted
        /\ pending' = Wanted /\ Goto("granting") /\ UNCHANGED <<phase, error>>
  /\ UNCHANGED <<chip, active, st, valid, complete, fifo, used0, executed, cmd, readVars>>

\* The rest of tis_access(), after wait(10).  No caller forces a seizure.
AccessUnchecked ==
  /\ pc = "granting"
  /\ Slow \/ active # NoLocality
  /\ CmdReady /\ Goto("ready")
  /\ UNCHANGED <<chip, active, pending, complete, used0, executed,
                 phase, tis_locality, cmd, readVars, error>>

tis_access_end ==
  /\ pc = "granting"
  /\ Slow \/ active # NoLocality
  /\ IF active = tis_locality
     THEN CmdReady /\ Goto("ready") /\ UNCHANGED <<phase, error>>
     ELSE Fail("ERROR_TIS_LOCALITY_ACCESS_TIMEOUT") /\ UNCHANGED <<st, fifo, valid>>
  /\ UNCHANGED <<chip, active, pending, complete, used0, executed, tis_locality, cmd, readVars>>

\* A TPM_* function has packed a command and calls tis_transmit().
tis_transmit(len) ==
  /\ pc = "ready" /\ cmd.k < MaxCmds
  /\ phase = "prepare" => cmd.k = 0
  /\ cmd' = [k |-> cmd.k + 1, len |-> len]
  /\ Goto("write")
  /\ UNCHANGED <<chipVars, phase, tis_locality, readVars, error>>

\* tis_write(): wake the chip unless it is ready already.
WriteWake ==
  /\ pc = "write"
  /\ IF st = "ready" THEN Goto("writeFifo") /\ UNCHANGED <<st, fifo, valid>>
                     ELSE Goto("writeWait") /\ CmdReady
  /\ UNCHANGED <<chip, active, pending, complete, used0, executed,
                 phase, tis_locality, cmd, readVars, error>>

\* wait_state(TIS_STS_CMD_READY) and the check after it.
WriteWait ==
  /\ pc = "writeWait"
  /\ \/ st = "ready" /\ Goto("writeFifo") /\ UNCHANGED <<phase, error>>
     \/ Slow /\ st # "ready" /\ Fail("ERROR_TIS_TRANSMIT")
  /\ UNCHANGED <<chipVars, tis_locality, cmd, readVars>>

\* All bytes go to the FIFO at once, burst count unread: a slow chip may have
\* dropped some of them.
WriteFifo ==
  /\ pc = "writeFifo"
  /\ st' = "reception" /\ valid' = FALSE
  /\ complete' \in IF Slow THEN BOOLEAN ELSE {TRUE}
  /\ Goto("writeGo")
  /\ UNCHANGED <<chip, active, pending, fifo, used0, executed,
                 phase, tis_locality, cmd, readVars, error>>

\* wait_state(TIS_STS_VALID), the check of TIS_STS_EXPECT, which means nothing
\* while the status is not valid, and TIS_STS_TPM_GO, which the chip ignores as
\* long as bytes are missing.
WriteGo ==
  /\ pc = "writeGo"
  /\ valid \/ Slow
  /\ \E expect \in IF valid THEN {~complete} ELSE BOOLEAN :
       IF expect THEN Fail("ERROR_TIS_TRANSMIT") /\ UNCHANGED <<st, valid>>
       ELSE /\ Goto("readWait") /\ valid' = FALSE
            /\ st' = IF complete THEN "execution" ELSE st
            /\ UNCHANGED <<phase, error>>
  /\ UNCHANGED <<chip, active, pending, complete, fifo, used0, executed,
                 tis_locality, cmd, readVars>>

\* tis_read(): wait_state(TIS_STS_VALID | TIS_STS_DATA_AVAIL); only VALID is
\* checked after it.
ReadNoWait ==
  /\ pc = "readWait"
  /\ IF valid THEN Goto("readHeader") /\ i' = 0 /\ UNCHANGED <<phase, error>>
              ELSE Fail("ERROR_TIS_TRANSMIT") /\ UNCHANGED i
  /\ UNCHANGED <<chipVars, tis_locality, cmd, out, size>>

ReadWaitForever ==
  /\ pc = "readWait"
  /\ valid /\ dataAvail
  /\ Goto("readHeader") /\ i' = 0
  /\ UNCHANGED <<chipVars, phase, tis_locality, cmd, out, size, error>>

ReadWait ==
  /\ pc = "readWait"
  /\ (valid /\ dataAvail) \/ Slow
  /\ IF valid THEN Goto("readHeader") /\ i' = 0 /\ UNCHANGED <<phase, error>>
              ELSE Fail("ERROR_TIS_TRANSMIT") /\ UNCHANGED i
  /\ UNCHANGED <<chipVars, tis_locality, cmd, out, size>>

ReadCell ==
  /\ out' = [out EXCEPT ![i + 1] = Head(fifo)]
  /\ fifo' = Tail(fifo)
  /\ i' = i + 1

\* The first loop, and the size taken from whatever header out then holds.
ReadHeader ==
  /\ pc = "readHeader"
  /\ IF i < HDR /\ dataAvail THEN ReadCell /\ UNCHANGED <<pc, size>>
     ELSE Goto("readBody") /\ size' = out[HDR][3] /\ UNCHANGED <<out, fifo, i>>
  /\ UNCHANGED <<chip, active, pending, st, valid, complete, used0, executed,
                 phase, tis_locality, cmd, error>>

ReadBody ==
  /\ pc = "readBody"
  /\ IF i < size /\ dataAvail THEN ReadCell /\ UNCHANGED pc
     ELSE Goto("readCheck") /\ UNCHANGED <<out, fifo, i>>
  /\ UNCHANGED <<chip, active, pending, st, valid, complete, used0, executed,
                 phase, tis_locality, cmd, size, error>>

ReadUnchecked ==
  /\ pc = "readCheck"
  /\ Goto("readDone")
  /\ UNCHANGED <<chipVars, phase, tis_locality, cmd, readVars, error>>

ReadCheck ==
  /\ pc = "readCheck"
  /\ IF dataAvail THEN Fail("ERROR_TIS_TRANSMIT")
                  ELSE Goto("readDone") /\ UNCHANGED <<phase, error>>
  /\ UNCHANGED <<chipVars, tis_locality, cmd, readVars>>

\* TIS_STS_CMD_READY again, and tis_transmit() returns without an exception.
ReadDone ==
  /\ pc = "readDone"
  /\ CmdReady
  /\ Goto("returned")
  /\ UNCHANGED <<chip, active, pending, complete, used0, executed,
                 phase, tis_locality, cmd, readVars, error>>

\* The TPM_* function unpacks out and returns to its caller.
Returned ==
  /\ pc = "returned"
  /\ Goto("ready")
  /\ UNCHANGED <<chipVars, phase, tis_locality, cmd, readVars, error>>

\* The caller is done with the TPM: tis_deactivate_all() releases localities
\* 0 to 3 and throws if one stays active.
tis_deactivate_all ==
  /\ pc = "ready" /\ cmd.k > 0
  /\ \/ /\ active' = IF active \in 0 .. 3 THEN NoLocality ELSE active
        /\ IF phase = "prepare" THEN Goto("launch") /\ UNCHANGED phase
                                ELSE Goto("halt") /\ phase' = "over"
        /\ UNCHANGED error
     \/ /\ Slow /\ active \in 0 .. 3
        /\ Fail("ERROR_TIS_LOCALITY_DEACTIVATE") /\ UNCHANGED active
  /\ UNCHANGED <<chip, pending, st, valid, complete, fifo, used0, executed,
                 tis_locality, cmd, readVars>>

\* SKINIT or SENTER: the driver's memory stays as it is, post_launch() starts.
LateLaunch ==
  /\ pc = "launch"
  /\ Goto("init") /\ phase' = "post"
  /\ UNCHANGED <<chipVars, tis_locality, cmd, readVars, error>>

-----------------------------------------------------------------------------
Chip == Grant \/ Wake \/ UpdateStatus \/ Execute

Driver ==
  \/ tis_init \/ FixIdBug \/ tis_access \/ tis_access_end
  \/ WriteWake \/ WriteWait \/ WriteFifo \/ WriteGo
  \/ ReadWait \/ ReadHeader \/ ReadBody \/ ReadCheck \/ ReadDone \/ Returned
  \/ tis_deactivate_all \/ LateLaunch

Next == Chip \/ Driver \/ \E len \in Lens : tis_transmit(len)

Spec == Init /\ [][Next]_vars

\* The processor runs the driver on.  A chip in time does its part before the
\* wait for it is over; nothing is assumed of a slow one, which may have died.
FairSpec == Spec /\ WF_vars(Driver) /\ WF_vars(~Slow /\ Chip)

-----------------------------------------------------------------------------
Transmitting ==
  pc \in {"write", "writeWait", "writeFifo", "writeGo", "readWait", "readHeader",
          "readBody", "readCheck", "readDone"}

\* tis_transmit() waits for the response: when it returns without an exception
\* the chip has executed the command and out holds the answer to it.
OwnResponse ==
  pc = "returned" => /\ cmd.k \in executed
                     /\ \A j \in 1 .. cmd.len : out[j] = <<cmd.k, j, cmd.len>>

\* That holds as long as the chip answers within the driver's waits.
OwnResponseInTime == ~Slow => OwnResponse

\* Whatever the timing, what tis_transmit() returns is one whole response as
\* its own header delimits it, never the head of one and the tail of another.
OneResponse ==
  pc = "returned" =>
    LET len == out[HDR][3]
    IN \A j \in 1 .. len : out[j] = <<out[HDR][1], j, len>>

\* The driver talks to the chip only through the locality that it holds, and none
\* is active or requested when pre_launch() starts the late launch, although the
\* work-around of tis_init() takes locality 0 behind its caller's back.
HoldsLocality ==
  /\ Transmitting => active = tis_locality
  /\ pc = "launch" => active = NoLocality /\ pending = NoLocality

\* tis_transmit() returns or throws even if the chip never answers.
TransmitReturns == Transmitting ~> pc \in {"returned", "halt"}
=============================================================================
