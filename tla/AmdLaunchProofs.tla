-------------------------- MODULE AmdLaunchProofs --------------------------
(***************************************************************************)
(* The TPM driver and the AMD launch between its two uses, for every chip, *)
(* every set of response lengths, every set of APs and every machine.      *)
(***************************************************************************)
EXTENDS AmdLaunch, TLAPS, WellFoundedInduction

\* The steps of the launch are LateLaunch, an exception or nothing to the driver.
TisStep == Chip \/ Driver \/ (\E len \in Lens : tis_transmit(len)) \/ (\E err : Throw(err))

LEMMA StepsOfDriver == [AmdNext]_<<vars, amdVars>> => TisStep \/ UNCHANGED vars
<1> SUFFICES ASSUME [AmdNext]_<<vars, amdVars>> PROVE TisStep \/ UNCHANGED vars
  OBVIOUS
<1>1. CASE UNCHANGED <<vars, amdVars>>
  BY <1>1
<1>2. CASE UseTpm
  BY <1>2 DEF UseTpm, TisStep
<1>3. CASE ChipRuns
  BY <1>3 DEF ChipRuns, TisStep
<1>4. CASE \E m \in Machines : check_cpuid(m)
  BY <1>4 DEF check_cpuid, On, TisStep
<1>5. CASE EnableSvm
  BY <1>5 DEF EnableSvm, enable_svm, On, TisStep
<1>6. CASE stop_processors
  BY <1>6 DEF stop_processors, send_ipi, On, TisStep
<1>7. CASE do_skinit
  BY <1>7 DEF do_skinit, Driver, TisStep
<1>8. CASE disable_dev_protection
  <2> DEFINE a == dev_get_addr
  <2> HIDE DEF a
  <2>1. (UNCHANGED vars) \/ Throw(a.error)
    BY <1>8 DEF disable_dev_protection, On, a
  <2>2. QED
    BY <2>1 DEF TisStep
<1>9. CASE start_processors
  BY <1>9 DEF start_processors, send_ipi, On, TisStep
<1>10. CASE FixupDone
  BY <1>10 DEF FixupDone, On
<1>11. CASE \E a \in APs : Processor(a)
  BY <1>11 DEF Processor, Accept, TakeInit, smp_init
<1>12. QED
  BY <1>1, <1>2, <1>3, <1>4, <1>5, <1>6, <1>7, <1>8, <1>9, <1>10, <1>11 DEF AmdNext, Launch

-----------------------------------------------------------------------------
(* Localities.                                                               *)

Held == Transmitting \/ pc \in {"ready", "returned"}

\* Where a request for a locality is open, and what is active there.  In tis_init()'s
\* work-around the id stays hidden until locality 0 has been granted.
LocalityInv ==
  /\ pc \in {"init", "access", "launch"} => pending = NoLocality
  /\ pc = "init" => active \in {NoLocality, 0}
  /\ pc = "fix" => \/ pending = NoLocality /\ active = 0
                   \/ pending = 0 /\ active = NoLocality /\ ~idVisible
  /\ pc = "granting" =>
       /\ tis_locality \in {0, 2}
       /\ \/ pending = tis_locality /\ active # tis_locality
          \/ pending = NoLocality /\ active = tis_locality
  /\ Held => tis_locality \in {0, 2} /\ active = tis_locality /\ pending = NoLocality
  /\ pc = "launch" => active = NoLocality

LEMMA InitLocality == AmdInit => LocalityInv
BY SMTT(30) DEF AmdInit, Init, LocalityInv, Held, Transmitting, NoLocality

LEMMA StepLocality == LocalityInv /\ (TisStep \/ UNCHANGED vars) => LocalityInv'
<1> SUFFICES ASSUME LocalityInv, TisStep \/ UNCHANGED vars PROVE LocalityInv'
  OBVIOUS
<1> USE DEF LocalityInv, Held, Transmitting, NoLocality, Goto, chipVars, readVars
<1>1. CASE UNCHANGED vars
  BY <1>1 DEF vars, idVisible
<1>2. CASE Grant
  BY <1>2 DEF Grant
<1>3. CASE Wake \/ UpdateStatus \/ Execute
  BY <1>3 DEF Wake, UpdateStatus, Execute, idVisible
<1>4. CASE tis_init
  BY <1>4 DEF tis_init, AfterInit, Fail, idVisible
<1>5. CASE FixIdBug
  BY <1>5 DEF FixIdBug, AfterInit, Fail, idVisible
<1>6. CASE tis_access
  BY <1>6 DEF tis_access, Fail, Wanted
<1>7. CASE tis_access_end
  BY <1>7 DEF tis_access_end, Fail
<1>8. CASE \E len \in Lens : tis_transmit(len)
  BY <1>8 DEF tis_transmit
<1>9. CASE WriteWake \/ WriteWait \/ WriteFifo \/ WriteGo
  BY <1>9, Zenon DEF WriteWake, WriteWait, WriteFifo, WriteGo, Fail
<1>10. CASE ReadWait \/ ReadHeader \/ ReadBody \/ ReadCheck \/ ReadDone \/ Returned
  BY <1>10 DEF ReadWait, ReadHeader, ReadBody, ReadCheck, ReadDone, Returned, Fail
<1>11. CASE tis_deactivate_all
  BY <1>11 DEF tis_deactivate_all, Fail
<1>12. CASE LateLaunch
  BY <1>12 DEF LateLaunch
<1>13. CASE \E err : Throw(err)
  BY <1>13 DEF Throw, Fail
<1>14. QED
  BY <1>1, <1>2, <1>3, <1>4, <1>5, <1>6, <1>7, <1>8, <1>9, <1>10, <1>11, <1>12, <1>13
  DEF TisStep, Chip, Driver

\* The driver talks to the chip only through the locality it holds, and none is
\* active or requested at SKINIT (tis_access(), tis_init(), tis_deactivate_all()).
THEOREM LocalityAlwaysHeld == AmdSpec => []HoldsLocality
<1>1. LocalityInv => HoldsLocality
  BY DEF LocalityInv, HoldsLocality, Held
<1>2. QED
  BY InitLocality, StepsOfDriver, StepLocality, <1>1, PTL DEF AmdSpec

-----------------------------------------------------------------------------
(* Responses.                                                                *)

Cell == Nat \X Nat \X Nat
Receiving == pc \in {"readHeader", "readBody", "readCheck"}

\* out holds one response as its header delimits it.
Whole == \A j \in 1 .. out[HDR][3] : out[j] = <<out[HDR][1], j, out[HDR][3]>>

\* out starts with n cells of the answer to the last command, the FIFO with the others.
Read(n) == \A j \in 1 .. n : out[j] = <<cmd.k, j, cmd.len>>
Rest(n) ==
  /\ Len(fifo) = cmd.len - n
  /\ \A j \in 1 .. Len(fifo) : fifo[j] = <<cmd.k, n + j, cmd.len>>

ResponseTypes ==
  /\ cmd \in [k : Nat, len : Nat] /\ i \in Nat
  /\ out \in [1 .. BufSize -> Cell] /\ fifo \in Seq(Cell)

\* While tis_read() receives, nothing of the answer is lost: what is not in out is in
\* the FIFO.  With no cell read yet out holds what an earlier command left there, and
\* the chip may still be executing this one.
ResponseInv ==
  /\ ResponseTypes
  /\ Transmitting => cmd.len \in Lens
  /\ st = "execution" => fifo = <<>>
  /\ ~Receiving /\ pc \notin {"readWait", "readDone", "halt"} =>
       fifo = <<>> /\ st \notin {"execution", "completion"}
  /\ pc = "readWait" /\ fifo # <<>> => Rest(0)
  /\ Receiving =>
       /\ i <= cmd.len /\ Read(i)
       /\ fifo # <<>> => Rest(i)
       /\ i > 0 => st = "completion" /\ (fifo = <<>> => i = cmd.len)
       /\ i = 0 => Whole
  /\ ~Receiving /\ pc # "halt" => Whole

LEMMA BufSizeBounds == BufSize \in Lens /\ \A len \in Lens : len <= BufSize
BY TisAssumption, Zenon DEF BufSize

LEMMA InitResponse == AmdInit => ResponseInv
<1> SUFFICES ASSUME AmdInit PROVE ResponseInv
  OBVIOUS
<1>1. BufSize \in Nat /\ BufSize >= HDR
  BY BufSizeBounds, TisAssumption
<1>2. ResponseTypes
  BY <1>1 DEF AmdInit, Init, ResponseTypes, Cell, NoCell
<1>3. Whole
  BY <1>1 DEF AmdInit, Init, Whole, NoCell, HDR
<1>4. QED
  BY <1>2, <1>3 DEF AmdInit, Init, ResponseInv, Transmitting, Receiving

\* One cell moves from the FIFO to out.
LEMMA CellRead ==
  ASSUME ResponseInv, Receiving, dataAvail, ReadCell, UNCHANGED <<cmd, st>>
  PROVE  /\ ResponseTypes' /\ i' > 0 /\ i' <= cmd.len /\ Read(i)'
         /\ fifo' # <<>> => Rest(i)'
         /\ fifo' = <<>> => i' = cmd.len
<1>1. /\ cmd.len \in Lens /\ cmd.len \in Nat /\ cmd.k \in Nat /\ i \in Nat /\ BufSize \in Nat
      /\ cmd.len <= BufSize /\ fifo \in Seq(Cell) /\ fifo # <<>> /\ Rest(i) /\ Read(i)
  BY BufSizeBounds, TisAssumption DEF ResponseInv, ResponseTypes, Transmitting, Receiving, dataAvail
<1>2. /\ Len(fifo) \in Nat /\ Len(fifo) > 0 /\ i < cmd.len
      /\ Head(fifo) = <<cmd.k, i + 1, cmd.len>> /\ Head(fifo) \in Cell
  <2>1. Len(fifo) \in Nat /\ Len(fifo) > 0 /\ Head(fifo) = fifo[1]
    BY <1>1
  <2>2. i < cmd.len /\ fifo[1] = <<cmd.k, i + 1, cmd.len>>
    BY <1>1, <2>1 DEF Rest
  <2>3. fifo[1] \in Cell
    BY <1>1, <2>1, SMTT(30)
  <2>4. QED
    BY <2>1, <2>2, <2>3
<1>3. /\ Tail(fifo) \in Seq(Cell) /\ Len(Tail(fifo)) = Len(fifo) - 1
      /\ \A j \in 1 .. Len(fifo) - 1 : Tail(fifo)[j] = fifo[j + 1]
  BY <1>1
<1>4. ResponseTypes'
  BY <1>1, <1>2, <1>3 DEF ReadCell, ResponseInv, ResponseTypes
<1>5. Read(i)'
  BY <1>1, <1>2 DEF ReadCell, Read, ResponseInv, ResponseTypes
<1>6. Rest(i)'
  <2>1. Len(fifo') = cmd'.len - i'
    BY <1>1, <1>2, <1>3, SMTT(30) DEF ReadCell, Rest
  <2>2. ASSUME NEW j \in 1 .. Len(fifo') PROVE fifo'[j] = <<cmd.k, i + 1 + j, cmd.len>>
    <3>1. j + 1 \in 1 .. Len(fifo) /\ fifo'[j] = fifo[j + 1]
      BY <1>2, <1>3 DEF ReadCell
    <3>2. fifo[j + 1] = <<cmd.k, i + (j + 1), cmd.len>>
      BY <1>1, <3>1, SMTT(30) DEF Rest
    <3>3. i + (j + 1) = i + 1 + j
      BY <1>1, <1>2, <1>3 DEF ReadCell
    <3>4. QED
      BY <3>1, <3>2, <3>3
  <2>3. QED
    BY <2>1, <2>2, Zenon DEF ReadCell, Rest
<1>7. fifo' = <<>> => i' = cmd.len
  <2>1. fifo' = <<>> => Len(fifo') = 0
    OBVIOUS
  <2>2. QED
    <3>1. Len(fifo') = cmd.len - (i + 1)
      BY <1>6 DEF Rest, ReadCell
    <3>2. i' = i + 1
      BY DEF ReadCell
    <3>3. QED
      BY <1>1, <2>1, <3>1, <3>2
<1>8. QED
  BY <1>1, <1>2, <1>4, <1>5, <1>6, <1>7, SMTT(30) DEF ReadCell

LEMMA StepResponse == ResponseInv /\ (TisStep \/ UNCHANGED vars) => ResponseInv'
<1> SUFFICES ASSUME ResponseInv, TisStep \/ UNCHANGED vars PROVE ResponseInv'
  OBVIOUS
<1> USE DEF Goto, chipVars, readVars
<1>a. ASSUME UNCHANGED <<out, fifo, cmd, i, st, pc>> PROVE ResponseInv'
  BY <1>a DEF ResponseInv, ResponseTypes, Transmitting, Receiving, Whole, Read, Rest
\* Nothing is received before and after, and the FIFO is left alone or emptied.
<1>b. ASSUME ~Receiving, ~Receiving', pc # "halt", UNCHANGED <<out, i>>,
             cmd' \in [k : Nat, len : Nat], Transmitting' => cmd'.len \in Lens,
             fifo' = <<>>, st' \notin {"execution", "completion"}
      PROVE  ResponseInv'
  <2>1. ResponseTypes' /\ Whole'
    BY <1>b DEF ResponseInv, ResponseTypes, Whole
  <2>2. QED
    BY <2>1, <1>b DEF ResponseInv
<1>c. ASSUME UNCHANGED <<out, i, cmd>>, pc' = "halt", fifo' = fifo, st' = st PROVE ResponseInv'
  BY <1>c DEF ResponseInv, ResponseTypes, Receiving, Transmitting
<1>1. CASE UNCHANGED vars
  BY <1>1, <1>a DEF vars
<1>2. CASE Grant \/ UpdateStatus
  BY <1>2, <1>a DEF Grant, UpdateStatus
<1>3. CASE Wake
  BY <1>3, SMTT(30) DEF Wake, ResponseInv, ResponseTypes, Transmitting, Receiving, Whole, Read, Rest
<1>4. CASE Execute
  <2>1. cmd.k \in Nat /\ cmd.len \in Nat
    BY DEF ResponseInv, ResponseTypes
  <2>2. fifo' \in Seq(Cell) /\ Len(fifo') = cmd.len
    BY <1>4, <2>1 DEF Execute, Response, Cell
  <2>3. \A j \in 1 .. Len(fifo') : fifo'[j] = <<cmd.k, j, cmd.len>>
    BY <1>4, <2>1, <2>2 DEF Execute, Response
  <2>4. ResponseTypes'
    BY <1>4, <2>2 DEF Execute, ResponseInv, ResponseTypes
  <2>5. Receiving => i = 0
    BY <1>4 DEF Execute, ResponseInv, ResponseTypes
  <2>6. ASSUME pc \in {"readWait"} \/ Receiving PROVE Rest(0)'
    BY <1>4, <2>1, <2>2, <2>3 DEF Rest, Execute
  <2>7. QED
    BY <1>4, <2>1, <2>4, <2>5, <2>6
    DEF Execute, ResponseInv, Receiving, Transmitting, Whole, Read
<1>5. CASE tis_init \/ FixIdBug \/ tis_access \/ tis_access_end
  <2>1. /\ ~Receiving /\ ~Receiving' /\ ~Transmitting' /\ pc # "halt"
        /\ fifo' = <<>> /\ st' \notin {"execution", "completion"} /\ UNCHANGED <<out, i, cmd>>
    BY <1>5, SMTT(30) DEF tis_init, FixIdBug, tis_access, tis_access_end, AfterInit, Fail, CmdReady,
                ResponseInv, Receiving, Transmitting
  <2>2. QED
    BY <2>1, <1>b, SMTT(30) DEF ResponseInv, ResponseTypes
<1>6. CASE \E len \in Lens : tis_transmit(len)
  <2>1. cmd' \in [k : Nat, len : Nat] /\ cmd'.len \in Lens
    BY <1>6, TisAssumption DEF tis_transmit, ResponseInv, ResponseTypes
  <2>2. QED
    BY <2>1, <1>6, <1>b DEF tis_transmit, ResponseInv, Receiving
<1>7. CASE WriteWake \/ WriteWait \/ WriteFifo
  <2>1. /\ ~Receiving /\ ~Receiving' /\ Transmitting /\ pc # "halt"
        /\ fifo' = <<>> /\ st' \notin {"execution", "completion"} /\ UNCHANGED <<out, i, cmd>>
    BY <1>7, Zenon DEF WriteWake, WriteWait, WriteFifo, Fail, CmdReady, ResponseInv, Receiving, Transmitting
  <2>2. QED
    BY <2>1, <1>b DEF ResponseInv, ResponseTypes
<1>8. CASE WriteGo
  BY <1>8 DEF WriteGo, Fail, ResponseInv, ResponseTypes, Transmitting, Receiving, Whole
<1>9. CASE ReadWait
  <2>1. CASE valid
    BY <1>9, <2>1 DEF ReadWait, ResponseInv, ResponseTypes, Transmitting, Receiving, Whole, Read, Rest
  <2>2. CASE ~valid
    BY <1>9, <2>2, <1>c DEF ReadWait, Fail
  <2>3. QED
    BY <2>1, <2>2
<1>10. CASE ReadHeader \/ ReadBody
  <2>1. Receiving /\ Receiving' /\ UNCHANGED <<cmd, st>>
    BY <1>10 DEF ReadHeader, ReadBody, Receiving
  <2>2. CASE dataAvail /\ ReadCell
    <3>1. /\ ResponseTypes' /\ i' > 0 /\ i' <= cmd'.len /\ Read(i)'
          /\ fifo' # <<>> => Rest(i)'
          /\ fifo' = <<>> => i' = cmd'.len
      BY <2>1, <2>2, CellRead
    <3>2. st' = "completion" /\ cmd'.len \in Lens /\ i' \in Nat
      BY <2>1, <2>2, <3>1, SMTT(30) DEF dataAvail, ResponseInv, Receiving, Transmitting, ResponseTypes
    <3>3. QED
      BY <2>1, <3>1, <3>2 DEF ResponseInv, Receiving
  <2>3. CASE UNCHANGED <<out, fifo, i>>
    BY <2>1, <2>3 DEF ResponseInv, ResponseTypes, Transmitting, Receiving, Whole, Read, Rest
  <2>4. QED
    BY <1>10, <2>2, <2>3 DEF ReadHeader, ReadBody
<1>11. CASE ReadCheck
  <2>1. CASE dataAvail
    BY <1>11, <2>1, <1>c, SMTT(30) DEF ReadCheck, Fail
  <2>2. CASE ~dataAvail
    <3>1. i = 0 \/ i = cmd.len
      BY <1>11, <2>2 DEF ReadCheck, dataAvail, ResponseInv, ResponseTypes, Receiving
    <3>2. cmd.len \in Lens /\ cmd.len \in Nat /\ cmd.len >= HDR
      BY <1>11, TisAssumption, SMTT(30) DEF ReadCheck, ResponseInv, ResponseTypes, Transmitting
    <3>3. Whole
      BY <1>11, <3>1, <3>2, SMTT(30) DEF ReadCheck, ResponseInv, Receiving, Whole, Read, HDR
    <3>4. QED
      BY <1>11, <2>2, <3>3 DEF ReadCheck, ResponseInv, ResponseTypes, Receiving, Transmitting, Whole
  <2>3. QED
    BY <2>1, <2>2
<1>12. CASE ReadDone
  BY <1>12, <1>b, SMTT(30) DEF ReadDone, CmdReady, Receiving, Transmitting, ResponseInv, ResponseTypes
<1>13. CASE Returned \/ tis_deactivate_all \/ LateLaunch
  <2>1. /\ ~Receiving /\ ~Receiving' /\ ~Transmitting' /\ pc # "halt"
        /\ fifo' = <<>> /\ st' \notin {"execution", "completion"} /\ UNCHANGED <<out, i, cmd>>
    BY <1>13 DEF Returned, tis_deactivate_all, LateLaunch, Fail, ResponseInv, Receiving, Transmitting
  <2>2. QED
    BY <2>1, <1>b, SMTT(30) DEF ResponseInv, ResponseTypes
<1>14. CASE \E err : Throw(err)
  BY <1>14, <1>c DEF Throw, Fail
<1>15. QED
  BY <1>1, <1>2, <1>3, <1>4, <1>5, <1>6, <1>7, <1>8, <1>9, <1>10, <1>11, <1>12, <1>13, <1>14
  DEF TisStep, Chip, Driver

\* tis_transmit() never returns the head of one response and the tail of another,
\* whatever the timing of the chip and the lengths of its answers (tis_read()).
THEOREM ResponseAlwaysOne == AmdSpec => []OneResponse
<1>1. ResponseInv => OneResponse
  BY SMTT(30) DEF ResponseInv, OneResponse, Whole, Receiving
<1>2. QED
  BY InitResponse, StepsOfDriver, StepResponse, <1>1, PTL DEF AmdSpec

-----------------------------------------------------------------------------
(* A chip in time.                                                           *)

\* tis_read() starts when the whole answer waits in the FIFO, so that the header it
\* takes the size from is the header of this answer.
InTimeInv ==
  ~Slow =>
    /\ pc = "writeGo" => complete
    /\ pc = "readWait" => /\ st \in {"execution", "completion"}
                          /\ st = "completion" => cmd.k \in executed
    /\ Receiving => st = "completion" /\ cmd.k \in executed /\ (fifo = <<>> => i = cmd.len)
    /\ pc = "readBody" => i >= HDR /\ size = cmd.len
    /\ pc = "readCheck" => i = cmd.len
    /\ pc \in {"readDone", "returned"} => cmd.k \in executed /\ Read(cmd.len)

LEMMA StepInTime == InTimeInv /\ ResponseInv /\ (TisStep \/ UNCHANGED vars) => InTimeInv'
<1> SUFFICES ASSUME InTimeInv, ResponseInv, TisStep \/ UNCHANGED vars PROVE InTimeInv'
  BY SMTT(30)
<1> USE DEF Goto, chipVars, readVars, InTimeInv, Slow, Receiving
<1>1. CASE UNCHANGED vars \/ Grant \/ UpdateStatus \/ Wake
  BY <1>1, SMTT(30) DEF vars, Grant, UpdateStatus, Wake, Read
<1>2. CASE Execute
  <2>1. cmd.len \in Nat
    BY SMTT(30) DEF ResponseInv, ResponseTypes
  <2>2. QED
    BY <1>2, <2>1, Zenon DEF Execute, Read
<1>3. CASE tis_init \/ FixIdBug \/ tis_access \/ tis_access_end
  BY <1>3, SMTT(30) DEF tis_init, FixIdBug, tis_access, tis_access_end, AfterInit, Fail
<1>4. CASE (\E len \in Lens : tis_transmit(len)) \/ WriteWake \/ WriteWait
  BY <1>4 DEF tis_transmit, WriteWake, WriteWait, Fail
<1>5. CASE WriteFifo
  BY <1>5 DEF WriteFifo
<1>6. CASE WriteGo
  BY <1>6 DEF WriteGo, Fail
<1>7. CASE ReadWait
  BY <1>7 DEF ReadWait, Fail, dataAvail
<1>8. ASSUME Receiving, dataAvail, ReadCell, UNCHANGED <<chip, pc, st, cmd, executed, size>>,
             pc \in {"readHeader", "readBody"}
      PROVE  InTimeInv'
  <2>1. fifo' = <<>> => i' = cmd.len
    BY <1>8, CellRead
  <2>2. i \in Nat /\ i' = i + 1
    BY <1>8 DEF ReadCell, ResponseInv, ResponseTypes
  <2>3. QED
    BY <1>8, <2>1, <2>2 DEF HDR
<1>9. CASE ReadHeader
  <2>1. CASE i < HDR /\ dataAvail
    BY <1>8, <1>9, <2>1, SMTT(30) DEF ReadHeader
  <2>2. CASE ~(i < HDR /\ dataAvail)
    <3>1. SUFFICES ASSUME ~Slow PROVE InTimeInv'
      BY <1>9, <2>2 DEF ReadHeader
    <3>2. cmd.len \in Nat /\ cmd.len >= HDR /\ i \in Nat /\ i <= cmd.len /\ Read(i)
      BY <1>9, TisAssumption, SMTT(30) DEF ReadHeader, ResponseInv, ResponseTypes, Transmitting
    <3>3. i >= HDR
      BY <1>9, <2>2, <3>1, <3>2, SMTT(30) DEF ReadHeader, dataAvail, HDR
    <3>4. out[HDR] = <<cmd.k, HDR, cmd.len>>
      BY <3>2, <3>3, SMTT(30) DEF Read, HDR
    <3>5. size' = cmd.len
      BY <1>9, <2>2, <3>4, SMTT(30) DEF ReadHeader
    <3>6. QED
      BY <1>9, <2>2, <3>1, <3>3, <3>5, SMTT(30) DEF ReadHeader
  <2>3. QED
    BY <2>1, <2>2, SMTT(30)
<1>10. CASE ReadBody
  <2>1. CASE i < size /\ dataAvail
    BY <1>8, <1>10, <2>1 DEF ReadBody
  <2>2. CASE ~(i < size /\ dataAvail)
    <3>1. SUFFICES ASSUME ~Slow PROVE InTimeInv'
      BY <1>10, <2>2 DEF ReadBody
    <3>2. cmd.len \in Nat /\ i \in Nat /\ i <= cmd.len /\ size = cmd.len
      BY <1>10, <3>1 DEF ReadBody, ResponseInv, ResponseTypes
    <3>3. i = cmd.len
      BY <1>10, <2>2, <3>1, <3>2, SMTT(30) DEF ReadBody, dataAvail
    <3>4. QED
      BY <1>10, <2>2, <3>1, <3>3, SMTT(30) DEF ReadBody
  <2>3. QED
    BY <2>1, <2>2, SMTT(30)
<1>11. CASE ReadCheck
  <2>1. Read(i)
    BY <1>11 DEF ReadCheck, ResponseInv
  <2>2. QED
    BY <1>11, <2>1 DEF ReadCheck, Fail, Read
<1>12. CASE ReadDone
  BY <1>12 DEF ReadDone, Read
<1>13. CASE Returned \/ tis_deactivate_all \/ LateLaunch
  BY <1>13 DEF Returned, tis_deactivate_all, LateLaunch, Fail
<1>14. CASE \E err : Throw(err)
  BY <1>14 DEF Throw, Fail
<1>15. QED
  BY <1>1, <1>2, <1>3, <1>4, <1>5, <1>6, <1>7, <1>9, <1>10, <1>11, <1>12, <1>13, <1>14, Zenon
  DEF TisStep, Chip, Driver

\* If the chip answers within the driver's waits, tis_transmit() returns only with
\* the command executed and the answer to it in out (wait_state(), tis_read()).
THEOREM ResponseAlwaysOwn == AmdSpec => []OwnResponseInTime
<1>1. AmdInit => InTimeInv
  BY DEF AmdInit, Init, InTimeInv, Receiving
<1>2. InTimeInv => OwnResponseInTime
  BY DEF InTimeInv, OwnResponseInTime, OwnResponse, Read
<1>3. QED
  BY InitResponse, StepsOfDriver, StepResponse, StepInTime, <1>1, <1>2, PTL DEF AmdSpec

-----------------------------------------------------------------------------
(* The processors.                                                           *)

After == step \in {"revert", "fixup", "starting", "done"}

Cpus == [at : {"run", "init", "halted"}, svm : BOOLEAN, gif : BOOLEAN]

LaunchTypes ==
  /\ cpu \in [APs \cup {BSP} -> Cpus]
  /\ icr \in [kind : {"none", "INIT", "SIPI"}, to : SUBSET APs]
  /\ inbox \in [APs -> {"none", "INIT", "SIPI"}]

\* An INIT is on its way only while pre_launch() waits for it, and until then each AP
\* is running, has an INIT before it, or is stopped.
StopInv ==
  /\ LaunchTypes
  /\ step \in {"off", "enable", "stop", "stopping", "starting", "done"} \cup {"revert", "fixup"}
  /\ step \in {"off", "enable", "stop", "revert", "fixup"} =>
       icr.to = {} /\ \A a \in APs : inbox[a] = "none"
  /\ step = "stopping" /\ machine.apic.enable =>
       \A a \in APs : a \in icr.to \/ inbox[a] = "INIT" \/ cpu[a].at # "run"
  /\ step = "stopping" => icr.kind = "INIT"
  /\ step \in {"starting", "done"} =>
       /\ icr.to # {} => icr.kind = "SIPI"
       /\ \A a \in APs : inbox[a] # "INIT"
  /\ After /\ machine.apic.enable => \A a \in APs : cpu[a].at # "run"
  /\ \A a \in APs : cpu[a].at = "halted" => cpu[a].svm /\ cpu[a].gif

LEMMA CpuUpdates ==
  ASSUME NEW c \in Cpus
  PROVE  /\ [c EXCEPT !.svm = TRUE] \in Cpus /\ [c EXCEPT !.gif = FALSE] \in Cpus
         /\ [[c EXCEPT !.svm = TRUE] EXCEPT !.gif = TRUE] = [at |-> c.at, svm |-> TRUE, gif |-> TRUE]
         /\ [at |-> c.at, svm |-> TRUE, gif |-> TRUE] \in Cpus
<1>0. c = [at |-> c.at, svm |-> c.svm, gif |-> c.gif]
  BY DEF Cpus
<1>1. /\ c.at \in {"run", "init", "halted"}
      /\ c.svm \in BOOLEAN /\ c.gif \in BOOLEAN
  BY DEF Cpus
<1> DEFINE T == TRUE
           F == FALSE
<1> HIDE DEF T, F
<1>2. [c EXCEPT !.svm = T] = [at |-> c.at, svm |-> T, gif |-> c.gif]
  BY <1>0
<1>3. [c EXCEPT !.gif = F] = [at |-> c.at, svm |-> c.svm, gif |-> F]
  BY <1>0
<1>4. [[c EXCEPT !.svm = T] EXCEPT !.gif = T] = [at |-> c.at, svm |-> T, gif |-> T]
  <2>1. ASSUME NEW d, d = [at |-> c.at, svm |-> T, gif |-> c.gif]
        PROVE  [d EXCEPT !.gif = T] = [at |-> c.at, svm |-> T, gif |-> T]
    BY <2>1
  <2>2. QED
    BY <1>2, <2>1, Zenon
<1>5. [at |-> c.at, svm |-> TRUE, gif |-> c.gif] \in Cpus
  BY <1>1 DEF Cpus
<1>6. [at |-> c.at, svm |-> c.svm, gif |-> FALSE] \in Cpus
  BY <1>1 DEF Cpus
<1>7. [at |-> c.at, svm |-> TRUE, gif |-> TRUE] \in Cpus
  BY <1>1 DEF Cpus
<1> USE DEF T, F
<1>8. QED
  BY <1>2, <1>3, <1>4, <1>5, <1>6, <1>7, Zenon

LEMMA StepStop == StopInv /\ [AmdNext]_<<vars, amdVars>> => StopInv'
<1> SUFFICES ASSUME StopInv, [AmdNext]_<<vars, amdVars>> PROVE StopInv'
  OBVIOUS
<1> USE DEF After, LaunchTypes
<1>a. BSP \notin APs
  BY AmdLaunchAssumption
<1>b. cpu[BSP] \in Cpus
  BY DEF StopInv
<1>1. CASE UNCHANGED <<vars, amdVars>> \/ UseTpm \/ ChipRuns
  BY <1>1, SMTT(30) DEF StopInv, UseTpm, ChipRuns, amdVars
<1>2. CASE \E m \in Machines : check_cpuid(m)
  BY <1>2 DEF StopInv, check_cpuid, On
\* Only the BSP changes.
<1>3. ASSUME NEW r \in Cpus,
             cpu' = [cpu EXCEPT ![BSP] = r]
      PROVE  cpu' \in [APs \cup {BSP} -> Cpus]
             /\ \A a \in APs : cpu'[a] = cpu[a]
  BY <1>3, <1>a DEF StopInv
<1>4. CASE EnableSvm
  <2>1. CASE machine.svmdis
    BY <1>4, <2>1 DEF StopInv, EnableSvm, enable_svm
  <2>2. CASE ~machine.svmdis
    <3> DEFINE r == [cpu[BSP] EXCEPT !.svm = TRUE]
    <3>1. r \in Cpus
      BY <1>b, CpuUpdates, Zenon
    <3>2. cpu' = [cpu EXCEPT ![BSP] = r]
      BY <1>4, <2>2 DEF EnableSvm, enable_svm
    <3> HIDE DEF r
    <3>3. step' = "stop" /\ UNCHANGED <<machine, icr, inbox>> /\ step = "enable"
      BY <1>4, <2>2 DEF EnableSvm, enable_svm, On
    <3>4. QED
      BY <1>3, <3>1, <3>2, <3>3, Zenon DEF StopInv
  <2>3. QED
    BY <2>1, <2>2
<1>5. CASE stop_processors
  <2>1. CASE IpiRefused
    BY <1>5, <2>1 DEF StopInv, stop_processors, send_ipi
  <2>2. CASE ~IpiRefused
    BY <1>5, <2>2 DEF StopInv, stop_processors, send_ipi, On
  <2>3. QED
    BY <2>1, <2>2, SMTT(30)
<1>6. CASE do_skinit
  <2> DEFINE r == [cpu[BSP] EXCEPT !.gif = FALSE]
  <2>1. r \in Cpus
    BY <1>b, CpuUpdates, Zenon
  <2>2. cpu' = [cpu EXCEPT ![BSP] = r]
    BY <1>6 DEF do_skinit
  <2> HIDE DEF r
  <2>3. /\ step' = "revert" /\ UNCHANGED <<machine, icr, inbox>> /\ step = "stopping"
        /\ icr.to = {} /\ \A a \in APs : inbox[a] = "none"
    BY <1>6 DEF do_skinit
  <2>4. QED
    BY <1>3, <2>1, <2>2, <2>3, ZenonT(60) DEF StopInv
<1>7. CASE disable_dev_protection
  <2> DEFINE addr == dev_get_addr
  <2>1. step = "revert" /\ step' \in {"revert", "fixup", "done"} /\ UNCHANGED <<machine, cpu, icr, inbox>>
    <3> HIDE DEF addr
    <3>1. QED
      BY <1>7 DEF disable_dev_protection, On, addr
  <2>2. QED
    BY <2>1 DEF StopInv
<1>8. CASE start_processors
  <2>1. CASE IpiRefused
    BY <1>8, <2>1, SMTT(30) DEF StopInv, start_processors, send_ipi
  <2>2. CASE ~IpiRefused
    BY <1>8, <2>2, SMTT(30) DEF StopInv, start_processors, send_ipi, On
  <2>3. QED
    BY <2>1, <2>2, SMTT(30)
<1>9. CASE FixupDone
  <2> DEFINE r == [[cpu[BSP] EXCEPT !.svm = TRUE] EXCEPT !.gif = TRUE]
  <2>0. r \in Cpus
    BY <1>b, CpuUpdates, Zenon
  <2>1. cpu' = [cpu EXCEPT ![BSP] = r]
    BY <1>9, Zenon DEF StopInv, FixupDone
  <2> HIDE DEF r
  <2>2. step = "starting" /\ step' = "done" /\ UNCHANGED <<machine, icr, inbox>>
    BY <1>9 DEF FixupDone, On
  <2>3. QED
    BY <1>3, <2>0, <2>1, <2>2, ZenonT(60) DEF StopInv
<1>10. ASSUME NEW a \in APs, Accept(a) PROVE StopInv'
  <2>1. /\ icr' = [kind |-> icr.kind, to |-> icr.to \ {a}] /\ a \in icr.to
        /\ inbox' = [inbox EXCEPT ![a] = icr.kind] /\ UNCHANGED <<machine, step, cpu>>
    BY <1>10, Zenon DEF Accept, StopInv
  <2>2. QED
    BY <2>1 DEF StopInv
<1>11. ASSUME NEW a \in APs, TakeInit(a) PROVE StopInv'
  BY <1>11, <1>a DEF StopInv, TakeInit, Cpus
<1>12. ASSUME NEW a \in APs, smp_init(a) PROVE StopInv'
  BY <1>12, <1>a DEF StopInv, smp_init, Cpus
<1>13. QED
  BY <1>1, <1>2, <1>4, <1>5, <1>6, <1>7, <1>8, <1>9, <1>10, <1>11, <1>12
  DEF AmdNext, Launch, Processor

LEMMA InitStop == AmdInit => StopInv
BY AmdLaunchAssumption DEF AmdInit, StopInv, LaunchTypes, Cpus, After, NotSent

\* On every machine that delivers the INIT no AP executes anything of its own from
\* SKINIT on (do_skinit(), stop_processors(), start_processors()).
THEOREM ApsAlwaysStopped == AmdSpec => []ApsStopped
<1>1. StopInv => ApsStopped
  BY DEF StopInv, ApsStopped, After
<1>2. QED
  BY InitStop, StepStop, <1>1, PTL DEF AmdSpec

-----------------------------------------------------------------------------
(* The Device Exclusion Vector.                                              *)

Controls == [en : BOOLEAN, sldev : BOOLEAN]

LEMMA LeastOf ==
  ASSUME NEW S, S \subseteq Nat, S # {}
  PROVE  \E k \in S : \A j \in S : k <= j
<1> DEFINE R == {ss \in Nat \X Nat : ss[1] < ss[2]}
<1>1. IsWellFoundedOn(R, Nat)
  BY NatLessThanWellFounded DEF OpToRel
<1> HIDE DEF R
<1>2. PICK k \in S : \A j \in S : ~(<<j, k>> \in R)
  BY <1>1, WFMin, Zenon
<1>3. \A j \in S : ~(j < k)
  BY <1>2, Zenon DEF R
<1>4. QED
  BY <1>3

\* What dev_get_addr() finds is a DEV that the search of the bus can see.
LEMMA DevFound ==
  ASSUME machine \in Machines, dev_get_addr.error = "NONE"
  PROVE  dev_get_addr.at \in Devs
<1> DEFINE ids == {n \in DOMAIN DevIds : pci_find_device(DevIds[n]) # {}}
           first == CHOOSE n \in ids : \A k \in ids : n <= k
           f == CHOOSE g \in pci_find_device(DevIds[first]) : TRUE
           k == pci_dev_find_cap(f, DEV_PCI_CAP_ID)
<1>1. /\ ids # {} /\ Function(f).capable /\ k # 0 /\ Function(f).caps[k].type = 0
      /\ dev_get_addr.at = f
  <2> HIDE DEF ids, f, k
  <2>1. dev_get_addr = CASE ids = {} -> [error |-> "ERROR_DEV"]
        [] ids # {} /\ ~Function(f).capable -> [error |-> "ERROR_PCI"]
        [] ids # {} /\ Function(f).capable /\ (k = 0 \/ Function(f).caps[k].type # 0) ->
             [error |-> "ERROR_DEV"]
        [] OTHER -> [error |-> "NONE", at |-> f]
    BY Zenon DEF dev_get_addr, ids, f, k
  <2>2. QED
    BY <2>1, SMTT(30)
<1>2. first \in ids
  <2>1. ids \subseteq 1 .. 4
    BY DEF DevIds
  <2>2. \E n \in ids : \A j \in ids : n <= j
    <3> HIDE DEF ids
    <3>1. QED
      <4>1. ids \subseteq Nat
        BY <2>1
      <4>2. QED
        BY <1>1, <4>1, LeastOf, Zenon
  <2>3. QED
    <3> HIDE DEF ids
    <3>1. QED
      BY <2>2
<1>3. f \in pci_find_device(DevIds[first])
  BY <1>2, Zenon
<1> HIDE DEF first, f, k
<1>4. f \in Visible /\ Function(f).id = DevIds[first] /\ first \in DOMAIN DevIds
  BY <1>2, <1>3 DEF pci_find_device
<1>5. Function(f).caps \in Seq([id : Nat, type : Nat])
  <2>1. f[1] \in DOMAIN machine.pci /\ f[2] \in 1 .. 8
        /\ f[2] <= IF machine.pci[f[1]].multi THEN Len(machine.pci[f[1]].funcs) ELSE 1
    BY <1>4 DEF Visible
  <2> DEFINE funcs == machine.pci[f[1]].funcs
  <2>2. funcs \in Seq([id : STRING, capable : BOOLEAN, caps : Seq([id : Nat, type : Nat])]) /\ funcs # <<>>
    BY <2>1, AmdLaunchAssumption
  <2>3. f[2] <= Len(funcs)
    BY <2>1, <2>2
  <2>4. ASSUME NEW S, NEW fs \in Seq(S), NEW n \in 1 .. 8, n <= Len(fs) PROVE fs[n] \in S
    BY <2>4
  <2>5. funcs[f[2]] \in [id : STRING, capable : BOOLEAN, caps : Seq([id : Nat, type : Nat])]
    BY <2>1, <2>2, <2>3, <2>4, Zenon
  <2>6. QED
    BY <2>5 DEF Function
<1> DEFINE caps == Function(f).caps
           at == {n \in DOMAIN caps : caps[n].id = DEV_PCI_CAP_ID}
<1>6. k = IF at = {} THEN 0 ELSE CHOOSE n \in at : \A j \in at : n <= j
  BY DEF k, pci_dev_find_cap
<1>7. at \subseteq Nat
  BY <1>5
<1>8. k \in at
  <2>1. at # {} => \E n \in at : \A j \in at : n <= j
    <3> HIDE DEF at
    <3>1. QED
      BY <1>7, LeastOf, Zenon
  <2> HIDE DEF at
  <2>2. QED
    BY <1>1, <1>6, <2>1
<1>9. caps[k] \in [id : Nat, type : Nat] /\ caps[k].id = DEV_PCI_CAP_ID /\ caps[k].type = 0
  <2>1. k \in DOMAIN caps /\ caps[k].id = DEV_PCI_CAP_ID
    BY <1>8
  <2>2. ASSUME NEW S, NEW cs \in Seq(S), NEW n \in DOMAIN cs PROVE cs[n] \in S
    OBVIOUS
  <2>3. caps[k] \in [id : Nat, type : Nat]
    BY <1>5, <2>1, <2>2, Zenon
  <2>4. QED
    BY <1>1, <2>1, <2>3
<1>10. caps[k] = [id |-> DEV_PCI_CAP_ID, type |-> 0]
  BY <1>9
<1>11. QED
  BY <1>1, <1>4, <1>8, <1>10 DEF Devs

\* disable_dev_protection() has switched one DEV off and written nothing else.
OneDevOff ==
  \E f \in Devs : f \in DOMAIN dev /\ {g \in DOMAIN dev : ~dev[g].sldev} = {f} /\ ~dev[f].en
Enabled == [at |-> "run", svm |-> TRUE, gif |-> TRUE]

\* After SKINIT every DEV protects the loader block until disable_dev_protection().
RevertInv ==
  /\ step # "off" => machine \in Machines /\ dev \in [(DOMAIN machine.pci) \X (1 .. 8) -> Controls]
  /\ cpu[BSP].at = "run"
  /\ step = "revert" => \A g \in DOMAIN dev : dev[g].sldev
  /\ step \in {"fixup", "starting"} => OneDevOff
  /\ step = "done" /\ ~machine.qemu => OneDevOff /\ cpu[BSP] = Enabled

LEMMA InitRevert == AmdInit => RevertInv
BY DEF AmdInit, RevertInv

LEMMA ControlUpdates ==
  ASSUME NEW c \in Controls
  PROVE  [c EXCEPT !.sldev = TRUE] \in Controls /\ [c EXCEPT !.sldev = TRUE].sldev
<1>1. c = [en |-> c.en, sldev |-> c.sldev] /\ c.en \in BOOLEAN
  BY DEF Controls
<1> DEFINE T == TRUE
<1> HIDE DEF T
<1>2. [c EXCEPT !.sldev = T] = [en |-> c.en, sldev |-> T]
  BY <1>1
<1>3. [en |-> c.en, sldev |-> TRUE] \in Controls /\ [en |-> c.en, sldev |-> TRUE].sldev
  BY <1>1 DEF Controls
<1> USE DEF T
<1>4. QED
  BY <1>2, <1>3, Zenon

LEMMA StepRevert == StopInv /\ RevertInv /\ [AmdNext]_<<vars, amdVars>> => RevertInv'
<1> SUFFICES ASSUME StopInv, RevertInv, [AmdNext]_<<vars, amdVars>> PROVE RevertInv'
  OBVIOUS
<1>a. BSP \notin APs /\ cpu[BSP] \in Cpus /\ DOMAIN cpu = APs \cup {BSP}
  BY AmdLaunchAssumption, SMTT(30) DEF StopInv, LaunchTypes
<1>b. ASSUME UNCHANGED <<machine, dev>> PROVE Devs' = Devs /\ OneDevOff' = OneDevOff
  BY <1>b, SMTT(30) DEF Devs, Visible, Function, OneDevOff
<1>c. ASSUME UNCHANGED <<machine, dev, step>>, cpu'[BSP] = cpu[BSP] PROVE RevertInv'
  BY <1>b, <1>c DEF RevertInv
<1>1. CASE UNCHANGED <<vars, amdVars>> \/ UseTpm \/ ChipRuns
  BY <1>1, <1>c, SMTT(30) DEF UseTpm, ChipRuns, amdVars
<1>2. CASE \E m \in Machines : check_cpuid(m)
  <2>1. PICK m \in Machines : check_cpuid(m)
    BY <1>2, SMTT(30)
  <2>2. machine' \in Machines /\ dev' \in [(DOMAIN machine'.pci) \X (1 .. 8) -> Controls]
    BY <2>1 DEF check_cpuid, Controls
  <2>3. step' \in {"off", "enable"} /\ cpu' = cpu
    BY <2>1 DEF check_cpuid, On
  <2>4. QED
    BY <2>2, <2>3 DEF RevertInv
<1>3. CASE EnableSvm
  <2>1. CASE machine.svmdis
    BY <1>3, <2>1, <1>c DEF EnableSvm, enable_svm
  <2>2. CASE ~machine.svmdis
    <3>1. cpu'[BSP] = [cpu[BSP] EXCEPT !.svm = TRUE]
      BY <1>3, <2>2, <1>a DEF EnableSvm, enable_svm
    <3>2. cpu'[BSP].at = cpu[BSP].at
      BY <3>1, <1>a DEF Cpus
    <3>3. step = "enable" /\ step' = "stop" /\ UNCHANGED <<machine, dev>>
      BY <1>3, <2>2, SMTT(30) DEF EnableSvm, enable_svm, On
    <3>4. QED
      BY <3>2, <3>3 DEF RevertInv
  <2>3. QED
    BY <2>1, <2>2
<1>4. CASE stop_processors
  <2>1. step = "stop" /\ step' \in {"stop", "stopping"} /\ UNCHANGED <<machine, dev, cpu>>
    BY <1>4 DEF stop_processors, send_ipi, On
  <2>2. QED
    BY <2>1 DEF RevertInv
<1>5. CASE do_skinit
  <2>1. cpu'[BSP] = [cpu[BSP] EXCEPT !.gif = FALSE]
    BY <1>5, <1>a DEF do_skinit
  <2>2. cpu'[BSP].at = cpu[BSP].at
    BY <2>1, <1>a DEF Cpus
  <2>3. step = "stopping" /\ step' = "revert" /\ machine' = machine
        /\ dev' = [f \in DOMAIN dev |-> [dev[f] EXCEPT !.sldev = TRUE]]
    BY <1>5 DEF do_skinit
  <2>4. dev \in [(DOMAIN machine.pci) \X (1 .. 8) -> Controls] /\ machine \in Machines
    BY <2>3 DEF RevertInv
  <2>5. ASSUME NEW f \in DOMAIN dev PROVE dev'[f] \in Controls /\ dev'[f].sldev
    <3>1. dev[f] \in Controls /\ dev'[f] = [dev[f] EXCEPT !.sldev = TRUE]
      BY <2>3, <2>4
    <3>2. QED
      BY <3>1, ControlUpdates, Zenon
  <2>6. dev' \in [(DOMAIN machine.pci) \X (1 .. 8) -> Controls]
    BY <2>3, <2>4, <2>5
  <2>7. DOMAIN dev' = DOMAIN dev
    BY <2>3
  <2>8. QED
    BY <2>2, <2>3, <2>4, <2>5, <2>6, <2>7 DEF RevertInv
<1>6. CASE disable_dev_protection
  <2> DEFINE addr == dev_get_addr
  <2>1. step = "revert" /\ UNCHANGED <<machine, cpu>>
    BY <1>6 DEF disable_dev_protection
  <2>2. machine \in Machines /\ dev \in [(DOMAIN machine.pci) \X (1 .. 8) -> Controls]
        /\ \A g \in DOMAIN dev : dev[g].sldev
    BY <2>1, SMTT(30) DEF RevertInv
  <2>3. CASE addr.error = "NONE"
    <3>1. addr.at \in Devs
      BY <2>2, <2>3, DevFound, SMTT(30)
    <3> HIDE DEF addr
    <3>2. dev' = [dev EXCEPT ![addr.at] = [en |-> FALSE, sldev |-> FALSE]] /\ step' = "fixup"
      BY <1>6, <2>3, SMTT(30) DEF disable_dev_protection, On, addr
    <3>3. addr.at \in DOMAIN dev
      BY <3>1, <2>2, SMTT(30) DEF Devs, Visible
    <3>4. dev' \in [(DOMAIN machine.pci) \X (1 .. 8) -> Controls]
      BY <2>2, <3>2, Zenon DEF Controls
    <3>5. {g \in DOMAIN dev' : ~dev'[g].sldev} = {addr.at} /\ ~dev'[addr.at].en
      BY <2>2, <3>2, <3>3
    <3>6. Devs' = Devs
      BY <2>1, ZenonT(60) DEF Devs, Visible, Function
    <3>7. OneDevOff'
      BY <3>1, <3>3, <3>5, <3>6 DEF OneDevOff
    <3>8. QED
      BY <2>1, <2>2, <3>2, <3>4, <3>7, SMTT(30) DEF RevertInv
  <2>4. CASE addr.error # "NONE"
    <3> HIDE DEF addr
    <3>1. dev' = dev /\ (step' = "revert" \/ (step' = "done" /\ machine.qemu))
      BY <1>6, <2>1, <2>4 DEF disable_dev_protection, On, addr
    <3>2. QED
      BY <2>1, <3>1 DEF RevertInv
  <2>5. QED
    BY <2>3, <2>4
<1>7. CASE start_processors
  <2>1. step = "fixup" /\ step' \in {"fixup", "starting"} /\ UNCHANGED <<machine, dev, cpu>>
    BY <1>7, SMTT(30) DEF start_processors, send_ipi, On
  <2>2. QED
    BY <2>1, <1>b DEF RevertInv
<1>8. CASE FixupDone
  <2>1. cpu'[BSP] = [[cpu[BSP] EXCEPT !.svm = TRUE] EXCEPT !.gif = TRUE]
    BY <1>8, <1>a DEF FixupDone
  <2>2. cpu'[BSP] = [at |-> cpu[BSP].at, svm |-> TRUE, gif |-> TRUE]
    BY <2>1, <1>a, CpuUpdates, Zenon
  <2>3. cpu'[BSP] = Enabled /\ cpu'[BSP].at = "run"
    BY <2>2 DEF RevertInv, Enabled
  <2>4. step = "starting" /\ step' = "done" /\ UNCHANGED <<machine, dev>>
    BY <1>8 DEF FixupDone, On
  <2>5. QED
    BY <2>3, <2>4, <1>b DEF RevertInv
<1>9. CASE \E a \in APs : Processor(a)
  <2>1. UNCHANGED <<machine, dev, step>> /\ cpu'[BSP] = cpu[BSP]
    BY <1>9, <1>a DEF Processor, Accept, TakeInit, smp_init
  <2>2. QED
    BY <2>1, <1>c
<1>10. QED
  BY <1>1, <1>2, <1>3, <1>4, <1>5, <1>6, <1>7, <1>8, <1>9 DEF AmdNext, Launch

\* revert_skinit() hands post_launch() a machine that takes interrupts again, with
\* a DEV off and nothing else written, whatever is on the PCI bus.
THEOREM SkinitAlwaysReverted == AmdSpec => []SkinitReverted
<1>1. StopInv /\ RevertInv => SkinitReverted
  BY DEF StopInv, RevertInv, SkinitReverted, OneDevOff, Enabled
<1>2. QED
  BY InitStop, StepStop, InitRevert, StepRevert, <1>1, PTL DEF AmdSpec
=============================================================================
