----------------------------- MODULE SableProofs -----------------------------
(***************************************************************************)
(* For every set of configurations, passphrases and authdata, and over any *)
(* number of boots: a kernel runs only after the passphrase of the boot    *)
(* has been confirmed (KernelConfirmed), and it and its modules are what   *)
(* was measured (StartedMeasured); the nonvolatile area is written only by *)
(* who knows the authdata, with what was measured (WrittenByOwner); the    *)
(* authorisation sessions are the right ones and are all closed again      *)
(* (SessionsHeld).  Where equal measurements mean equal configurations     *)
(* (Separable), the passphrase is shown exactly to the configuration that  *)
(* it was sealed under (ShownWhenRight), and Sable implements TrustedBoot. *)
(*                                                                         *)
(* All is read off an inductive invariant that says what holds at each     *)
(* label: Flow for the passphrase's way from the prompt through the        *)
(* nonvolatile area back to the screen, Held for the sessions, Listed and  *)
(* Measuring for the list of modules and for PCR 19 while mbi_calc_hash()  *)
(* walks through it, Sealed for what a blob is bound to, and Showing for   *)
(* the screen.                                                             *)
(***************************************************************************)
EXTENDS Sable, Induction, SequenceTheorems

Prompts == {"config", "pp", "ppAuth", "srkAuth", "nvAuth", "yes"}

IsBlob(b) ==
  /\ b = [whole |-> b.whole, pp |-> b.pp, auth |-> b.auth, digest |-> b.digest,
          config |-> b.config]
  /\ b.pp \in Passphrases

\* Before the first prompt, and from its passphrase on in configure().
BeforePrompts ==
  {"off", "prepare", "platform", "post_launch", "arguments", "access", "hashCmdline",
   "hashModule", "hashString", "read17", "read19", "askConfig"}
Configuring ==
  {"askPpAuth", "askSrkAuth", "sealNonce", "sealOSAP", "sealNonceOdd", "info17",
   "info19", "seal", "askNvAuth", "writeOIAP", "writeNonceOdd", "write"}
Writing == {"askNvAuth", "writeOIAP", "writeNonceOdd", "write"}
Unsealing ==
  {"bootPpAuth", "bootSrkAuth", "unsealNonce", "unsealOSAP", "unsealOIAP",
   "unsealNonceOdd", "unseal"}
Starting == {"launch_kernel", "start_module", "kernel"}

Confirmed ==
  \/ /\ shown # None /\ shown = nv.pp /\ nv.digest = <<pcr.launch, pcr.p19>>
     /\ typed["yes"] \in {"YES", "YES+"}
  \/ typed = NothingTyped
  \/ Debug /\ typed["config"] = "s"

Flow ==
  /\ DOMAIN typed = Prompts
  /\ nv = NoBlob \/ IsBlob(nv)
  /\ pc \in BeforePrompts => typed = NothingTyped
  /\ pc \in Configuring => typed["pp"] \in Passphrases
  /\ pc \in Writing => IsBlob(blob)
  /\ pc \in Unsealing => IsBlob(nv) /\ blob = nv
  /\ pc \in {"askYes", "deactivate"} =>
       shown # None /\ shown = nv.pp /\ nv.digest = <<pcr.launch, pcr.p19>>
  /\ pc = "deactivate" => typed["yes"] \in {"YES", "YES+"}
  /\ pc \in Starting => Confirmed

Sealing == {"sealNonceOdd", "info17", "info19", "seal"}
WithSession == Sealing \cup {"writeNonceOdd", "write", "unsealOIAP", "unsealNonceOdd", "unseal"}

Held ==
  /\ DOMAIN sessions = 0 .. 1
  /\ \A s \in 0 .. 1 : DOMAIN sessions[s] = {"handle", "osap", "nonceOdd"}
  /\ pc \notin WithSession => open = {}
  /\ pc \in Sealing \cup {"unsealOIAP"} => open = {sessions[0].handle} /\ sessions[0].osap = TRUE
  /\ pc \in {"writeNonceOdd", "write"} => open = {sessions[0].handle} /\ sessions[0].osap = FALSE
  /\ pc \in {"unsealNonceOdd", "unseal"} =>
       /\ open = {sessions[0].handle, sessions[1].handle}
       /\ sessions[0].handle # sessions[1].handle
       /\ sessions[0].osap = TRUE /\ sessions[1].osap = FALSE
-----------------------------------------------------------------------------
\* A reboot forgets all but the nonvolatile area.
LEMMA RebootFlow ==
  ASSUME NEW reason, Flow, Reboot(reason)
  PROVE  Flow'
  BY Zenon DEF Flow, Reboot, VolatileReset, NothingTyped, Prompts, IsBlob, Confirmed,
         BeforePrompts, Configuring, Writing, Unsealing, Starting

\* Init establishes the invariant of the passphrase's way.
LEMMA InitFlow == Init => Flow
<1> SUFFICES ASSUME Init PROVE Flow
  BY Zenon
<1>1. pc = "off" /\ typed = NothingTyped /\ nv = NoBlob
  BY Zenon DEF Init
<1>2. DOMAIN typed = Prompts
  BY <1>1, Zenon DEF NothingTyped, Prompts
<1>3. QED
  BY <1>1, <1>2, Zenon DEF Flow, BeforePrompts, Configuring, Writing, Unsealing, Starting

\* Every step preserves it.
LEMMA NextFlow == Flow /\ [Next]_vars => Flow'
<1> SUFFICES ASSUME Flow, [Next]_vars
             PROVE  Flow'
  BY Zenon
<1> USE DEF Flow, Goto, Keep, BeforePrompts, Configuring, Writing, Unsealing, Starting
<1>1. CASE prepare_tpm
  BY <1>1, Zenon DEF prepare_tpm, Confirmed, volatile, IsBlob
<1>2. CASE tis_access
  BY <1>2, Zenon DEF tis_access, Confirmed, volatile, IsBlob
<1>3. CASE DeactivateAll
  BY <1>3, Zenon DEF DeactivateAll, Confirmed, volatile, IsBlob
<1>4. CASE launch_kernel
  BY <1>4, Zenon DEF launch_kernel, Confirmed, IsBlob
<1>5. CASE TPM_PCRRead
  BY <1>5 DEF TPM_PCRRead, Confirmed, volatile, IsBlob
<1>6. CASE TPM_GetRandom
  BY <1>6, Zenon DEF TPM_GetRandom, Confirmed, volatile, IsBlob
<1>7. CASE pre_launch
  BY <1>7, Zenon DEF pre_launch, IsBlob
<1>8. CASE PlatformFails
  BY <1>8, RebootFlow, Zenon DEF PlatformFails, volatile, IsBlob
<1>9. CASE post_launch
  BY <1>9, RebootFlow DEF post_launch, volatile, IsBlob, Confirmed
<1>10. CASE HashCmdline
  BY <1>10, RebootFlow, SMTT(20) DEF HashCmdline, IsBlob
<1>11. CASE HashModule
  BY <1>11, RebootFlow, Zenon DEF HashModule, NextModule, IsBlob
<1>12. CASE HashString
  BY <1>12, Zenon DEF HashString, NextModule, IsBlob
<1>13. CASE TPM_OSAP
  BY <1>13, Zenon DEF TPM_OSAP, IsBlob
<1>14. CASE TPM_OIAP
  BY <1>14, Zenon DEF TPM_OIAP, IsBlob
<1>15. CASE NonceOdd
  BY <1>15, Zenon DEF NonceOdd, get_nonce, IsBlob
<1>16. CASE AskConfig
  BY <1>16, Zenon DEF AskConfig, Type, IsBlob, Confirmed, Prompts
<1>17. CASE AskPassphrase
  BY <1>17, Zenon DEF AskPassphrase, Type, IsBlob, Prompts
<1>18. CASE AskAuthdata
  BY <1>18, Zenon DEF AskAuthdata, get_authdata, Type, IsBlob, Prompts
<1>19. CASE seal_passphrase
  BY <1>19, RebootFlow DEF seal_passphrase, TPM_Seal, IsBlob
<1>20. CASE write_passphrase
  BY <1>20, RebootFlow, Zenon DEF write_passphrase, TPM_NV_WriteValueAuth, Stored, IsBlob, VolatileReset, NothingTyped, Prompts
<1>21. CASE ConfigureDone
  BY <1>21, RebootFlow DEF ConfigureDone
<1>22. CASE read_passphrase
  BY <1>22, RebootFlow, SMTT(20) DEF read_passphrase, unpack_TPM_STORED_DATA12, TPM_NV_ReadValue, IsBlob, NoBlob
<1>23. CASE unseal_passphrase
  BY <1>23, RebootFlow, SableAssumption, SMTT(20) DEF unseal_passphrase, get_pcr_info, IsBlob
<1>24. CASE AskYes
  BY <1>24, RebootFlow, SMTT(20) DEF AskYes, Confirms, Type, IsBlob, Prompts
<1>25. CASE start_module
  BY <1>25, RebootFlow, Zenon DEF start_module, Confirmed, IsBlob
<1>26. CASE TpmFault
  BY <1>26, RebootFlow, Zenon DEF TpmFault
<1>27. CASE PowerLoss
  BY <1>27, RebootFlow, Zenon DEF PowerLoss
<1>28. CASE \E c \in Configs : PowerOn(c)
  BY <1>28, Zenon DEF PowerOn, IsBlob
<1>29. CASE UNCHANGED vars
  BY <1>29, Zenon DEF vars, Confirmed, IsBlob
<1>30. CASE intel_post_launch
  BY <1>30, Zenon DEF intel_post_launch, IsBlob
<1>31. CASE revert_skinit
  BY <1>31, RebootFlow, Zenon DEF revert_skinit, volatile, IsBlob
<1>32. QED
  BY <1>1, <1>2, <1>3, <1>4, <1>5, <1>6, <1>7, <1>8, <1>9, <1>10, <1>11, <1>12, <1>13, <1>14, <1>15, <1>16, <1>17, <1>18, <1>19, <1>20, <1>21, <1>22, <1>23, <1>24, <1>25, <1>26, <1>27, <1>28, <1>29, <1>30, <1>31, ZenonT(30) DEF Next, Step

-----------------------------------------------------------------------------
\* A reboot leaves no session.
LEMMA RebootHeld ==
  ASSUME NEW reason, Reboot(reason)
  PROVE  Held'
  BY Zenon DEF Held, Reboot, VolatileReset, NULL, WithSession, Sealing

\* Init establishes the invariant of the sessions.
LEMMA InitHeld == Init => Held
<1> SUFFICES ASSUME Init PROVE Held
  BY Zenon
<1>1. pc = "off" /\ open = {} /\ sessions = [s \in 0 .. 1 |-> NULL]
  BY Zenon DEF Init
<1>2. QED
  BY <1>1, Zenon DEF Held, NULL, WithSession, Sealing

\* Every step preserves it.
LEMMA NextHeld == Held /\ [Next]_vars => Held'
<1> SUFFICES ASSUME Held, [Next]_vars
             PROVE  Held'
  BY Zenon
<1> USE DEF Held, Goto, Keep, Sealing, WithSession
<1>1. CASE prepare_tpm
  BY <1>1, Zenon DEF prepare_tpm, volatile
<1>2. CASE tis_access
  BY <1>2, Zenon DEF tis_access, volatile
<1>3. CASE DeactivateAll
  BY <1>3, Zenon DEF DeactivateAll, volatile
<1>4. CASE launch_kernel
  BY <1>4, Zenon DEF launch_kernel
<1>5. CASE TPM_PCRRead
  BY <1>5 DEF TPM_PCRRead, volatile
<1>6. CASE TPM_GetRandom
  BY <1>6, Zenon DEF TPM_GetRandom, volatile
<1>7. CASE pre_launch
  BY <1>7, Zenon DEF pre_launch
<1>8. CASE PlatformFails
  BY <1>8, RebootHeld, Zenon DEF PlatformFails, volatile
<1>9. CASE post_launch
  BY <1>9, RebootHeld, Zenon DEF post_launch, volatile
<1>10. CASE HashCmdline
  BY <1>10, RebootHeld, Zenon DEF HashCmdline
<1>11. CASE HashModule
  BY <1>11, RebootHeld, Zenon DEF HashModule, NextModule
<1>12. CASE HashString
  BY <1>12, Zenon DEF HashString, NextModule
<1>13. CASE TPM_OSAP
  BY <1>13 DEF TPM_OSAP, OpenSession
<1>14. CASE TPM_OIAP
  BY <1>14 DEF TPM_OIAP, OpenSession
<1>15. CASE NonceOdd
  BY <1>15 DEF NonceOdd, get_nonce
<1>16. CASE AskConfig
  BY <1>16, Zenon DEF AskConfig, Type
<1>17. CASE AskPassphrase
  BY <1>17, Zenon DEF AskPassphrase, Type
<1>18. CASE AskAuthdata
  BY <1>18, Zenon DEF AskAuthdata, get_authdata, Type
<1>19. CASE seal_passphrase
  BY <1>19, RebootHeld, ZenonT(60) DEF seal_passphrase, CloseSessions, NULL
<1>20. CASE write_passphrase
  <2>1. CASE CloseSessions({0}) /\ pc' = "deactivateOff"
    BY <1>20, <2>1, Zenon DEF write_passphrase, CloseSessions, NULL
  <2>2. CASE VolatileReset /\ pc' = "off"
    BY <2>2, Zenon DEF VolatileReset, NULL
  <2>3. QED
    BY <1>20, <2>1, <2>2, RebootHeld, Zenon DEF write_passphrase
<1>21. CASE ConfigureDone
  BY <1>21, RebootHeld, Zenon DEF ConfigureDone
<1>22. CASE read_passphrase
  BY <1>22, RebootHeld, Zenon DEF read_passphrase
<1>23. CASE unseal_passphrase
  <2>1. CASE CloseSessions({0, 1}) /\ pc' = "askYes"
    BY <1>23, <2>1, Zenon DEF unseal_passphrase, CloseSessions, NULL
  <2>2. QED
    BY <1>23, <2>1, RebootHeld, Zenon DEF unseal_passphrase
<1>24. CASE AskYes
  BY <1>24, RebootHeld, Zenon DEF AskYes, Type
<1>25. CASE start_module
  BY <1>25, RebootHeld, Zenon DEF start_module
<1>26. CASE TpmFault
  BY <1>26, RebootHeld, Zenon DEF TpmFault
<1>27. CASE PowerLoss
  BY <1>27, RebootHeld, Zenon DEF PowerLoss
<1>28. CASE \E c \in Configs : PowerOn(c)
  BY <1>28, Zenon DEF PowerOn
<1>29. CASE UNCHANGED vars
  BY <1>29, Zenon DEF vars
<1>30. CASE intel_post_launch
  BY <1>30, Zenon DEF intel_post_launch
<1>31. CASE revert_skinit
  BY <1>31, RebootHeld, Zenon DEF revert_skinit, volatile
<1>32. QED
  BY <1>1, <1>2, <1>3, <1>4, <1>5, <1>6, <1>7, <1>8, <1>9, <1>10, <1>11, <1>12, <1>13, <1>14, <1>15, <1>16, <1>17, <1>18, <1>19, <1>20, <1>21, <1>22, <1>23, <1>24, <1>25, <1>26, <1>27, <1>28, <1>29, <1>30, <1>31, ZenonT(30) DEF Next, Step

-----------------------------------------------------------------------------
\* KernelConfirmed of every execution: whatever the configurations, and whatever
\* crashes, faults and answers happened in this boot or earlier ones, post_launch()
\* starts a kernel only as KernelConfirmed says.
THEOREM KernelAlwaysConfirmed == Spec => []KernelConfirmed
<1>1. Flow => KernelConfirmed
  BY Zenon DEF Flow, KernelConfirmed, Confirmed, Starting
<1>2. QED
  BY <1>1, InitFlow, NextFlow, PTL DEF Spec

\* SessionsHeld of every execution: seal_passphrase(), write_passphrase() and
\* unseal_passphrase() use sessions of the right kind and leave none open.
THEOREM SessionsAlwaysHeld == Spec => []SessionsHeld
<1>1. Held => SessionsHeld
  BY Zenon DEF Held, SessionsHeld, Sealing, WithSession
<1>2. QED
  BY <1>1, InitHeld, NextHeld, PTL DEF Spec

-----------------------------------------------------------------------------
(* The lists of modules: cutting them, and the items measured of them.       *)

\* The recursion of NotFirstSinit().
KeptBody(ms, f) ==
  [k \in 0 .. Len(ms) |->
     IF k = 0 THEN <<>>
     ELSE IF k > 1 /\ IsSinit(ms[k]) THEN f[k - 1] ELSE Append(f[k - 1], ms[k])]
Kept(ms) == CHOOSE f : f = KeptBody(ms, f)

\* The function that NotFirstSinit() is defined by exists.
LEMMA KeptDef ==
  ASSUME NEW M, NEW ms \in Seq(M)
  PROVE  Kept(ms) = KeptBody(ms, Kept(ms)) /\ NotFirstSinit(ms) = Kept(ms)[Len(ms)]
<1>1. NotFirstSinit(ms) = Kept(ms)[Len(ms)]
  BY Zenon DEF NotFirstSinit, Kept, KeptBody
<1> DEFINE n == Len(ms)
           g == [i \in 1 .. n |-> [s \in Seq(M) |-> IF i > 1 /\ IsSinit(ms[i]) THEN s ELSE Append(s, ms[i])]]
<1>2. n \in Nat /\ \A i \in 1 .. n : ms[i] \in M
  OBVIOUS
<1> HIDE DEF n
<1>3. g \in [1 .. n -> [Seq(M) -> Seq(M)]]
  BY <1>2
<1>4. PICK f : Iterates(f, n, Seq(M), <<>>, g)
  <2>1. <<>> \in Seq(M)
    OBVIOUS
  <2> HIDE DEF g
  <2>2. QED
    BY <1>2, <1>3, <2>1, Recursion, Zenon
<1>5. f = KeptBody(ms, f)
  <2>1. ASSUME NEW i \in 1 .. n
        PROVE  f[i - 1] \in Seq(M) /\ f[i] = g[i][f[i - 1]]
    <3> HIDE DEF g
    <3>1. QED
      BY <1>2, <1>4 DEF Iterates
  <2>2. ASSUME NEW i \in 1 .. n
        PROVE  f[i] = IF i > 1 /\ IsSinit(ms[i]) THEN f[i - 1] ELSE Append(f[i - 1], ms[i])
    BY <2>1, Zenon
  <2> HIDE DEF g
  <2>3. f[0] = <<>> /\ f = [i \in 0 .. n |-> f[i]]
    BY <1>4, Zenon DEF Iterates
  <2>4. ASSUME NEW i \in 0 .. n
        PROVE  f[i] = IF i = 0 THEN <<>>
                      ELSE IF i > 1 /\ IsSinit(ms[i]) THEN f[i - 1] ELSE Append(f[i - 1], ms[i])
    <3>1. CASE i = 0
      BY <2>3, <3>1, Zenon
    <3>2. CASE i \in 1 .. n
      BY <2>2, <3>2
    <3>3. QED
      BY <1>2, <3>1, <3>2
  <2>5. QED
    BY <2>3, <2>4, Zenon DEF KeptBody, n
<1>6. \E e : e = KeptBody(ms, e)
  BY <1>5, Zenon
<1>7. Kept(ms) = KeptBody(ms, Kept(ms))
  BY <1>6, Zenon DEF Kept
<1>8. QED
  BY <1>1, <1>7, Zenon

\* What the recursion passes on from one module to the next.
LEMMA KeptStep ==
  ASSUME NEW M, NEW ms \in Seq(M)
  PROVE  /\ Kept(ms)[0] = <<>>
         /\ \A k \in Nat : k + 1 <= Len(ms) =>
              Kept(ms)[k + 1] = IF k > 0 /\ IsSinit(ms[k + 1]) THEN Kept(ms)[k]
                                ELSE Append(Kept(ms)[k], ms[k + 1])
<1> DEFINE K == Kept(ms)
           n == Len(ms)
<1>1. K = KeptBody(ms, K)
  BY KeptDef, Zenon
<1>2. n \in Nat
  OBVIOUS
<1>3. K = [k \in 0 .. n |-> IF k = 0 THEN <<>> ELSE IF k > 1 /\ IsSinit(ms[k]) THEN K[k - 1]
                                                   ELSE Append(K[k - 1], ms[k])]
  BY <1>1, Zenon DEF KeptBody
<1> HIDE DEF K, n
<1>4. \A k \in 0 .. n : K[k] = IF k = 0 THEN <<>> ELSE IF k > 1 /\ IsSinit(ms[k]) THEN K[k - 1]
                                                   ELSE Append(K[k - 1], ms[k])
  BY <1>3, Zenon
<1>5. K[0] = <<>>
  <2>1. 0 \in 0 .. n
    BY <1>2
  <2>2. QED
    BY <1>4, <2>1, Zenon
<1>6. ASSUME NEW k \in Nat, k + 1 <= n
      PROVE  K[k + 1] = IF k > 0 /\ IsSinit(ms[k + 1]) THEN K[k] ELSE Append(K[k], ms[k + 1])
  <2>1. k + 1 \in 0 .. n /\ k + 1 # 0 /\ (k + 1 > 1 <=> k > 0) /\ k + 1 - 1 = k
    BY <1>2, <1>6
  <2>2. K[k + 1] = IF k + 1 = 0 THEN <<>> ELSE IF k + 1 > 1 /\ IsSinit(ms[k + 1]) THEN K[k + 1 - 1]
                                                   ELSE Append(K[k + 1 - 1], ms[k + 1])
    BY <1>4, <2>1
  <2>3. QED
    BY <2>1, <2>2, Zenon
<1>7. QED
  BY <1>5, <1>6, Zenon DEF K, n

\* The list that remove_txt_modules() leaves: of the same modules, empty only
\* if there were none, and with no SINIT module after the first.
LEMMA NotFirstSinitIs ==
  ASSUME NEW M, NEW ms \in Seq(M)
  PROVE  /\ NotFirstSinit(ms) \in Seq(M)
         /\ NotFirstSinit(ms) = <<>> <=> ms = <<>>
         /\ \A i \in 2 .. Len(NotFirstSinit(ms)) : ~IsSinit(NotFirstSinit(ms)[i])
<1> DEFINE n == Len(ms)
           Good(k, s) ==
             /\ s \in Seq(M)
             /\ s = <<>> <=> k = 0
             /\ \A i \in 2 .. Len(s) : ~IsSinit(s[i])
           T == {k \in Nat : k <= n => Good(k, Kept(ms)[k])}
<1>1. n \in Nat /\ (n = 0 <=> ms = <<>>) /\ \A k \in 1 .. n : ms[k] \in M
  OBVIOUS
<1>2. 0 \in T
  <2>1. Kept(ms)[0] = <<>>
    BY KeptStep, Zenon
  <2>2. Good(0, <<>>)
    OBVIOUS
  <2>3. QED
    BY <2>1, <2>2, Zenon
<1>3. ASSUME NEW k \in Nat, k \in T PROVE k + 1 \in T
  <2> SUFFICES ASSUME k + 1 <= n PROVE Good(k + 1, Kept(ms)[k + 1])
    OBVIOUS
  <2>1. Good(k, Kept(ms)[k])
    BY <1>1, <1>3
  <2>2. Kept(ms)[k + 1] = IF k > 0 /\ IsSinit(ms[k + 1]) THEN Kept(ms)[k]
                          ELSE Append(Kept(ms)[k], ms[k + 1])
    BY KeptStep, Zenon
  <2>3. CASE k > 0 /\ IsSinit(ms[k + 1])
    BY <2>1, <2>2, <2>3
  <2>4. CASE ~(k > 0 /\ IsSinit(ms[k + 1]))
    <3> DEFINE s == Kept(ms)[k]
               m == ms[k + 1]
    <3>1. Kept(ms)[k + 1] = Append(s, m)
      BY <2>2, <2>4, Zenon
    <3>2. m \in M
      BY <1>1
    <3>3. Good(k, s) /\ ~(k > 0 /\ IsSinit(m))
      BY <2>1, <2>4, Zenon
    <3> HIDE DEF s, m
    <3>4. Good(k + 1, Append(s, m))
      BY <3>2, <3>3
    <3>5. QED
      BY <3>1, <3>4, Zenon
  <2>5. QED
    BY <2>3, <2>4, Zenon
<1> HIDE DEF T
<1>4. Nat \subseteq T
  BY <1>2, <1>3, NatInd, Zenon
<1>5. Good(n, Kept(ms)[n])
  BY <1>1, <1>4 DEF T
<1>6. QED
  BY <1>1, <1>5, KeptDef, Zenon

\* Cutting the list a second time, in launch_kernel(), changes nothing.
LEMMA CutTwice ==
  ASSUME NEW M, NEW ms \in Seq(M), \A i \in 2 .. Len(ms) : ~IsSinit(ms[i])
  PROVE  NotFirstSinit(ms) = ms
<1> DEFINE n == Len(ms)
           T == {k \in Nat : k <= n => Kept(ms)[k] = SubSeq(ms, 1, k)}
<1>1. n \in Nat
  OBVIOUS
<1>2. 0 \in T
  <2>1. Kept(ms)[0] = <<>>
    BY KeptStep, Zenon
  <2>2. SubSeq(ms, 1, 0) = <<>>
    OBVIOUS
  <2>3. QED
    BY <2>1, <2>2, Zenon
<1>3. ASSUME NEW k \in Nat, k \in T PROVE k + 1 \in T
  <2> SUFFICES ASSUME k + 1 <= n PROVE Kept(ms)[k + 1] = SubSeq(ms, 1, k + 1)
    OBVIOUS
  <2>1. Kept(ms)[k] = SubSeq(ms, 1, k)
    BY <1>1, <1>3
  <2>2. Kept(ms)[k + 1] = IF k > 0 /\ IsSinit(ms[k + 1]) THEN Kept(ms)[k]
                          ELSE Append(Kept(ms)[k], ms[k + 1])
    BY KeptStep, Zenon
  <2>3. ~(k > 0 /\ IsSinit(ms[k + 1]))
    BY <1>1
  <2>4. SubSeq(ms, 1, k + 1) = Append(SubSeq(ms, 1, k), ms[k + 1])
    BY <1>1
  <2>5. QED
    BY <2>1, <2>2, <2>3, <2>4, Zenon
<1> HIDE DEF T
<1>4. Nat \subseteq T
  BY <1>2, <1>3, NatInd, Zenon
<1>5. Kept(ms)[n] = SubSeq(ms, 1, n)
  BY <1>1, <1>4 DEF T
<1>6. QED
  BY <1>5, KeptDef

Cat(s, t) == s \o t

ItemsBody(ms, f) ==
  [k \in 0 .. Len(ms) |-> IF k = 0 THEN <<>> ELSE Cat(f[k - 1], ModuleItem(ms[k]))]
ItemsTo(ms) == CHOOSE f : f = ItemsBody(ms, f)

\* The items of the modules of M are items of D.
Holds(D, M) == \A m \in M : ModuleItem(m) \in Seq(D)

\* The function that ModuleItems() is defined by exists, and adds the items of one
\* module after the other.
LEMMA ItemsDef ==
  ASSUME NEW D, NEW M, Holds(D, M), NEW ms \in Seq(M)
  PROVE  /\ ModuleItems(ms) = ItemsTo(ms)[Len(ms)]
         /\ ItemsTo(ms)[0] = <<>>
         /\ \A k \in 1 .. Len(ms) : ItemsTo(ms)[k] = Cat(ItemsTo(ms)[k - 1], ModuleItem(ms[k]))
<1>1. ModuleItems(ms) = ItemsTo(ms)[Len(ms)]
  BY Zenon DEF ModuleItems, ItemsTo, ItemsBody, Cat
<1> DEFINE n == Len(ms)
           Q == Seq(D)
           g == [i \in 1 .. n |-> [s \in Q |-> Cat(s, ModuleItem(ms[i]))]]
           K == ItemsTo(ms)
<1>2. n \in Nat /\ \A i \in 1 .. n : ModuleItem(ms[i]) \in Q
  BY DEF Holds
<1>3. \A s, t \in Q : Cat(s, t) \in Q
  BY ConcatProperties, Zenon DEF Cat
<1>4. <<>> \in Q
  OBVIOUS
<1> HIDE DEF n, Q
<1>5. g \in [1 .. n -> [Q -> Q]]
  BY <1>2, <1>3, Zenon
<1>6. PICK f : Iterates(f, n, Q, <<>>, g)
  <2> HIDE DEF g
  <2>1. QED
    BY <1>2, <1>4, <1>5, Recursion
<1>7. f = ItemsBody(ms, f)
  <2>1. ASSUME NEW i \in 1 .. n PROVE f[i - 1] \in Q /\ f[i] = g[i][f[i - 1]]
    <3> HIDE DEF g
    <3>1. QED
      BY <1>2, <1>6 DEF Iterates
  <2>2. ASSUME NEW i \in 1 .. n PROVE f[i] = Cat(f[i - 1], ModuleItem(ms[i]))
    BY <2>1, Zenon
  <2> HIDE DEF g
  <2>3. f[0] = <<>> /\ f = [i \in 0 .. n |-> f[i]]
    BY <1>6, Zenon DEF Iterates
  <2>4. ASSUME NEW i \in 0 .. n
        PROVE  f[i] = IF i = 0 THEN <<>> ELSE Cat(f[i - 1], ModuleItem(ms[i]))
    <3>1. CASE i = 0
      BY <2>3, <3>1, Zenon
    <3>2. CASE i \in 1 .. n
      BY <2>2, <3>2
    <3>3. QED
      BY <1>2, <3>1, <3>2
  <2>5. QED
    BY <2>3, <2>4, Zenon DEF ItemsBody, n
<1>8. \E e : e = ItemsBody(ms, e)
  BY <1>7, Zenon
<1>9. K = ItemsBody(ms, K)
  BY <1>8, Zenon DEF ItemsTo
<1>10. K = [k \in 0 .. n |-> IF k = 0 THEN <<>> ELSE Cat(K[k - 1], ModuleItem(ms[k]))]
  BY <1>9, Zenon DEF ItemsBody, n
<1> HIDE DEF K
<1>11. \A k \in 0 .. n : K[k] = IF k = 0 THEN <<>> ELSE Cat(K[k - 1], ModuleItem(ms[k]))
  BY <1>10, Zenon
<1>12. K[0] = <<>> /\ \A k \in 1 .. n : K[k] = Cat(K[k - 1], ModuleItem(ms[k]))
  BY <1>2, <1>11
<1>13. QED
  BY <1>1, <1>12, Zenon DEF K, n

\* ModuleItems() of a longer list begins with that of a shorter one.
LEMMA ItemsStep ==
  ASSUME NEW D, NEW M, Holds(D, M), NEW ms \in Seq(M), NEW k \in 1 .. Len(ms)
  PROVE  ModuleItems(SubSeq(ms, 1, k)) =
           Cat(ModuleItems(SubSeq(ms, 1, k - 1)), ModuleItem(ms[k]))
<1> DEFINE p == SubSeq(ms, 1, k)
           q == SubSeq(ms, 1, k - 1)
           f == ItemsTo(p)
           h == ItemsTo(q)
           T == {i \in Nat : i <= k - 1 => h[i] = f[i]}
<1>1. /\ p \in Seq(M) /\ Len(p) = k /\ \A i \in 1 .. k : p[i] = ms[i]
      /\ q \in Seq(M) /\ Len(q) = k - 1 /\ \A i \in 1 .. k - 1 : q[i] = ms[i]
  OBVIOUS
<1> HIDE DEF p, q
<1>2. /\ ModuleItems(p) = f[k] /\ f[0] = <<>>
      /\ \A i \in 1 .. k : f[i] = Cat(f[i - 1], ModuleItem(ms[i]))
  <2>1. /\ ModuleItems(p) = f[Len(p)] /\ f[0] = <<>>
        /\ \A i \in 1 .. Len(p) : f[i] = Cat(f[i - 1], ModuleItem(p[i]))
    BY <1>1, ItemsDef, ZenonT(30)
  <2> HIDE DEF f
  <2>2. QED
    BY <1>1, <2>1, Zenon
<1>3. /\ ModuleItems(q) = h[k - 1] /\ h[0] = <<>>
      /\ \A i \in 1 .. k - 1 : h[i] = Cat(h[i - 1], ModuleItem(ms[i]))
  <2>1. /\ ModuleItems(q) = h[Len(q)] /\ h[0] = <<>>
        /\ \A i \in 1 .. Len(q) : h[i] = Cat(h[i - 1], ModuleItem(q[i]))
    BY <1>1, ItemsDef
  <2> HIDE DEF h
  <2>2. QED
    BY <1>1, <2>1, Zenon
<1> HIDE DEF f, h
<1>4. 0 \in T
  BY <1>2, <1>3, Zenon
<1>5. ASSUME NEW i \in Nat, i \in T PROVE i + 1 \in T
  <2> SUFFICES ASSUME i + 1 <= k - 1 PROVE h[i + 1] = f[i + 1]
    OBVIOUS
  <2> DEFINE j == i + 1
  <2>1. j \in 1 .. k /\ j \in 1 .. k - 1 /\ j - 1 = i
    OBVIOUS
  <2> HIDE DEF j
  <2>2. h[j] = Cat(h[i], ModuleItem(ms[j])) /\ f[j] = Cat(f[i], ModuleItem(ms[j]))
    BY <1>2, <1>3, <2>1, Zenon
  <2>3. QED
    BY <1>5, <2>1, <2>2 DEF j
<1> HIDE DEF T
<1>6. Nat \subseteq T
  BY <1>4, <1>5, NatInd, Zenon
<1>7. h[k - 1] = f[k - 1]
  BY <1>6 DEF T
<1>8. QED
  BY <1>2, <1>3, <1>7 DEF p, q

\* Concatenation of sequences of items.
LEMMA CatFacts ==
  ASSUME NEW D, NEW s \in Seq(D), NEW t \in Seq(D), NEW u \in Seq(D)
  PROVE  /\ <<>> \in Seq(D) /\ Cat(s, t) \in Seq(D)
         /\ Cat(<<>>, t) = t /\ Cat(s, <<>>) = s
         /\ Cat(Cat(s, t), u) = Cat(s, Cat(t, u))
<1>1. Cat(s, t) \in Seq(D) /\ Cat(<<>>, t) = t /\ Cat(s, <<>>) = s
  BY ConcatProperties, ConcatEmptySeq, Zenon DEF Cat
<1>2. Cat(Cat(s, t), u) = Cat(s, Cat(t, u))
  <2>1. (s \o t) \o u = s \o (t \o u)
    BY ConcatAssociative, SMTT(30)
  <2>2. QED
    BY <2>1, Zenon DEF Cat
<1>3. QED
  BY <1>1, <1>2

\* Nothing is measured of no modules, and items are measured of any number of them.
LEMMA ItemsSeq ==
  ASSUME NEW D, NEW M, Holds(D, M), NEW ms \in Seq(M)
  PROVE  /\ ModuleItems(SubSeq(ms, 1, 0)) = <<>>
         /\ \A k \in 0 .. Len(ms) : ModuleItems(SubSeq(ms, 1, k)) \in Seq(D)
         /\ SubSeq(ms, 1, Len(ms)) = ms
<1> DEFINE I(k) == ModuleItems(SubSeq(ms, 1, k))
           n == Len(ms)
           T == {k \in Nat : k <= n => I(k) \in Seq(D)}
<1>1. n \in Nat /\ SubSeq(ms, 1, Len(ms)) = ms /\ \A k \in 1 .. n : ms[k] \in M
  OBVIOUS
<1>2. I(0) = <<>>
  <2>1. SubSeq(ms, 1, 0) = <<>>
    OBVIOUS
  <2>2. ModuleItems(<<>>) = <<>>
    <3> DEFINE e == <<>>
    <3>1. e \in Seq(M) /\ Len(e) = 0
      OBVIOUS
    <3> HIDE DEF e
    <3>2. ModuleItems(e) = ItemsTo(e)[Len(e)] /\ ItemsTo(e)[0] = <<>>
      BY <3>1, ItemsDef, Zenon
    <3>3. QED
      BY <3>1, <3>2, Zenon DEF e
  <2>3. QED
    BY <2>1, <2>2, Zenon
<1>3. ASSUME NEW k \in Nat, I(k) \in Seq(D), k + 1 <= n PROVE I(k + 1) \in Seq(D)
  <2>1. k + 1 \in 1 .. n /\ k + 1 - 1 = k
    BY <1>1, <1>3
  <2>2. I(k + 1) = Cat(I(k), ModuleItem(ms[k + 1]))
    BY <2>1, ItemsStep
  <2>3. ModuleItem(ms[k + 1]) \in Seq(D)
    BY <1>1, <2>1, Zenon DEF Holds
  <2> HIDE DEF I
  <2>4. Cat(I(k), ModuleItem(ms[k + 1])) \in Seq(D)
    BY <1>3, <2>3, ConcatProperties, Zenon DEF Cat
  <2>5. QED
    BY <2>2, <2>4, Zenon
<1> HIDE DEF I, n
<1>4. 0 \in T
  <2>1. <<>> \in Seq(D)
    OBVIOUS
  <2>2. QED
    BY <1>2, <2>1, Zenon
<1>5. ASSUME NEW k \in Nat, k \in T PROVE k + 1 \in T
  BY <1>1, <1>3, <1>5
<1> HIDE DEF T
<1>6. Nat \subseteq T
  BY <1>4, <1>5, NatInd, Zenon
<1>7. QED
  BY <1>1, <1>2, <1>6 DEF T, I, n

\* A sequence is a prefix of itself, and of whatever is appended to a sequence that it
\* is a prefix of.
LEMMA PrefixGrows ==
  ASSUME NEW D, NEW s \in Seq(D), NEW t \in Seq(D), NEW u \in Seq(D), BeginsWith(t, s)
  PROVE  BeginsWith(Cat(t, u), s)
<1> DEFINE tu == t \o u
<1>1. tu \in Seq(D) /\ Len(tu) = Len(t) + Len(u) /\ \A i \in 1 .. Len(t) : tu[i] = t[i]
  OBVIOUS
<1>2. Len(s) \in Nat /\ Len(t) \in Nat /\ Len(u) \in Nat /\ Len(s) <= Len(t)
  BY DEF BeginsWith
<1> HIDE DEF tu
<1>3. SubSeq(tu, 1, Len(s)) = SubSeq(t, 1, Len(s))
  BY <1>1, <1>2
<1>4. QED
  BY <1>1, <1>2, <1>3 DEF BeginsWith, Cat, tu

\* What is measured first is measured of the first modules.
LEMMA ItemsPrefix ==
  ASSUME NEW D, NEW M, Holds(D, M), NEW ms \in Seq(M), NEW x \in Seq(D), NEW k \in 0 .. Len(ms)
  PROVE  BeginsWith(Cat(x, ModuleItems(ms)), Cat(x, ModuleItems(SubSeq(ms, 1, k))))
<1> DEFINE n == Len(ms)
           I(j) == ModuleItems(SubSeq(ms, 1, j))
           s == Cat(x, I(k))
           T == {j \in Nat : k + j <= n => BeginsWith(Cat(x, I(k + j)), s)}
<1>1. n \in Nat /\ I(n) = ModuleItems(ms) /\ \A j \in 1 .. n : ms[j] \in M
  <2>1. SubSeq(ms, 1, n) = ms
    BY ItemsSeq, Zenon
  <2>2. I(n) = ModuleItems(ms)
    BY <2>1, Zenon
  <2>3. QED
    BY <2>2
<1>2. \A j \in 0 .. n : I(j) \in Seq(D) /\ Cat(x, I(j)) \in Seq(D)
  BY ItemsSeq, ConcatProperties, Zenon DEF Cat
<1>3. 0 \in T
  <2>1. s \in Seq(D)
    BY <1>2, Zenon
  <2> HIDE DEF s, I
  <2>2. BeginsWith(s, s)
    BY <2>1 DEF BeginsWith
  <2>3. k + 0 = k
    OBVIOUS
  <2>4. QED
    BY <2>2, <2>3, Zenon DEF s
<1>4. ASSUME NEW j \in Nat, j \in T PROVE j + 1 \in T
  <2> SUFFICES ASSUME k + (j + 1) <= n PROVE BeginsWith(Cat(x, I(k + (j + 1))), s)
    OBVIOUS
  <2> DEFINE m == k + (j + 1)
             u == ModuleItem(ms[m])
  <2>1. m \in 1 .. n /\ m - 1 \in 0 .. n /\ m - 1 = k + j /\ k \in 0 .. n
    BY <1>1
  <2>2. BeginsWith(Cat(x, I(m - 1)), s)
    BY <1>4, <2>1
  <2>3. I(m) = Cat(I(m - 1), u)
    BY <2>1, ItemsStep, Zenon
  <2>4. u \in Seq(D)
    BY <1>1, <2>1, Zenon DEF Holds
  <2> HIDE DEF I, m, u
  <2>5. Cat(x, Cat(I(m - 1), u)) = Cat(Cat(x, I(m - 1)), u)
    BY <1>2, <2>1, <2>4, CatFacts
  <2>6. BeginsWith(Cat(Cat(x, I(m - 1)), u), s)
    BY <1>2, <2>1, <2>2, <2>4, PrefixGrows, Zenon
  <2>7. QED
    BY <2>3, <2>5, <2>6, Zenon DEF m
<1> HIDE DEF T, I, n
<1>5. Nat \subseteq T
  BY <1>3, <1>4, NatInd, Zenon
<1>6. n - k \in Nat /\ k + (n - k) = n
  BY <1>1 DEF n
<1>7. BeginsWith(Cat(x, I(k + (n - k))), s)
  <2>1. n - k \in T /\ k + (n - k) <= n
    BY <1>1, <1>5, <1>6
  <2>2. QED
    BY <2>1, Zenon DEF T
<1>8. QED
  BY <1>1, <1>6, <1>7, Zenon DEF I

-----------------------------------------------------------------------------
(* The measurement.                                                          *)

Modules == UNION {Range(c.mods) : c \in Configs}
Data ==
  {m.data : m \in Modules} \cup {m.string : m \in Modules} \cup {c.cmdline.text : c \in Configs}

\* What PCR 19 holds of configuration c when mbi_calc_hash() comes to module k of ms.
Before(c, ms, k) == Cat(CmdlineItems(c), ModuleItems(SubSeq(ms, 1, k - 1)))

\* Before the TPM is accessed, and from the end of mbi_calc_hash() until SABLE is done
\* with the TPM.
Cutting == {"prepare", "platform", "post_launch"}
Hashing == {"hashModule", "hashString"}
Hashed ==
  {"read17", "read19", "askConfig", "askPassphrase", "deactivateOff", "read", "askYes",
   "deactivate"} \cup Configuring \cup Unsealing
Cut == {"arguments", "access", "hashCmdline", "launch_kernel", "start_module"} \cup Hashing \cup Hashed
Fresh == {"post_launch", "arguments", "access", "hashCmdline"}

\* The list of modules, and what the launch measured.
Listed ==
  /\ config \in Configs /\ intel \in BOOLEAN
  /\ DOMAIN mbi = {"mods", "at", "started"} /\ DOMAIN pcr = {"launch", "p19"}
  /\ pc \in Cutting => mbi.mods = config.mods
  /\ pc \in Cut => mbi.mods = Measured(config).mods
  /\ pc \in Cut \cup {"post_launch", "kernel"} => pcr.launch = config.image

\* How far mbi_calc_hash() is.
Measuring ==
  /\ pc \in Fresh => pcr.p19 = <<>>
  /\ pc \in {"access", "hashCmdline"} \cup Hashing => config.cmdline.nv # "absent"
  /\ pc \in Hashing =>
       /\ config.flagMods
       /\ mbi.at \in 1 .. Len(mbi.mods)
       /\ \A k \in 1 .. mbi.at - 1 : ~mbi.mods[k].bad
  /\ pc = "hashModule" => pcr.p19 = Before(config, mbi.mods, mbi.at)
  /\ pc = "hashString" =>
       /\ mbi.mods[mbi.at].string # Empty /\ ~mbi.mods[mbi.at].bad
       /\ pcr.p19 = Append(Before(config, mbi.mods, mbi.at), mbi.mods[mbi.at].data)
  /\ pc \in Hashed => Measurable(intel, config) /\ pcr.p19 = Items(config)

\* A blob is bound to a configuration that was measured to the end.
Bound(txt, b) ==
  /\ b.config \in Configs /\ Measurable(txt, b.config)
  /\ b.digest = <<b.config.image, ItemsOn(txt, b.config)>>

\* What is sealed, and who wrote it.
Sealed ==
  /\ nv = NoBlob \/ Bound(intel, nv)
  /\ pc \in Configuring \cup {"askPassphrase"} => typed["config"] = "y"
  /\ pc \in Writing =>
       /\ Bound(intel, blob) /\ blob.config = config
       /\ blob.pp = typed["pp"] /\ blob.auth = typed["ppAuth"] /\ typed["srkAuth"] = SrkAuth

\* What is on the screen.
Showing ==
  /\ pc \notin Starting \cup {"deactivate", "hang"} => typed["yes"] = None
  /\ shown # None =>
       /\ pc \in Starting \cup {"askYes", "deactivate", "hang"}
       /\ pc # "askYes" => typed["yes"] # None
       /\ nv # NoBlob /\ nv.digest = <<pcr.launch, pcr.p19>>
       /\ pcr.launch = config.image /\ pcr.p19 = Items(config)
       /\ pc = "kernel" => BeginsWith(pcr.p19, Cat(CmdlineItems(config), ModuleItems(mbi.started)))

-----------------------------------------------------------------------------
\* The measured modules of a configuration, and the items measured of them.
LEMMA ConfigFacts ==
  ASSUME NEW c \in Configs, NEW txt \in BOOLEAN
  PROVE  /\ MeasuredOn(txt, c).mods \in Seq(Modules)
         /\ txt => MeasuredOn(txt, c).mods = NotFirstSinit(c.mods)
         /\ ~txt => MeasuredOn(txt, c).mods = c.mods
         /\ MeasuredOn(txt, c).image = c.image
         /\ CmdlineItems(MeasuredOn(txt, c)) = CmdlineItems(c)
         /\ CmdlineItems(c) \in Seq(Data)
         /\ Holds(Data, Modules)
<1>1. DOMAIN c = {"image", "cmdline", "flagCmdline", "flagMods", "mods"} /\ c.mods \in Seq(Range(c.mods))
  BY SableAssumption, Zenon
<1>2. c.mods \in Seq(Modules)
  <2>1. Range(c.mods) \subseteq Modules
    BY Zenon DEF Modules
  <2> DEFINE R == Range(c.mods)
             N == Modules
             ms == c.mods
  <2>2. ms \in Seq(R) /\ R \subseteq N
    BY <1>1, <2>1, Zenon
  <2> HIDE DEF R, N, ms
  <2>3. ms \in Seq(N)
    BY <2>2
  <2>4. QED
    BY <2>3, Zenon DEF N, ms
<1>3. NotFirstSinit(c.mods) \in Seq(Modules)
  BY <1>2, NotFirstSinitIs, Zenon
<1>4. c.cmdline.text \in Data
  BY Zenon DEF Data
<1>5. \A m \in Modules : m.data \in Data /\ m.string \in Data
  BY Zenon DEF Data
<1> HIDE DEF Data, Modules
<1>6. Holds(Data, Modules)
  <2> SUFFICES ASSUME NEW m \in Modules PROVE ModuleItem(m) \in Seq(Data)
    BY Zenon DEF Holds
  <2>1. m.data \in Data /\ m.string \in Data
    BY <1>5, Zenon
  <2>2. QED
    BY <2>1 DEF ModuleItem
<1>7. CmdlineItems(c) \in Seq(Data)
  BY <1>4 DEF CmdlineItems
<1>8. QED
  BY <1>1, <1>2, <1>3, <1>6, <1>7, Zenon DEF MeasuredOn, CmdlineItems

\* Short sequences.
LEMMA TwoItems ==
  ASSUME NEW D, NEW d \in D, NEW t \in D
  PROVE  <<d>> \o <<t>> = <<d, t>>
<1> DEFINE s == <<d>>
           u == <<t>>
           v == <<d, t>>
<1>1. s \in Seq(D) /\ u \in Seq(D) /\ v \in Seq(D) /\ Len(s) = 1 /\ Len(u) = 1 /\ Len(v) = 2
      /\ s[1] = d /\ u[1] = t /\ v[1] = d /\ v[2] = t
  OBVIOUS
<1> HIDE DEF s, u, v
<1>2. s \o u \in Seq(D) /\ Len(s \o u) = 2 /\ (s \o u)[1] = v[1] /\ (s \o u)[2] = v[2]
  <2> DEFINE w == s \o u
  <2>1. /\ w \in Seq(D) /\ Len(w) = Len(s) + Len(u)
        /\ \A i \in 1 .. Len(s) + Len(u) : w[i] = IF i <= Len(s) THEN s[i] ELSE u[i - Len(s)]
    BY <1>1, ConcatProperties, SMTT(30)
  <2> HIDE DEF w
  <2>2. Len(w) = 2 /\ w[1] = v[1] /\ w[2] = v[2]
    BY <1>1, <2>1
  <2>3. QED
    BY <2>1, <2>2, Zenon DEF w
<1>3. s \o u = v
  BY <1>1, <1>2, SeqEqual
<1>4. QED
  BY <1>3, Zenon DEF s, u, v

\* The first one and the first two of a list.
LEMMA FirstOfList ==
  ASSUME NEW D, NEW s \in Seq(D)
  PROVE  /\ Len(s) >= 1 => SubSeq(s, 1, 1) = <<s[1]>> /\ <<s[1]>> \o <<>> = <<s[1]>>
         /\ Len(s) >= 2 => SubSeq(s, 1, 2) = <<s[1], s[2]>>
<1>1. ASSUME Len(s) >= 1 PROVE SubSeq(s, 1, 1) = <<s[1]>> /\ <<s[1]>> \o <<>> = <<s[1]>>
  <2> DEFINE u == SubSeq(s, 1, 1)
             v == <<s[1]>>
  <2>1. u \in Seq(D) /\ Len(u) = 1 /\ u[1] = s[1]
    BY <1>1
  <2>2. v \in Seq(D) /\ Len(v) = 1 /\ v[1] = s[1]
    BY <1>1
  <2> HIDE DEF u, v
  <2>3. u = v /\ v \o <<>> = v
    BY <2>1, <2>2, SeqEqual, ConcatEmptySeq
  <2>4. QED
    BY <2>3, Zenon DEF u, v
<1>2. ASSUME Len(s) >= 2 PROVE SubSeq(s, 1, 2) = <<s[1], s[2]>>
  <2> DEFINE u == SubSeq(s, 1, 2)
             v == <<s[1], s[2]>>
  <2>1. u \in Seq(D) /\ Len(u) = 2 /\ u[1] = s[1] /\ u[2] = s[2]
    BY <1>2
  <2>2. v \in Seq(D) /\ Len(v) = 2 /\ v[1] = s[1] /\ v[2] = s[2]
    BY <1>2
  <2> HIDE DEF u, v
  <2>3. u = v
    BY <2>1, <2>2, SeqEqual, SMTT(30)
  <2>4. QED
    BY <2>3, Zenon DEF u, v
<1>3. QED
  BY <1>1, <1>2, Zenon

\* What mbi_calc_hash() extends for one module.
LEMMA BeforeFacts ==
  ASSUME NEW c \in Configs, NEW txt \in BOOLEAN, NEW ms, ms = MeasuredOn(txt, c).mods
  PROVE  /\ Before(c, ms, 1) = CmdlineItems(c)
         /\ Before(c, ms, Len(ms) + 1) = ItemsOn(txt, c)
         /\ \A k \in 1 .. Len(ms) :
              /\ ms[k].string = Empty =>
                   Before(c, ms, k + 1) = Append(Before(c, ms, k), ms[k].data)
              /\ ms[k].string # Empty =>
                   Before(c, ms, k + 1) = Append(Append(Before(c, ms, k), ms[k].data), ms[k].string)
<1> DEFINE x == CmdlineItems(c)
           I(j) == ModuleItems(SubSeq(ms, 1, j))
<1>1. ms \in Seq(Modules) /\ x \in Seq(Data) /\ Holds(Data, Modules)
  BY ConfigFacts, Zenon
<1>2. Before(c, ms, 1) = x
  <2>1. I(0) = <<>>
    BY <1>1, ItemsSeq, Zenon
  <2>2. Cat(x, <<>>) = x
    BY <1>1, CatFacts, Zenon
  <2>3. 1 - 1 = 0
    OBVIOUS
  <2>4. QED
    BY <2>1, <2>2, <2>3, Zenon DEF Before
<1>3. Before(c, ms, Len(ms) + 1) = ItemsOn(txt, c)
  <2>1. I(Len(ms)) = ModuleItems(ms)
    BY <1>1, ItemsSeq, Zenon
  <2>2. Len(ms) + 1 - 1 = Len(ms)
    BY <1>1
  <2>3. Before(c, ms, Len(ms) + 1) = Cat(x, I(Len(ms) + 1 - 1))
    BY DEF Before
  <2>4. ItemsOn(txt, c) = Cat(x, ModuleItems(ms))
    BY Zenon DEF ItemsOn, Cat
  <2> HIDE DEF I
  <2>5. QED
    BY <2>1, <2>2, <2>3, <2>4, Zenon
<1>4. ASSUME NEW k \in 1 .. Len(ms)
      PROVE  /\ ms[k].string = Empty =>
                   Before(c, ms, k + 1) = Append(Before(c, ms, k), ms[k].data)
             /\ ms[k].string # Empty =>
                   Before(c, ms, k + 1) = Append(Append(Before(c, ms, k), ms[k].data), ms[k].string)
  <2> DEFINE d == ms[k].data
             t == ms[k].string
             b == Cat(x, I(k - 1))
  <2>1. ms[k] \in Modules /\ k - 1 \in 0 .. Len(ms) /\ k \in 0 .. Len(ms) /\ k + 1 - 1 = k
    BY <1>1
  <2>2. d \in Data /\ t \in Data /\ ModuleItem(ms[k]) \in Seq(Data)
    BY <1>1, <2>1, Zenon DEF Holds, Data
  <2>3. I(k) = Cat(I(k - 1), ModuleItem(ms[k]))
    BY <1>1, ItemsStep, Zenon
  <2>4. I(k - 1) \in Seq(Data)
    BY <1>1, <2>1, ItemsSeq, Zenon
  <2>5. Before(c, ms, k) = b
    BY Zenon DEF Before
  <2>6. Before(c, ms, k + 1) = Cat(x, I(k))
    <3>1. Before(c, ms, k + 1) = Cat(x, I(k + 1 - 1))
      BY DEF Before
    <3> HIDE DEF I
    <3>2. QED
      BY <2>1, <3>1, Zenon
  <2>7. ModuleItem(ms[k]) = IF t = Empty THEN <<d>> ELSE <<d, t>>
    <3>1. ModuleItem(ms[k]) = <<d>> \o (IF t = Empty THEN <<>> ELSE <<t>>)
      BY Zenon DEF ModuleItem
    <3> HIDE DEF d, t
    <3>2. CASE t = Empty
      BY <2>2, <3>1, <3>2
    <3>3. CASE t # Empty
      <4>1. ModuleItem(ms[k]) = <<d>> \o <<t>>
        BY <3>1, <3>3, Zenon
      <4>2. <<d>> \o <<t>> = <<d, t>>
        BY <2>2, TwoItems, Zenon
      <4>3. QED
        BY <3>3, <4>1, <4>2, Zenon
    <3>4. QED
      BY <3>2, <3>3, Zenon
  <2> DEFINE D == Data
             i == I(k - 1)
             m == ModuleItem(ms[k])
  <2> HIDE DEF I, x, d, t, D, i, m
  <2>8. x \in Seq(D) /\ i \in Seq(D) /\ m \in Seq(D) /\ d \in D /\ t \in D
    BY <1>1, <2>2, <2>4, Zenon DEF D, m, i
  <2>9. Cat(x, Cat(i, m)) = Cat(Cat(x, i), m) /\ Cat(x, i) \in Seq(D)
    BY <2>8, CatFacts
  <2>10. ASSUME NEW s \in Seq(D) PROVE Cat(s, <<d>>) = Append(s, d) /\ Cat(s, <<d, t>>) = Append(Append(s, d), t)
    BY <2>8, SMTT(30) DEF Cat
  <2>11. Before(c, ms, k + 1) = Cat(b, m)
    BY <2>3, <2>6, <2>9, Zenon DEF i, m
  <2>12. b \in Seq(D)
    BY <2>9, Zenon DEF i
  <2>13. Cat(b, m) = IF t = Empty THEN Append(b, d) ELSE Append(Append(b, d), t)
    BY <2>7, <2>10, <2>12, Zenon DEF m
  <2>14. QED
    BY <2>5, <2>11, <2>13, Zenon DEF d, t
<1>5. QED
  BY <1>2, <1>3, <1>4, Zenon DEF x

-----------------------------------------------------------------------------
\* The end of a boot, and a step after the measurement that leaves the list of modules
\* and the PCRs alone.
Restart == pc' = "off" /\ VolatileReset /\ UNCHANGED <<intel, config>>
Quiet ==
  /\ pc \in Hashed /\ pc' \in Hashed \cup {"launch_kernel"}
  /\ UNCHANGED <<intel, config, mbi, pcr>>

\* reboot() and exit() end a boot.
LEMMA RebootRestarts == ASSUME NEW reason, Reboot(reason) PROVE Restart
  BY Zenon DEF Reboot, Restart

\* Any step is one of those, or one of those that the proofs below take one by one.
LEMMA StepKinds ==
  ASSUME [Next]_vars
  PROVE  \/ UNCHANGED vars \/ Restart \/ Quiet
         \/ prepare_tpm \/ pre_launch \/ PlatformFails \/ intel_post_launch \/ revert_skinit
         \/ post_launch \/ tis_access \/ HashCmdline \/ HashModule \/ HashString
         \/ launch_kernel \/ start_module \/ \E c \in Configs : PowerOn(c)
<1> USE DEF Goto, Keep, Hashed, Configuring, Unsealing
<1>1. TPM_PCRRead => Quiet
  BY DEF TPM_PCRRead, Quiet, volatile
<1>2. TPM_GetRandom => Quiet
  BY Zenon DEF TPM_GetRandom, Quiet, volatile
<1>3. TPM_OSAP \/ TPM_OIAP => Quiet
  BY Zenon DEF TPM_OSAP, TPM_OIAP, Quiet
<1>4. NonceOdd => Quiet
  BY Zenon DEF NonceOdd, get_nonce, Quiet
<1>5. AskConfig \/ AskPassphrase => Quiet
  BY Zenon DEF AskConfig, AskPassphrase, Type, Quiet
<1>6. AskAuthdata => Quiet
  BY Zenon DEF AskAuthdata, get_authdata, Type, Quiet
<1>7. seal_passphrase => Quiet \/ Restart
  BY RebootRestarts, Zenon DEF seal_passphrase, Quiet
<1>8. write_passphrase => Quiet \/ Restart
  BY RebootRestarts, Zenon DEF write_passphrase, Quiet, Restart
<1>9. read_passphrase => Quiet \/ Restart
  BY RebootRestarts, Zenon DEF read_passphrase, Quiet
<1>10. unseal_passphrase => Quiet \/ Restart
  BY RebootRestarts, Zenon DEF unseal_passphrase, Quiet
<1>11. AskYes => Quiet \/ Restart
  BY RebootRestarts, Zenon DEF AskYes, Type, Quiet
<1>12. DeactivateAll => Quiet
  BY Zenon DEF DeactivateAll, Quiet, volatile
<1>13. ConfigureDone \/ TpmFault \/ PowerLoss => Restart
  BY RebootRestarts, Zenon DEF ConfigureDone, TpmFault, PowerLoss
<1>14. QED
  BY <1>1, <1>2, <1>3, <1>4, <1>5, <1>6, <1>7, <1>8, <1>9, <1>10, <1>11, <1>12, <1>13, SMTT(30) DEF Next, Step

\* A reboot keeps the configuration until the next boot is started.
LEMMA RestartListed == ASSUME Listed, Restart PROVE Listed' /\ Measuring'
  BY Zenon DEF Listed, Measuring, Restart, VolatileReset, NoMbi, Unmeasured, Cut, Cutting, Hashing,
         Hashed, Fresh, Configuring, Unsealing

\* Init establishes the invariant of the list and of the measurement.
LEMMA InitListed == Init => Listed /\ Measuring
  BY Zenon DEF Init, Listed, Measuring, NoMbi, Unmeasured, Cut, Cutting, Hashing,
         Hashed, Fresh, Configuring, Unsealing

\* Every step preserves that of the list: on Intel what intel_post_launch() cuts away
\* is what the configuration is measured without.
LEMMA NextListed == Listed /\ [Next]_vars => Listed'
<1> SUFFICES ASSUME Listed, [Next]_vars PROVE Listed'
  BY Zenon
<1> USE DEF Listed, Goto, Keep, Cut, Cutting, Hashing, Hashed, Configuring, Unsealing, Measured
<1>1. CASE UNCHANGED vars
  BY <1>1, Zenon DEF vars
<1>2. CASE Restart
  BY <1>2, RestartListed, Zenon
<1>3. CASE Quiet
  BY <1>3 DEF Quiet
<1>4. CASE prepare_tpm \/ tis_access
  BY <1>4, Zenon DEF prepare_tpm, tis_access, volatile
<1>5. CASE pre_launch
  BY <1>5, Zenon DEF pre_launch
<1>6. CASE PlatformFails
  BY <1>6, RebootRestarts, RestartListed, Zenon DEF PlatformFails, volatile
<1>7. CASE intel_post_launch
  <2>1. MeasuredOn(TRUE, config).mods = NotFirstSinit(config.mods)
    BY ConfigFacts, Zenon
  <2>2. QED
    BY <1>7, <2>1, Zenon DEF intel_post_launch, remove_txt_modules
<1>8. CASE revert_skinit
  <2>1. MeasuredOn(FALSE, config).mods = config.mods
    BY ConfigFacts, Zenon
  <2>2. QED
    BY <1>8, <2>1, RebootRestarts, RestartListed, Zenon DEF revert_skinit, volatile
<1>9. CASE post_launch
  BY <1>9, RebootRestarts, RestartListed, Zenon DEF post_launch, volatile
<1>10. CASE HashCmdline
  BY <1>10, RebootRestarts, RestartListed, Zenon DEF HashCmdline, At, TPM_Extend
<1>11. CASE HashModule
  BY <1>11, RebootRestarts, RestartListed, Zenon DEF HashModule, NextModule, At, TPM_Extend
<1>12. CASE HashString
  BY <1>12, Zenon DEF HashString, NextModule, At, TPM_Extend
<1>13. CASE launch_kernel
  BY <1>13, SMTT(30) DEF launch_kernel, StartFirst, NoMbi
<1>14. CASE start_module
  BY <1>14, RebootRestarts, RestartListed, Zenon DEF start_module, StartFirst
<1>15. CASE \E c \in Configs : PowerOn(c)
  BY <1>15 DEF PowerOn, NoMbi
<1>16. QED
  BY <1>1, <1>2, <1>3, <1>4, <1>5, <1>6, <1>7, <1>8, <1>9, <1>10, <1>11, <1>12, <1>13, <1>14, <1>15, StepKinds, ZenonT(30)

\* The same for the configuration that runs.
LEMMA BeforeNow ==
  ASSUME Listed, pc \in Cut
  PROVE  /\ mbi.mods \in Seq(Modules)
         /\ Before(config, mbi.mods, 1) = CmdlineItems(config)
         /\ Before(config, mbi.mods, Len(mbi.mods) + 1) = Items(config)
         /\ \A k \in 1 .. Len(mbi.mods) :
              /\ mbi.mods[k].string = Empty =>
                   Before(config, mbi.mods, k + 1) =
                     Append(Before(config, mbi.mods, k), mbi.mods[k].data)
              /\ mbi.mods[k].string # Empty =>
                   Before(config, mbi.mods, k + 1) =
                     Append(Append(Before(config, mbi.mods, k), mbi.mods[k].data), mbi.mods[k].string)
<1> DEFINE ms == mbi.mods
<1>1. config \in Configs /\ intel \in BOOLEAN /\ ms = MeasuredOn(intel, config).mods
  BY Zenon DEF Listed, Measured
<1> HIDE DEF ms
<1>2. ms \in Seq(Modules)
  BY <1>1, ConfigFacts
<1>3. /\ Before(config, ms, 1) = CmdlineItems(config)
      /\ Before(config, ms, Len(ms) + 1) = ItemsOn(intel, config)
      /\ \A k \in 1 .. Len(ms) :
           /\ ms[k].string = Empty => Before(config, ms, k + 1) = Append(Before(config, ms, k), ms[k].data)
           /\ ms[k].string # Empty =>
                Before(config, ms, k + 1) = Append(Append(Before(config, ms, k), ms[k].data), ms[k].string)
  BY <1>1, BeforeFacts, SMTT(60)
<1>4. QED
  BY <1>2, <1>3, Zenon DEF Items, ms

\* mbi_calc_hash() goes on to the next module, or is done, when the items of this one
\* have been extended.
LEMMA ModuleMeasured ==
  ASSUME Listed, Measuring, pc \in Hashing, NextModule, UNCHANGED <<intel, config>>,
         ~mbi.mods[mbi.at].bad, pcr'.p19 = Before(config, mbi.mods, mbi.at + 1)
  PROVE  Measuring'
<1> DEFINE ms == mbi.mods
           k == mbi.at
<1>1. ms = MeasuredOn(intel, config).mods /\ config \in Configs /\ intel \in BOOLEAN
  BY Zenon DEF Listed, Cut, Hashing, Measured
<1>2. ms \in Seq(Modules)
  BY <1>1, ConfigFacts, Zenon
<1>3. Len(ms) \in Nat /\ DOMAIN ms = 1 .. Len(ms) /\ (ms # <<>> <=> Len(ms) > 0)
  BY <1>2
<1>4. /\ config.flagMods /\ config.cmdline.nv # "absent"
      /\ k \in 1 .. Len(ms) /\ \A i \in 1 .. k - 1 : ~ms[i].bad
  BY Zenon DEF Measuring, Hashing
<1>5. \A i \in 1 .. k : ~ms[i].bad
  BY <1>3, <1>4
<1>6. CASE k < Len(ms)
  <2>1. mbi'.mods = ms /\ mbi'.at = k + 1 /\ pc' = "hashModule"
    BY <1>6, Zenon DEF NextModule, At, Goto, Listed
  <2> HIDE DEF ms, k
  <2>2. k + 1 \in 1 .. Len(ms) /\ k + 1 - 1 = k
    BY <1>3, <1>4, <1>6
  <2>3. /\ pcr'.p19 = Before(config, mbi'.mods, mbi'.at)
        /\ mbi'.at \in 1 .. Len(mbi'.mods) /\ \A i \in 1 .. mbi'.at - 1 : ~mbi'.mods[i].bad
    <3>1. pcr'.p19 = Before(config, ms, k + 1)
      BY Zenon DEF ms, k
    <3>2. mbi'.at - 1 = k
      BY <1>4, <2>1
    <3>3. \A i \in 1 .. mbi'.at - 1 : ~mbi'.mods[i].bad
      BY <1>5, <2>1, <3>2, SMTT(30)
    <3>4. QED
      BY <2>1, <2>2, <3>1, <3>3, Zenon
  <2>4. QED
    BY <1>4, <2>1, <2>3, Zenon DEF Measuring, Fresh, Hashing, Hashed, Configuring, Unsealing
<1>7. CASE ~(k < Len(ms))
  <2>1. pc' = "read17" /\ k = Len(ms)
    BY <1>3, <1>4, <1>7, SMTT(30) DEF NextModule, Goto
  <2>2. pcr'.p19 = Items(config)
    BY <1>1, <2>1, BeforeFacts, SMTT(30) DEF Items
  <2>3. Measurable(intel, config)
    BY <1>1, <1>3, <1>4, <1>5, <2>1 DEF Measurable
  <2>4. QED
    BY <2>1, <2>2, <2>3, SMTT(30) DEF Measuring, Fresh, Hashing, Hashed, Configuring, Unsealing, Items
<1>8. QED
  BY <1>6, <1>7, Zenon

\* The command line comes first.
LEMMA CmdlineMeasured ==
  ASSUME Listed, Measuring, HashCmdline PROVE Measuring'
<1>1. CASE \E reason : Reboot(reason)
  BY <1>1, RebootRestarts, RestartListed, SMTT(30)
<1>2. CASE pc' = "hashModule"
  <2>1. pc = "hashCmdline" /\ pcr.p19 = <<>> /\ config.cmdline.nv # "absent"
    BY Zenon DEF HashCmdline, Measuring, Fresh
  <2>2. /\ config.flagMods /\ Len(mbi.mods) > 0
        /\ mbi'.mods = mbi.mods /\ mbi'.at = 1 /\ UNCHANGED <<intel, config>>
        /\ IF config.flagCmdline THEN pcr'.p19 = <<config.cmdline.text>> ELSE pcr'.p19 = <<>>
    BY <1>2, <2>1, SMTT(30) DEF HashCmdline, At, TPM_Extend, Listed, Reboot, Keep
  <2>3. Before(config, mbi.mods, 1) = CmdlineItems(config) /\ mbi.mods \in Seq(Modules)
    BY <2>1, BeforeNow, Zenon DEF Cut
  <2>4. pcr'.p19 = Before(config', mbi'.mods, mbi'.at)
    BY <2>2, <2>3, Zenon DEF CmdlineItems
  <2>5. mbi'.at \in 1 .. Len(mbi'.mods) /\ \A k \in 1 .. mbi'.at - 1 : ~mbi'.mods[k].bad
    BY <2>2, <2>3, SMTT(30)
  <2>6. QED
    BY <1>2, <2>1, <2>2, <2>4, <2>5, SMTT(30) DEF Measuring, Fresh, Hashing, Hashed, Configuring, Unsealing
<1>3. QED
  BY <1>1, <1>2, Zenon DEF HashCmdline, Goto

\* Then the contents of a module.
LEMMA HashModuleMeasures ==
  ASSUME Listed, Measuring, HashModule PROVE Measuring'
<1> DEFINE ms == mbi.mods
           k == mbi.at
<1>1. pc = "hashModule" /\ k \in 1 .. Len(ms) /\ pcr.p19 = Before(config, ms, k)
  BY Zenon DEF HashModule, Measuring, Hashing
<1>2. CASE \E reason : Reboot(reason)
  BY <1>2, RebootRestarts, RestartListed, Zenon
<1>3. CASE /\ ~ms[k].bad /\ TPM_Extend(ms[k].data) /\ UNCHANGED <<intel, config>>
           /\ IF ms[k].string # Empty THEN At(k) /\ Goto("hashString") ELSE NextModule
  <2>1. pcr'.p19 = Append(Before(config, ms, k), ms[k].data)
    BY <1>1, <1>3, SMTT(30) DEF TPM_Extend, Listed
  <2>2. CASE ms[k].string = Empty
    <3>1. pcr'.p19 = Before(config, ms, k + 1)
      BY <1>1, <2>1, <2>2, BeforeNow, SMTT(30) DEF Cut, Hashing
    <3>2. QED
      BY <1>1, <1>3, <2>2, <3>1, ModuleMeasured, SMTT(30) DEF Hashing
  <2>3. CASE ms[k].string # Empty
    <3>1. pc' = "hashString" /\ mbi'.mods = ms /\ mbi'.at = k
      BY <1>3, <2>3, SMTT(30) DEF At, Goto, Listed
    <3>2. QED
      BY <1>1, <1>3, <2>1, <2>3, <3>1, Zenon DEF Measuring, Fresh, Hashing, Hashed, Configuring, Unsealing
  <2>4. QED
    BY <2>2, <2>3
<1>4. QED
  BY <1>2, <1>3, Zenon DEF HashModule, Keep

\* And its string.
LEMMA HashStringMeasures ==
  ASSUME Listed, Measuring, HashString PROVE Measuring'
<1> DEFINE ms == mbi.mods
           k == mbi.at
<1>1. /\ pc = "hashString" /\ k \in 1 .. Len(ms) /\ ms[k].string # Empty /\ ~ms[k].bad
      /\ pcr.p19 = Append(Before(config, ms, k), ms[k].data)
  BY Zenon DEF HashString, Measuring, Hashing
<1>2. pcr'.p19 = Append(Append(Before(config, ms, k), ms[k].data), ms[k].string)
  BY <1>1, Zenon DEF HashString, TPM_Extend, Listed
<1>3. pcr'.p19 = Before(config, ms, k + 1)
  BY <1>1, <1>2, BeforeNow, ZenonT(30) DEF Cut, Hashing
<1>4. QED
  BY <1>1, <1>3, ModuleMeasured, SMTT(30) DEF HashString, Keep, Hashing

\* Every step preserves that of the measurement: PCR 19 grows by the items of one
\* module after the other, and holds all of them when the measurement is done.
LEMMA NextMeasuring == Listed /\ Measuring /\ [Next]_vars => Measuring'
<1> SUFFICES ASSUME Listed, Measuring, [Next]_vars PROVE Measuring'
  BY SMTT(30)
<1> USE DEF Measuring, Goto, Keep, Cut, Cutting, Hashing, Hashed, Fresh, Configuring, Unsealing
<1>1. CASE UNCHANGED vars
  BY <1>1, SMTT(30) DEF vars, Items
<1>2. CASE Restart
  BY <1>2, RestartListed, SMTT(30)
<1>3. CASE Quiet
  BY <1>3, Zenon DEF Quiet, Items
<1>4. CASE prepare_tpm \/ tis_access
  BY <1>4, ZenonT(30) DEF prepare_tpm, tis_access, volatile
<1>5. CASE pre_launch
  BY <1>5, SMTT(30) DEF pre_launch
<1>6. CASE PlatformFails
  BY <1>6, RebootRestarts, RestartListed DEF PlatformFails, volatile
<1>7. CASE intel_post_launch
  BY <1>7, ZenonT(30) DEF intel_post_launch
<1>8. CASE revert_skinit
  BY <1>8, RebootRestarts, RestartListed, SMTT(30) DEF revert_skinit, volatile
<1>9. CASE post_launch
  BY <1>9, RebootRestarts, RestartListed, SMTT(30) DEF post_launch, volatile
<1>10. CASE HashCmdline
  BY <1>10, CmdlineMeasured, Zenon
<1>11. CASE HashModule
  BY <1>11, HashModuleMeasures, Zenon
<1>12. CASE HashString
  BY <1>12, HashStringMeasures, Zenon
<1>13. CASE launch_kernel
  BY <1>13, SMTT(30) DEF launch_kernel
<1>14. CASE start_module
  BY <1>14, RebootRestarts, RestartListed DEF start_module
<1>15. CASE \E c \in Configs : PowerOn(c)
  BY <1>15, Zenon DEF PowerOn
<1>16. QED
  BY <1>1, <1>2, <1>3, <1>4, <1>5, <1>6, <1>7, <1>8, <1>9, <1>10, <1>11, <1>12, <1>13, <1>14, <1>15, StepKinds, ZenonT(60)

-----------------------------------------------------------------------------
\* A reboot keeps what is in the nonvolatile area.
LEMMA RebootSealed ==
  ASSUME NEW reason, Sealed, Reboot(reason) PROVE Sealed'
  BY Zenon DEF Sealed, Reboot, Configuring, Writing

\* Init establishes the invariant of the nonvolatile area.
LEMMA InitSealed == Init => Sealed
  BY Zenon DEF Init, Sealed, Configuring, Writing

\* Every step preserves it.
LEMMA NextSealed == Listed /\ Measuring /\ Flow /\ Sealed /\ [Next]_vars => Sealed'
<1> SUFFICES ASSUME Listed, Measuring, Flow, Sealed, [Next]_vars
             PROVE  Sealed'
  BY Zenon
<1>0. DOMAIN typed = Prompts /\ (pc \in Writing => IsBlob(blob))
  BY SMTT(30) DEF Flow
<1> USE DEF Sealed, Goto, Keep, Configuring, Writing
<1>1. CASE prepare_tpm \/ tis_access \/ DeactivateAll \/ TPM_PCRRead \/ TPM_GetRandom
  BY <1>1, SMTT(30) DEF prepare_tpm, tis_access, DeactivateAll, TPM_PCRRead, TPM_GetRandom, volatile
<1>2. CASE launch_kernel \/ pre_launch \/ intel_post_launch \/ HashString
  BY <1>2 DEF launch_kernel, pre_launch, intel_post_launch, HashString, NextModule
<1>3. CASE PlatformFails \/ post_launch \/ revert_skinit
  BY <1>3, RebootSealed, ZenonT(30) DEF PlatformFails, post_launch, revert_skinit, volatile
<1>4. CASE HashCmdline \/ HashModule
  BY <1>4, RebootSealed DEF HashCmdline, HashModule, NextModule
<1>5. CASE TPM_OSAP \/ TPM_OIAP \/ NonceOdd
  BY <1>5, ZenonT(30) DEF TPM_OSAP, TPM_OIAP, NonceOdd, get_nonce
<1>6. CASE AskConfig
  BY <1>0, <1>6 DEF AskConfig, Type, Prompts
<1>7. CASE AskPassphrase
  BY <1>0, <1>7, SMTT(30) DEF AskPassphrase, Type, Prompts
<1>8. CASE AskAuthdata
  BY <1>0, <1>8, SMTT(30) DEF AskAuthdata, get_authdata, Type, Prompts
<1>9. CASE seal_passphrase
  <2>1. /\ config \in Configs /\ Measurable(intel, config)
        /\ get_pcr_info = <<config.image, ItemsOn(intel, config)>>
    BY <1>9, Zenon DEF seal_passphrase, Listed, Measuring, Hashed, Cut, get_pcr_info, Items
  <2>2. CASE TPM_Seal
    BY <1>9, <2>1, <2>2, ZenonT(30) DEF seal_passphrase, TPM_Seal, Bound, Reboot
  <2>3. QED
    BY <1>9, <2>2, RebootSealed, SMTT(30) DEF seal_passphrase
<1>10. CASE write_passphrase
  <2>1. CASE nv' = Stored
    <3>1. pc = "write" /\ UNCHANGED intel /\ pc' \in {"deactivateOff", "off"}
      BY <1>10, Zenon DEF write_passphrase, Reboot
    <3>2. Bound(intel, Stored)
      BY <1>0, <3>1, SMTT(30) DEF Stored, Bound, IsBlob
    <3>3. QED
      BY <2>1, <3>1, <3>2, SMTT(30)
  <2>2. QED
    BY <1>10, <2>1, RebootSealed DEF write_passphrase, TPM_NV_WriteValueAuth
<1>11. CASE ConfigureDone \/ TpmFault \/ PowerLoss
  BY <1>11, RebootSealed, SMTT(30) DEF ConfigureDone, TpmFault, PowerLoss
<1>12. CASE read_passphrase \/ unseal_passphrase
  BY <1>12, RebootSealed, SMTT(30) DEF read_passphrase, unseal_passphrase
<1>13. CASE AskYes
  BY <1>13, RebootSealed, Zenon DEF AskYes, Type
<1>14. CASE start_module
  BY <1>14, RebootSealed, Zenon DEF start_module
<1>15. CASE \E c \in Configs : PowerOn(c)
  BY <1>15, Zenon DEF PowerOn
<1>16. CASE UNCHANGED vars
  BY <1>16, Zenon DEF vars
<1>17. QED
  BY <1>1, <1>2, <1>3, <1>4, <1>5, <1>6, <1>7, <1>8, <1>9, <1>10, <1>11, <1>12, <1>13, <1>14, <1>15, <1>16, ZenonT(30) DEF Next, Step

-----------------------------------------------------------------------------
\* What is measured of the first modules is what PCR 19 begins with.
LEMMA FirstMeasured ==
  ASSUME NEW c \in Configs, NEW txt \in BOOLEAN, NEW ms, ms = MeasuredOn(txt, c).mods,
         NEW k \in 0 .. Len(ms)
  PROVE  BeginsWith(ItemsOn(txt, c), Cat(CmdlineItems(c), ModuleItems(SubSeq(ms, 1, k))))
<1>1. ms \in Seq(Modules) /\ CmdlineItems(c) \in Seq(Data) /\ Holds(Data, Modules)
  BY ConfigFacts, Zenon
<1>2. BeginsWith(Cat(CmdlineItems(c), ModuleItems(ms)),
                 Cat(CmdlineItems(c), ModuleItems(SubSeq(ms, 1, k))))
  BY <1>1, ItemsPrefix, Zenon
<1>3. ItemsOn(txt, c) = Cat(CmdlineItems(c), ModuleItems(ms))
  BY Zenon DEF ItemsOn, Cat
<1>4. QED
  BY <1>2, <1>3

\* The kernel and its modules are the first ones of the list that was measured, on
\* Intel although launch_kernel() cuts that list again.
LEMMA StartedFirst ==
  ASSUME Listed, launch_kernel \/ start_module, pc' = "kernel"
  PROVE  \E k \in 0 .. Len(Measured(config).mods) :
           mbi'.started = SubSeq(Measured(config).mods, 1, k)
<1> DEFINE ms == Measured(config).mods
<1>1. ms = mbi.mods /\ config \in Configs /\ intel \in BOOLEAN
  BY Zenon DEF Listed, launch_kernel, start_module, Cut
<1>2. ms \in Seq(Modules)
  BY <1>1, ConfigFacts DEF Measured
<1>3. CASE start_module
  <2>1. ms # <<>> /\ mbi'.started = <<Head(ms)>> \o Tail(ms)
    BY <1>1, <1>3 DEF start_module, StartFirst, Reboot
  <2> HIDE DEF ms
  <2>2. <<Head(ms)>> \o Tail(ms) = SubSeq(ms, 1, Len(ms))
    BY <1>2, <2>1
  <2>3. Len(ms) \in 0 .. Len(ms)
    BY <1>2
  <2>4. QED
    BY <2>1, <2>2, <2>3, SMTT(30) DEF ms
<1>4. CASE launch_kernel
  <2>1. intel
    BY <1>4, Zenon DEF launch_kernel, Goto
  <2>2. NotFirstSinit(ms) = ms
    <3>1. ms = NotFirstSinit(config.mods) /\ config.mods \in Seq(Range(config.mods))
      BY <1>1, <2>1, ConfigFacts, SableAssumption, Zenon DEF Measured
    <3>2. \A i \in 2 .. Len(ms) : ~IsSinit(ms[i])
      BY <3>1, NotFirstSinitIs, SMTT(30)
    <3> HIDE DEF ms
    <3>3. QED
      BY <1>2, <3>2, CutTwice, Zenon
  <2>3. ms # <<>> /\ mbi'.started = <<Head(ms)>> \o (IF Len(ms) > 1 THEN <<ms[2]>> ELSE <<>>)
    BY <1>1, <1>4, <2>1, <2>2, SMTT(30) DEF launch_kernel, StartFirst, Goto
  <2> HIDE DEF ms
  <2>4. Len(ms) \in Nat /\ Len(ms) > 0 /\ Head(ms) = ms[1] /\ \A i \in 1 .. Len(ms) : ms[i] \in Modules
    BY <1>2, <2>3, SMTT(30)
  <2>5. CASE Len(ms) > 1
    <3>1. <<ms[1]>> \o <<ms[2]>> = <<ms[1], ms[2]>>
      BY <2>4, <2>5, TwoItems
    <3>2. SubSeq(ms, 1, 2) = <<ms[1], ms[2]>>
      BY <1>2, <2>4, <2>5, FirstOfList
    <3>3. 2 \in 0 .. Len(ms)
      BY <2>4, <2>5, SMTT(30)
    <3>4. QED
      BY <2>3, <2>4, <2>5, <3>1, <3>2, <3>3, SMTT(30) DEF ms
  <2>6. CASE ~(Len(ms) > 1)
    <3>1. SubSeq(ms, 1, 1) = <<ms[1]>> /\ <<ms[1]>> \o <<>> = <<ms[1]>>
      BY <1>2, <2>4, FirstOfList
    <3>2. 1 \in 0 .. Len(ms)
      BY <2>4, SMTT(30)
    <3>3. QED
      BY <2>3, <2>4, <2>6, <3>1, <3>2, SMTT(30) DEF ms
  <2>7. QED
    BY <2>5, <2>6, Zenon
<1>5. QED
  BY <1>3, <1>4, Zenon

\* A reboot clears the screen.
LEMMA RebootShowing ==
  ASSUME Restart PROVE Showing'
  BY SMTT(30) DEF Showing, Restart, VolatileReset, NothingTyped, Starting

\* Init establishes the invariant of the screen.
LEMMA InitShowing == Init => Showing
  BY Zenon DEF Init, Showing, NothingTyped, Starting

\* Every step preserves it.
LEMMA NextShowing == Listed /\ Measuring /\ Flow /\ Showing /\ [Next]_vars => Showing'
<1> SUFFICES ASSUME Listed, Measuring, Flow, Showing, [Next]_vars
             PROVE  Showing'
  BY Zenon
<1>0. DOMAIN typed = Prompts
  BY Zenon DEF Flow
<1> USE DEF Showing, Goto, Keep, Starting, Items
<1>1. CASE prepare_tpm \/ tis_access \/ TPM_PCRRead \/ TPM_GetRandom
  BY <1>1, ZenonT(30) DEF prepare_tpm, tis_access, TPM_PCRRead, TPM_GetRandom, volatile
<1>2. CASE pre_launch \/ intel_post_launch \/ HashString
  BY <1>2, ZenonT(30) DEF pre_launch, intel_post_launch, HashString, NextModule
<1>3. CASE PlatformFails \/ post_launch \/ revert_skinit
  BY <1>3, RebootShowing, RebootRestarts, ZenonT(30) DEF PlatformFails, post_launch, revert_skinit, volatile
<1>4. CASE HashCmdline \/ HashModule
  BY <1>4, RebootShowing, RebootRestarts, Zenon DEF HashCmdline, HashModule, NextModule
<1>5. CASE TPM_OSAP \/ TPM_OIAP \/ NonceOdd
  BY <1>5, ZenonT(30) DEF TPM_OSAP, TPM_OIAP, NonceOdd, get_nonce
<1>6. CASE AskConfig
  BY <1>0, <1>6 DEF AskConfig, Type, Prompts
<1>7. CASE AskPassphrase
  BY <1>0, <1>7, Zenon DEF AskPassphrase, Type, Prompts
<1>8. CASE AskAuthdata
  BY <1>0, <1>8, ZenonT(30) DEF AskAuthdata, get_authdata, Type, Prompts
<1>9. CASE seal_passphrase \/ read_passphrase
  BY <1>9, RebootShowing, RebootRestarts, ZenonT(30) DEF seal_passphrase, read_passphrase
<1>10. CASE write_passphrase
  BY <1>10, RebootShowing, RebootRestarts, ZenonT(30) DEF write_passphrase, Restart
<1>11. CASE ConfigureDone \/ TpmFault \/ PowerLoss
  BY <1>11, RebootShowing, RebootRestarts, ZenonT(30) DEF ConfigureDone, TpmFault, PowerLoss
<1>12. CASE unseal_passphrase
  <2>1. pc = "unseal" /\ blob = nv /\ nv # NoBlob
    BY <1>12 DEF unseal_passphrase, Flow, Unsealing, IsBlob, NoBlob
  <2>2. pcr.launch = config.image /\ pcr.p19 = Items(config)
    BY <2>1, ZenonT(30) DEF Listed, Measuring, Cut, Hashed, Unsealing
  <2>3. QED
    BY <1>12, <2>1, <2>2, RebootShowing, RebootRestarts, ZenonT(30) DEF unseal_passphrase, get_pcr_info
<1>13. CASE AskYes
  BY <1>0, <1>13, RebootShowing, RebootRestarts, ZenonT(30) DEF AskYes, Type, Confirms, Prompts, None
<1>14. CASE DeactivateAll
  BY <1>14, ZenonT(30) DEF DeactivateAll, volatile, Flow, Measuring, Hashed
<1>15. CASE launch_kernel \/ start_module
  <2>1. CASE Restart
    BY <2>1, RebootShowing, ZenonT(30)
  <2>2. CASE pc' = "kernel" /\ ~Restart
    <3>1. PICK k \in 0 .. Len(Measured(config).mods) : mbi'.started = SubSeq(Measured(config).mods, 1, k)
      BY <1>15, <2>2, StartedFirst, ZenonT(30)
    <3>2. config \in Configs /\ intel \in BOOLEAN
      BY Zenon DEF Listed
    <3>3. BeginsWith(ItemsOn(intel, config), Cat(CmdlineItems(config), ModuleItems(mbi'.started)))
      BY <3>1, <3>2, FirstMeasured, Zenon DEF Measured
    <3>4. UNCHANGED <<nv, config, intel, pcr, typed, shown>> /\ pc \in {"launch_kernel", "start_module"}
      BY <1>15, <2>2, RebootRestarts DEF launch_kernel, start_module
    <3>5. QED
      BY <2>2, <3>3, <3>4, ZenonT(30)
  <2>3. CASE pc' # "kernel" /\ ~Restart
    BY <1>15, <2>3, RebootRestarts DEF launch_kernel, start_module
  <2>4. QED
    BY <2>1, <2>2, <2>3, ZenonT(30)
<1>16. CASE \E c \in Configs : PowerOn(c)
  BY <1>16, Zenon DEF PowerOn
<1>17. CASE UNCHANGED vars
  BY <1>17, Zenon DEF vars
<1>18. QED
  BY <1>1, <1>2, <1>3, <1>4, <1>5, <1>6, <1>7, <1>8, <1>9, <1>10, <1>11, <1>12, <1>13, <1>14, <1>15, <1>16, <1>17, ZenonT(30) DEF Next, Step

-----------------------------------------------------------------------------
\* The inductive invariant.
Trusted == Flow /\ Listed /\ Measuring /\ Sealed /\ Showing

\* It holds in every execution.
LEMMA AlwaysTrusted == Spec => []Trusted
<1>1. Init => Trusted
  BY InitFlow, InitListed, InitSealed, InitShowing, SMTT(30) DEF Trusted
<1>2. Trusted /\ [Next]_vars => Trusted'
  BY NextFlow, NextListed, NextMeasuring, NextSealed, NextShowing, SMTT(30) DEF Trusted
<1>3. QED
  BY <1>1, <1>2, PTL DEF Spec

\* StartedMeasured of every execution: the modules that launch_kernel() or
\* start_module() starts are the first of those that mbi_calc_hash() measured,
\* however many there are and wherever the SINIT modules were among them.
THEOREM StartedAlwaysMeasured == Spec => []StartedMeasured
<1>1. Trusted => StartedMeasured
  <2> SUFFICES ASSUME Trusted, pc = "kernel", shown # None
               PROVE  BeginsWith(nv.digest[2], CmdlineItems(config) \o ModuleItems(mbi.started))
    BY Zenon DEF StartedMeasured
  <2>1. nv.digest = <<pcr.launch, pcr.p19>>
    BY ZenonT(30) DEF Trusted, Showing, Starting
  <2>2. BeginsWith(pcr.p19, Cat(CmdlineItems(config), ModuleItems(mbi.started)))
    BY Zenon DEF Trusted, Showing, Starting
  <2>3. QED
    BY <2>1, <2>2 DEF Cat
<1>2. QED
  BY <1>1, AlwaysTrusted, PTL

\* WrittenByOwner of every execution: write_passphrase() alone changes the area, and
\* what it writes is bound to all the items of the configuration that runs.
THEOREM AlwaysWrittenByOwner == Spec => WrittenByOwner
<1> DEFINE Written ==
      /\ typed["config"] = "y" /\ typed["srkAuth"] = SrkAuth /\ typed["nvAuth"] = NvAuth
      /\ nv'.pp = typed["pp"] /\ nv'.auth = typed["ppAuth"]
      /\ nv'.config = config /\ nv'.digest = <<config.image, Items(config)>>
<1>1. Trusted /\ [Next]_vars => [nv' # nv => Written]_vars
  <2> SUFFICES ASSUME Trusted, [Next]_vars, nv' # nv PROVE Written
    BY SMTT(30)
  <2>1. write_passphrase /\ nv' = Stored /\ typed["nvAuth"] = NvAuth
    BY Zenon DEF Next, Step, Goto, Keep, volatile, vars, Reboot, Type,
       prepare_tpm, pre_launch, PlatformFails, intel_post_launch, revert_skinit, post_launch,
       tis_access, HashCmdline, HashModule, HashString, TPM_PCRRead, TPM_GetRandom, TPM_OSAP,
       TPM_OIAP, NonceOdd, get_nonce, AskConfig, AskPassphrase, AskAuthdata, get_authdata,
       seal_passphrase, write_passphrase, TPM_NV_WriteValueAuth, ConfigureDone, read_passphrase,
       unseal_passphrase, AskYes, DeactivateAll, launch_kernel, start_module, TpmFault,
       PowerLoss, PowerOn
  <2>2. pc = "write"
    BY <2>1, SMTT(30) DEF write_passphrase
  <2>3. IsBlob(blob) /\ Bound(intel, blob) /\ blob.config = config
    BY <2>2, Zenon DEF Trusted, Flow, Sealed, Writing
  <2>4. /\ Stored.pp = blob.pp /\ Stored.auth = blob.auth /\ Stored.config = blob.config
        /\ Stored.digest = blob.digest
    BY <2>3, Zenon DEF Stored, IsBlob
  <2>5. QED
    BY <2>1, <2>2, <2>3, <2>4, SMTT(30) DEF Trusted, Sealed, Writing, Configuring, Bound, Items
<1>2. QED
  BY <1>1, AlwaysTrusted, PTL DEF Spec, WrittenByOwner

\* Without any assumption on the configurations: while a passphrase is on the screen,
\* and when a kernel has been started after it, the image and the items that were
\* measured in this boot are those of the boot that sealed it.
SameItems ==
  shown # None => nv.config.image = config.image /\ Items(nv.config) = Items(config)

THEOREM ShownUnderSameItems == Spec => []SameItems
<1>1. Trusted => SameItems
  <2> SUFFICES ASSUME Trusted, shown # None
               PROVE  nv.config.image = config.image /\ Items(nv.config) = Items(config)
    BY SMTT(30) DEF SameItems
  <2>1. nv # NoBlob /\ nv.digest = <<config.image, Items(config)>>
    BY SMTT(30) DEF Trusted, Showing
  <2>2. nv.digest = <<nv.config.image, Items(nv.config)>>
    BY <2>1, Zenon DEF Trusted, Sealed, Bound, Items
  <2>3. QED
    BY <2>1, <2>2
<1>2. QED
  BY <1>1, AlwaysTrusted, PTL

\* The sealed configuration is the one that runs, if and only if the digest says so.
LEMMA DigestTells ==
  ASSUME Separable, Trusted, pc = "unseal"
  PROVE  /\ blob = nv /\ nv # NoBlob
         /\ Measured(nv.config) = Measured(config) <=> nv.digest = get_pcr_info
<1>1. pc = "unseal" /\ blob = nv /\ nv # NoBlob
  BY SMTT(30) DEF Trusted, Flow, Unsealing, IsBlob, NoBlob
<1>2. Bound(intel, nv) /\ config \in Configs /\ intel \in BOOLEAN
  BY <1>1, Zenon DEF Trusted, Sealed, Listed
<1>3. Measurable(intel, config) /\ get_pcr_info = <<config.image, ItemsOn(intel, config)>>
  BY <1>1, Zenon DEF Trusted, Listed, Measuring, Cut, Hashed, Unsealing, Items, get_pcr_info
<1>4. (Measured(nv.config) = Measured(config)) <=> (nv.digest = get_pcr_info)
  <2>1. ASSUME Measured(nv.config) = Measured(config)
        PROVE  nv.digest = get_pcr_info
    <3>1. nv.config.image = config.image /\ CmdlineItems(nv.config) = CmdlineItems(config)
      <4>1. \A c \in Configs : MeasuredOn(intel, c).image = c.image
                              /\ CmdlineItems(MeasuredOn(intel, c)) = CmdlineItems(c)
        BY <1>2, ConfigFacts, SMTT(30)
      <4>2. nv.config \in Configs /\ config \in Configs
        BY <1>2, Zenon DEF Bound
      <4>3. MeasuredOn(intel, nv.config) = MeasuredOn(intel, config)
        BY <2>1, Zenon DEF Measured
      <4>4. QED
        BY <4>1, <4>2, <4>3, SMTT(30)
    <3>2. ItemsOn(intel, nv.config) = ItemsOn(intel, config)
      BY <2>1, <3>1, SMTT(30) DEF ItemsOn, Measured
    <3>3. QED
      BY <1>2, <1>3, <3>1, <3>2, SMTT(30) DEF Bound
  <2>2. ASSUME nv.digest = get_pcr_info
        PROVE  Measured(nv.config) = Measured(config)
    <3>1. nv.config.image = config.image /\ ItemsOn(intel, nv.config) = ItemsOn(intel, config)
      BY <1>2, <1>3, <2>2 DEF Bound
    <3>2. QED
      BY <1>2, <1>3, <3>1, SMTT(30) DEF Separable, Measured, Bound
  <2>3. QED
    BY <2>1, <2>2, SMTT(30)
<1>5. QED
  BY <1>1, <1>4, SMTT(30)

\* ShownWhenRight of every execution: unseal_passphrase() shows the passphrase to the
\* configuration that it was sealed under and to no other.
THEOREM AlwaysShownWhenRight ==
  ASSUME Separable
  PROVE  Spec => ShownWhenRight
<1> DEFINE Right == IF pc = "unseal" /\ Rightful
                    THEN shown' = nv.pp \/ why' \in {"FAULT", "POWER"}
                    ELSE shown' \in {shown, None}
<1>1. Trusted /\ [Next]_vars => [Right]_vars
  <2> SUFFICES ASSUME Trusted, Next PROVE Right
    BY ZenonT(60)
  <2>1. unseal_passphrase \/ shown' \in {shown, None}
    BY ZenonT(30) DEF Next, Step, Goto, Keep, volatile, vars, Reboot, Type, VolatileReset,
       prepare_tpm, pre_launch, PlatformFails, intel_post_launch, revert_skinit, post_launch,
       tis_access, HashCmdline, HashModule, HashString, TPM_PCRRead, TPM_GetRandom, TPM_OSAP,
       TPM_OIAP, NonceOdd, get_nonce, AskConfig, AskPassphrase, AskAuthdata, get_authdata,
       seal_passphrase, write_passphrase, ConfigureDone, read_passphrase,
       AskYes, DeactivateAll, launch_kernel, start_module, TpmFault, PowerLoss, PowerOn
  <2>2. ASSUME pc = "unseal" PROVE unseal_passphrase \/ why' \in {"FAULT", "POWER"}
    BY <2>2, SMTT(30) DEF Next, Step, Reboot, get_nonce, get_authdata,
       prepare_tpm, pre_launch, PlatformFails, intel_post_launch, revert_skinit, post_launch,
       tis_access, HashCmdline, HashModule, HashString, TPM_PCRRead, TPM_GetRandom, TPM_OSAP,
       TPM_OIAP, NonceOdd, AskConfig, AskPassphrase, AskAuthdata,
       seal_passphrase, write_passphrase, ConfigureDone, read_passphrase,
       AskYes, DeactivateAll, launch_kernel, start_module, TpmFault, PowerLoss, PowerOn
  <2>3. CASE unseal_passphrase
    <3>1. pc = "unseal" /\ blob = nv
      BY <2>3, DigestTells DEF unseal_passphrase
    <3>4. (Measured(nv.config) = Measured(config)) <=> (nv.digest = get_pcr_info)
      BY <3>1, DigestTells
    <3>5. TPM_Unseal <=> typed["ppAuth"] = nv.auth /\ typed["srkAuth"] = SrkAuth
      BY <3>1, SMTT(30) DEF TPM_Unseal
    <3>6. CASE Rightful
      BY <2>3, <3>1, <3>4, <3>5, <3>6, SMTT(30) DEF unseal_passphrase, Rightful
    <3>7. CASE ~Rightful
      BY <2>3, <3>1, <3>4, <3>5, <3>7, SMTT(30) DEF unseal_passphrase, Rightful, Reboot, VolatileReset
    <3>8. QED
      BY <3>6, <3>7, SMTT(30)
  <2>4. QED
    BY <2>1, <2>2, <2>3, Zenon
<1>2. QED
  BY <1>1, AlwaysTrusted, PTL DEF Spec, ShownWhenRight

-----------------------------------------------------------------------------
\* Where TrustedBoot is.
LEMMA PhaseIs ==
  ASSUME Trusted
  PROVE  /\ pc = "off" => phase = "off"
         /\ pc = "askYes" => phase = "revealed"
         /\ pc = "kernel" => phase = IF shown # None THEN "running" ELSE "bare"
         /\ pc \notin {"off", "askYes", "kernel"} =>
              phase = IF shown # None THEN "confirmed" ELSE "up"
<1>1. Showing
  BY Zenon DEF Trusted
<1>2. QED
  BY <1>1, Zenon DEF phase, Showing, Starting

\* And where it is after a step.
LEMMA PhaseIsNext ==
  ASSUME Trusted'
  PROVE  /\ pc' = "off" => phase' = "off"
         /\ pc' = "askYes" => phase' = "revealed"
         /\ pc' = "kernel" => phase' = IF shown' # None THEN "running" ELSE "bare"
         /\ pc' \notin {"off", "askYes", "kernel"} =>
              phase' = IF shown' # None THEN "confirmed" ELSE "up"
<1>1. Showing'
  BY Zenon DEF Trusted
<1>2. QED
  BY <1>1, Zenon DEF phase, Showing, Starting

\* A reboot is a Stop of TrustedBoot.
LEMMA RebootStops ==
  ASSUME Trusted', NEW reason, Reboot(reason) PROVE TB!Next
<1>1. phase' = "off" /\ shown' = None /\ UNCHANGED <<intel, nv, config>>
  BY PhaseIsNext, SMTT(30) DEF Reboot, VolatileReset
<1>2. TB!Stop
  BY <1>1, SMTT(30) DEF TB!Stop, Measured
<1>3. QED
  BY <1>2 DEF TB!Next

\* A step that leaves the secret and the screen alone is none of TrustedBoot.
LEMMA OthersStutter ==
  ASSUME Trusted, Trusted', UNCHANGED <<intel, nv, config, shown>>,
         pc \notin {"off", "askYes", "kernel"}, pc' \notin {"off", "askYes", "kernel"}
  PROVE  UNCHANGED TB!vars
<1>1. phase' = phase
  BY PhaseIs, PhaseIsNext
<1>2. QED
  BY <1>1, Zenon DEF TB!vars, Measured

\* The step of the kernel's start, with or without a passphrase shown.
LEMMA StartRuns ==
  ASSUME Trusted, Trusted', UNCHANGED <<intel, nv, config, shown>>,
         pc \notin {"off", "askYes", "kernel"}, pc' = "kernel"
  PROVE  TB!Next
<1>1. \/ phase = "confirmed" /\ phase' = "running"
      \/ phase = "up" /\ phase' = "bare"
  BY PhaseIs, PhaseIsNext, SMTT(30)
<1>2. TB!Run
  BY <1>1, SMTT(30) DEF TB!Run, Measured
<1>3. QED
  BY <1>2 DEF TB!Next

\* Every step of Sable is one of TrustedBoot, or changes nothing that it sees.
LEMMA NextRefines ==
  ASSUME Separable, Trusted, Trusted', [Next]_vars
  PROVE  [TB!Next]_(TB!vars)
<1> USE DEF Goto, Keep
<1>1. CASE prepare_tpm \/ tis_access \/ DeactivateAll \/ TPM_PCRRead \/ TPM_GetRandom
  BY <1>1, OthersStutter, SMTT(30) DEF prepare_tpm, tis_access, DeactivateAll, TPM_PCRRead, TPM_GetRandom, volatile
<1>2. CASE pre_launch \/ intel_post_launch \/ HashString
  BY <1>2, OthersStutter, SMTT(30) DEF pre_launch, intel_post_launch, HashString, NextModule
<1>3. CASE PlatformFails \/ post_launch \/ revert_skinit
  BY <1>3, OthersStutter, RebootStops, SMTT(30) DEF PlatformFails, post_launch, revert_skinit, volatile
<1>4. CASE HashCmdline \/ HashModule
  BY <1>4, OthersStutter, RebootStops DEF HashCmdline, HashModule, NextModule
<1>5. CASE TPM_OSAP \/ TPM_OIAP \/ NonceOdd
  BY <1>5, OthersStutter, Zenon DEF TPM_OSAP, TPM_OIAP, NonceOdd, get_nonce
<1>6. CASE AskConfig \/ AskPassphrase
  BY <1>6, OthersStutter, SMTT(30) DEF AskConfig, AskPassphrase, Type
<1>7. CASE AskAuthdata
  BY <1>7, OthersStutter, SMTT(30) DEF AskAuthdata, get_authdata, Type
<1>8. CASE seal_passphrase \/ read_passphrase
  BY <1>8, OthersStutter, RebootStops, SMTT(30) DEF seal_passphrase, read_passphrase
<1>9. CASE write_passphrase
  <2>1. CASE \E reason : Reboot(reason)
    BY <2>1, RebootStops
  <2>2. CASE nv' = Stored /\ pc' \in {"deactivateOff", "off"} /\ shown' \in {shown, None} /\ UNCHANGED <<intel, config>>
    <3>1. pc = "write"
      BY <1>9, Zenon DEF write_passphrase
    <3>2. IsBlob(blob) /\ blob.config = config /\ shown = None
      BY <3>1, Zenon DEF Trusted, Flow, Sealed, Showing, Writing, Starting
    <3>3. nv' # NoBlob /\ nv'.config = config /\ nv'.pp = blob.pp
      BY <2>2, <3>2, SMTT(30) DEF Stored, IsBlob, NoBlob
    <3>4. phase = "up" /\ phase' \in {"up", "off"}
      BY <2>2, <3>1, <3>2, PhaseIs, PhaseIsNext, SMTT(30)
    <3>5. TB!Store(blob.pp)
      BY <2>2, <3>2, <3>3, <3>4, Zenon DEF TB!Store, Measured
    <3>6. QED
      BY <3>2, <3>5 DEF TB!Next, IsBlob
  <2>3. QED
    BY <1>9, <2>1, <2>2 DEF write_passphrase, TPM_NV_WriteValueAuth, VolatileReset
<1>10. CASE ConfigureDone \/ TpmFault \/ PowerLoss
  BY <1>10, RebootStops, SMTT(30) DEF ConfigureDone, TpmFault, PowerLoss
<1>11. CASE unseal_passphrase
  <2>1. CASE \E reason : Reboot(reason)
    BY <2>1, RebootStops, Zenon
  <2>2. CASE blob.digest = get_pcr_info /\ shown' = blob.pp /\ pc' = "askYes" /\ UNCHANGED <<intel, config, nv>>
    <3>1. pc = "unseal"
      BY <1>11, SMTT(30) DEF unseal_passphrase
    <3>2. nv # NoBlob /\ Measured(nv.config) = Measured(config) /\ shown' = nv.pp
      BY <2>2, <3>1, DigestTells
    <3>3. shown = None
      BY <3>1, Zenon DEF Trusted, Showing, Starting
    <3>4. phase = "up" /\ phase' = "revealed"
      BY <2>2, <3>1, <3>3, PhaseIs, PhaseIsNext, SMTT(30)
    <3>5. TB!Reveal
      BY <2>2, <3>2, <3>4, Zenon DEF TB!Reveal, Measured
    <3>6. QED
      BY <3>5 DEF TB!Next
  <2>3. QED
    BY <1>11, <2>1, <2>2, SMTT(30) DEF unseal_passphrase
<1>12. CASE AskYes
  <2>1. CASE \E reason : Reboot(reason)
    BY <2>1, RebootStops
  <2>2. CASE pc' = "deactivate" /\ UNCHANGED <<intel, config, nv, shown>>
    <3>1. pc = "askYes"
      BY <1>12, Zenon DEF AskYes
    <3>2. shown # None
      BY <3>1, Zenon DEF Trusted, Flow
    <3>3. phase = "revealed" /\ phase' = "confirmed"
      BY <2>2, <3>1, <3>2, PhaseIs, PhaseIsNext, SMTT(30)
    <3>4. TB!Confirm
      BY <2>2, <3>3, Zenon DEF TB!Confirm, Measured
    <3>5. QED
      BY <3>4, Zenon DEF TB!Next
  <2>3. QED
    BY <1>12, <2>1, <2>2 DEF AskYes, Type
<1>13. CASE launch_kernel
  BY <1>13, OthersStutter, StartRuns, SMTT(30) DEF launch_kernel
<1>14. CASE start_module
  BY <1>14, StartRuns, RebootStops DEF start_module
<1>15. CASE \E c \in Configs : PowerOn(c)
  <2>1. PICK c \in Configs : PowerOn(c)
    BY <1>15, Zenon
  <2>2. pc = "off" /\ pc' = "prepare" /\ config' = c /\ UNCHANGED <<intel, nv, shown>>
    BY <2>1, Zenon DEF PowerOn
  <2>3. shown = None
    BY <2>2, Zenon DEF Trusted, Showing, Starting
  <2>4. phase = "off" /\ phase' = "up"
    BY <2>2, <2>3, PhaseIs, PhaseIsNext, SMTT(30)
  <2>5. TB!Start(Measured(c))
    BY <2>2, <2>4 DEF TB!Start, Measured
  <2>6. Measured(c) \in Configs \cup {[d EXCEPT !.mods = NotFirstSinit(@)] : d \in Configs}
    BY Zenon DEF Measured, MeasuredOn
  <2>7. QED
    BY <2>5, <2>6 DEF TB!Next
<1>16. CASE UNCHANGED vars
  BY <1>16 DEF vars, TB!vars, Measured, phase
<1>17. QED
  BY <1>1, <1>2, <1>3, <1>4, <1>5, <1>6, <1>7, <1>8, <1>9, <1>10, <1>11, <1>12, <1>13, <1>14, <1>15, <1>16, SMTT(30) DEF Next, Step

\* TrustedBootSpec of every execution: what post_launch(), configure() and
\* trusted_boot() do is, step by step, what TrustedBoot allows.
THEOREM SableRefinesTrustedBoot ==
  ASSUME Separable
  PROVE  Spec => TrustedBootSpec
<1>1. Init => TB!Init
  <2> SUFFICES ASSUME Init PROVE TB!Init
    BY Zenon
  <2>1. nv = NoBlob /\ pc = "off" /\ shown = None /\ config \in Configs
    BY Zenon DEF Init
  <2>2. Measured(config) \in Configs \cup {[d EXCEPT !.mods = NotFirstSinit(@)] : d \in Configs}
    BY <2>1, Zenon DEF Measured, MeasuredOn
  <2>3. phase = "off"
    BY <2>1, PhaseIs, InitFlow, InitListed, InitSealed, InitShowing, SMTT(30) DEF Trusted
  <2>4. QED
    BY <2>1, <2>2, <2>3 DEF TB!Init
<1>2. Trusted /\ Trusted' /\ [Next]_vars => [TB!Next]_(TB!vars)
  BY NextRefines, Zenon
<1>3. QED
  BY <1>1, <1>2, AlwaysTrusted, PTL DEF Spec, TrustedBootSpec, TB!Spec
=============================================================================
