----------------------------- MODULE TpmCommand -----------------------------
(***************************************************************************)
(* How src/tpm.c and src/tpm_struct.c put a command into tis_buffers.in    *)
(* and take the response out of tis_buffers.out, one marshal_*() or        *)
(* unmarshal_*() call per step, with the digests that authorise them; and  *)
(* how a stored blob is unpacked.  Values are abstract, sizes are true.    *)
(*                                                                         *)
(* What the TPM answers is free: result code, sizes and paramSize.  The    *)
(* heap is what Alloc implements: blocks that are taken and not returned.  *)
(***************************************************************************)
EXTENDS Integers, Sequences

CONSTANTS
  U32,          \* 2^32
  BufferSize,   \* TIS_BUFFER_SIZE
  HeapBlocks,   \* the largest allocation that the heap can serve, in blocks
  Commands,     \* [fn, n, seal, enc]: the command and the sizes of its data
  Lengths       \* sizes that the TPM or a stored blob may name

ASSUME TpmCommandAssumption ==
  /\ {U32, BufferSize, HeapBlocks} \subseteq Nat /\ HeapBlocks >= 2
  /\ BufferSize + 8 * (HeapBlocks + 1) < U32
  /\ Lengths \subseteq 0 .. U32 - 1
  /\ \A c \in Commands :
       /\ c.fn \in {"TPM_Startup", "TPM_GetRandom", "TPM_PCRRead", "TPM_Extend", "TPM_OIAP", "TPM_OSAP",
                    "TPM_NV_WriteValueAuth", "TPM_NV_ReadValue", "TPM_Unseal", "TPM_Seal", "unpack"}
       /\ c.n \in Nat /\ c.n + BufferSize + 8 * (HeapBlocks + 1) < U32

VARIABLES
  cmd,      \* the command
  calls,    \* the calls of marshal_*() or unmarshal_*() still to be made
  phase,    \* "request", "response", or how it ended
  bytes,    \* bytes_packed or bytes_unpacked
  size,     \* size of the context
  packed,   \* the names of the fields packed or unpacked
  digests,  \* the names of the fields hashed: into the parameter digest S, the MACs
  named,    \* the size that the response or blob has named last
  reply,    \* [paramSize, tag, code] of the response
  taken,    \* blocks of the heap that are taken
  read      \* the bytes of the buffer that the last call has read

cmdVars == <<cmd, calls, phase, bytes, size, packed, digests, named, reply, taken, read>>

-----------------------------------------------------------------------------
(* The calls.                                                                *)

\* op is "fixed", "length" (a UINT32 that is a size), "array", "ptr" "code" or "check" (of a MAC).
Item(op, name, n, inBuffer, digest) ==
  [op |-> op, name |-> name, n |-> n, inBuffer |-> inBuffer, digest |-> digest]
Put(name, n) == Item("fixed", name, n, TRUE, "none")
PutS(name, n) == Item("fixed", name, n, TRUE, "S")
PutMac(name, n, mac) == Item("fixed", name, n, TRUE, mac)
Mac(name, n, mac) == Item("fixed", name, n, FALSE, mac)

Head3(ordinal) == <<Put("tag", 2), Put("paramSize", 4), ordinal>>
\* 1H, 2H, 3H and 4H of a session, and its place in the request.
Authorised(mac, handle, auth) ==
  <<Mac("S", 20, mac), Put(handle, 4), Mac("nonceEven", 20, mac), PutMac("nonceOdd", 20, mac),
    PutMac("continueAuthSession", 1, mac), Put(auth, 20)>>

marshal_TPM_STORED_DATA12(c) ==
  <<PutS("blob.tag", 2), PutS("et", 2), PutS("sealInfoSize", 4), PutS("sealInfo", c.seal),
    PutS("encDataSize", 4), PutS("encData", c.enc)>>

PCR_SELECT == 3
marshal_TPM_PCR_INFO_LONG ==
  <<PutS("info.tag", 2), PutS("atCreation", 1), PutS("atRelease", 1),
    PutS("creation.size", 2), PutS("creation", PCR_SELECT),
    PutS("release.size", 2), PutS("release", PCR_SELECT),
    PutS("digestAtCreation", 20), PutS("digestAtRelease", 20)>>

sizeof_TPM_STORED_DATA12(c) == 2 + 2 + 4 + c.seal + 4 + c.enc
OneSelection == 2 + 2 * 1 + (2 + PCR_SELECT) + 2 * 20
sizeof_TPM_PCR_INFO_LONG == 2 + 2 * 1 + (2 + PCR_SELECT) + (2 + PCR_SELECT) + 2 * 20

Request(c) ==
  LET plain == Head3(Put("ordinal", 4))
      auth == Head3(PutS("ordinal", 4))
  IN  CASE c.fn = "TPM_Startup" -> plain \o <<Put("startupType", 2)>>
        [] c.fn = "TPM_GetRandom" -> plain \o <<Put("bytesRequested", 4)>>
        [] c.fn = "TPM_PCRRead" -> plain \o <<Put("pcrIndex", 4)>>
        [] c.fn = "TPM_Extend" -> plain \o <<Put("pcrNum", 4), Put("inDigest", 20)>>
        [] c.fn = "TPM_OIAP" -> plain
        [] c.fn = "TPM_OSAP" -> plain \o <<Put("entityType", 2), Put("entityValue", 4),
                                           Put("nonceOddOSAP", 20)>>
        [] c.fn = "TPM_NV_WriteValueAuth" ->
             auth \o <<PutS("nvIndex", 4), PutS("offset", 4), PutS("dataSize", 4),
                       PutS("data", c.n)>> \o Authorised("H1", "authHandle", "auth")
        [] c.fn = "TPM_NV_ReadValue" ->
             auth \o <<PutS("nvIndex", 4), PutS("offset", 4), PutS("dataSize", 4)>>
        [] c.fn = "TPM_Unseal" ->
             auth \o <<Put("parentHandle", 4)>> \o marshal_TPM_STORED_DATA12(c)
                  \o Authorised("H1", "authHandle", "auth")
                  \o Authorised("H2", "dataAuthHandle", "dataAuth")
        [] c.fn = "TPM_Seal" ->
             auth \o <<Put("keyHandle", 4), PutS("encAuth", 20), PutS("pcrInfoSize", 4)>>
                  \o marshal_TPM_PCR_INFO_LONG
                  \o <<PutS("inDataSize", 4), PutS("inData", c.n)>>
                  \o Authorised("H1", "authHandle", "auth")

\* The sums in front of the calls, of 32 bits.
paramSize_in(c) ==
  (CASE c.fn = "TPM_Startup" -> 2 + 4 + 4 + 2
     [] c.fn \in {"TPM_GetRandom", "TPM_PCRRead"} -> 2 + 4 + 4 + 4
     [] c.fn = "TPM_Extend" -> 2 + 4 + 4 + 4 + 20
     [] c.fn = "TPM_OIAP" -> 2 + 4 + 4
     [] c.fn = "TPM_OSAP" -> 2 + 4 + 4 + 2 + 4 + 20
     [] c.fn = "TPM_NV_WriteValueAuth" -> 2 + 4 + 4 + 4 + 4 + 4 + c.n + 4 + 20 + 1 + 20
     [] c.fn = "TPM_NV_ReadValue" -> 2 + 4 + 4 + 4 + 4 + 4
     [] c.fn = "TPM_Unseal" -> 2 + 4 + 4 + 4 + sizeof_TPM_STORED_DATA12(c)
                               + 4 + 20 + 1 + 20 + 4 + 20 + 1 + 20
     [] c.fn = "TPM_Seal" -> 2 + 4 + 4 + 4 + 20 + 4 + sizeof_TPM_PCR_INFO_LONG + 4 + c.n
                             + 4 + 20 + 1 + 20
     [] OTHER -> 0) % U32

Sized(name, digest) == Item("length", name, 4, TRUE, digest)
Ptr(name, digest) == Item("ptr", name, 0, TRUE, digest)

unmarshal_TPM_STORED_DATA12(digest) ==
  <<PutMac("blob.tag", 2, digest), PutMac("et", 2, digest), Sized("sealInfoSize", digest),
    Ptr("sealInfo", digest), Sized("encDataSize", digest), Ptr("encData", digest)>>

\* The session's part of a response.
Confirmed(mac, auth) ==
  <<Mac("S", 20, mac), PutMac("nonceEven", 20, mac), Mac("nonceOdd", 20, mac),
    PutMac("continueAuthSession", 1, mac), Put(auth, 20)>>

Response(c) ==
  LET plain == <<Put("tag", 2), Put("paramSize", 4), Item("code", "res", 4, TRUE, "none")>>
      auth == <<Put("tag", 2), Put("paramSize", 4), Item("code", "res", 4, TRUE, "S"),
                Mac("ordinal", 4, "S")>>
  IN  CASE c.fn = "TPM_Startup" -> plain
        [] c.fn = "TPM_GetRandom" -> plain \o <<Sized("randomBytesSize", "none"),
                                                Item("array", "randomBytes", 0, TRUE, "none")>>
        [] c.fn \in {"TPM_PCRRead", "TPM_Extend"} -> plain \o <<Put("value", 20)>>
        [] c.fn = "TPM_OIAP" -> plain \o <<Put("authHandle", 4), Put("nonceEven", 20)>>
        [] c.fn = "TPM_OSAP" -> plain \o <<Put("authHandle", 4), Put("nonceEven", 20),
                                           Put("nonceEvenOSAP", 20)>>
        [] c.fn = "TPM_NV_WriteValueAuth" -> auth \o Confirmed("H1", "auth")
        [] c.fn = "TPM_NV_ReadValue" -> auth \o <<Sized("dataSize", "S"), Ptr("data", "S")>>
        [] c.fn = "TPM_Unseal" -> auth \o <<Sized("dataSize", "S"), Ptr("data", "S")>>
                                       \o Confirmed("H1", "auth")
                                       \o <<Item("check", "none", 0, FALSE, "none")>>
                                       \o Confirmed("H2", "dataAuth")
        [] c.fn = "TPM_Seal" -> auth \o unmarshal_TPM_STORED_DATA12("S") \o Confirmed("H1", "auth")

-----------------------------------------------------------------------------
(* The steps.                                                                *)

NoDigests == [d \in {"S", "H1", "H2"} |-> <<>>]
Hashed(d, i) == IF i.digest = "none" THEN d ELSE [d EXCEPT ![i.digest] = Append(@, i.name)]
Nothing == [from |-> 0, to |-> 0]

NoCommand == [fn |-> "none", n |-> 0, seal |-> 0, enc |-> 0]
CmdInit ==
  /\ cmd = NoCommand /\ phase = "idle" /\ calls = <<>> /\ size = BufferSize
  /\ bytes = 0 /\ packed = <<>> /\ digests = NoDigests /\ named = 0 /\ read = Nothing
  /\ taken = 0 /\ reply = [paramSize |-> "right", good |-> TRUE, code |-> 0]

\* Either a command, with an empty or a full heap, or unpack_TPM_STORED_DATA12() of a blob of n bytes.
Start(c) ==
  /\ cmd' = c
  /\ LET blob == c.fn = "unpack"
     IN  /\ phase' = IF blob THEN "response" ELSE "request"
         /\ calls' = IF blob THEN unmarshal_TPM_STORED_DATA12("none") ELSE Request(c)
         /\ size' = IF blob THEN c.n ELSE BufferSize
  /\ taken' \in {0, HeapBlocks}
  /\ UNCHANGED <<bytes, packed, digests, named, reply, read>>

\* check_pack_overflow() and check_unpack_overflow()
Overflow(k) == (bytes + k) % U32 > size

Marshal ==
  /\ phase = "request" /\ calls # <<>>
  /\ LET i == Head(calls)
     IN  /\ digests' = Hashed(digests, i)
         /\ IF i.inBuffer /\ Overflow(i.n)
            THEN phase' = "exit" /\ UNCHANGED <<calls, bytes, packed>>
            ELSE /\ calls' = Tail(calls) /\ phase' = phase
                 /\ bytes' = IF i.inBuffer THEN (bytes + i.n) % U32 ELSE bytes
                 /\ packed' = IF i.inBuffer THEN Append(packed, i.name) ELSE packed
  /\ UNCHANGED <<cmd, size, named, reply, taken, read>>

\* ASSERT(bytes_packed == paramSize_in), tis_transmit() and what the TPM answers.
Transmit ==
  /\ phase = "request" /\ calls = <<>>
  /\ IF bytes # paramSize_in(cmd)
     THEN phase' = "assert" /\ UNCHANGED <<calls, bytes, packed, digests, reply>>
     ELSE \/ phase' = "error" /\ UNCHANGED <<calls, bytes, packed, digests, reply>>
          \/ /\ phase' = "response" /\ calls' = Response(cmd)
             /\ bytes' = 0 /\ packed' = <<>> /\ digests' = NoDigests
             /\ \E p \in {"right", "wrong"}, good \in BOOLEAN, code \in {0, 1} :
                  reply' = [paramSize |-> p, good |-> good, code |-> code]
  /\ UNCHANGED <<cmd, size, named, taken, read>>

Blocks8(k) == (k \div 8) + 1
Need(i) == IF i.op \in {"array", "ptr"} THEN named ELSE i.n

TrustAlloc(i) == i.op = "ptr" => Need(i) > 0
\* alloc() asserts a size, and unmarshal_ptr() that it got memory.
Allocated(i) == i.op = "ptr" => Need(i) > 0 /\ Blocks8(Need(i)) <= HeapBlocks - taken

Unmarshal ==
  /\ phase = "response" /\ calls # <<>>
  /\ LET i == Head(calls)
     IN  IF i.inBuffer /\ (Overflow(Need(i)) \/ ~Allocated(i))
         THEN phase' = "exit" /\ UNCHANGED <<calls, bytes, packed, digests, named, taken, read>>
         ELSE /\ calls' = Tail(calls)
              /\ digests' = Hashed(digests, i)
              /\ read' = IF i.inBuffer THEN [from |-> bytes, to |-> bytes + Need(i)] ELSE Nothing
              /\ bytes' = IF i.inBuffer THEN (bytes + Need(i)) % U32 ELSE bytes
              /\ packed' = IF i.inBuffer THEN Append(packed, i.name) ELSE packed
              /\ taken' = IF i.op = "ptr" THEN taken + Blocks8(Need(i)) + 1 ELSE taken
              /\ IF i.op = "length" THEN named' \in Lengths ELSE named' = named
              /\ phase' = IF \/ i.op = "code" /\ reply.code # 0
                             \/ i.op = "check" /\ ~reply.good
                             \/ i.name = "randomBytesSize" /\ named' # cmd.n
                          THEN "error" ELSE phase
  /\ UNCHANGED <<cmd, size, reply>>

\* The checks of paramSize, the tag and the MACs.
Finish ==
  /\ phase = "response" /\ calls = <<>>
  /\ phase' = IF cmd.fn = "unpack" \/ (reply.paramSize = "right" /\ reply.good) THEN "ok" ELSE "error"
  /\ UNCHANGED <<cmd, calls, bytes, size, packed, digests, named, reply, taken, read>>

CmdNext == (phase = "idle" /\ \E c \in Commands : Start(c)) \/ Marshal \/ Transmit \/ Unmarshal \/ Finish

CmdSpec == CmdInit /\ [][CmdNext]_cmdVars

-----------------------------------------------------------------------------
(* Properties.                                                               *)

\* No call reads behind the end of the buffer, whatever sizes the response or the
\* stored blob names: the check is a 32-bit sum that a size near 2^32 passes, and
\* it is the heap that then stops unmarshal_ptr().
UnpackInside == read.to <= size

SessionFields == {"authHandle", "dataAuthHandle", "nonceOdd", "nonceEven",
                  "continueAuthSession", "auth", "dataAuth"}
NotInDigest == {"tag", "paramSize", "parentHandle", "keyHandle"} \cup SessionFields
Sessions(c) ==
  CASE c.fn = "TPM_Unseal" -> {"H1", "H2"}
    [] c.fn \in {"TPM_Seal", "TPM_NV_WriteValueAuth"} -> {"H1"}
    [] OTHER -> {}

\* The size in the header of a request is its size, or the buffer was too small for
\* it, and no command stops at the assertion; the digest of an authorised request or
\* response covers every parameter in it but the handles, once and in their order,
\* and each session's MAC that digest, both nonces and the continue flag.
RequestSound ==
  /\ phase # "assert"
  /\ calls = <<>> /\ phase \in {"request", "response"} /\ Sessions(cmd) # {} =>
       /\ LET sent == SelectSeq(packed, LAMBDA f : f \notin NotInDigest)
          IN  digests["S"] = IF phase = "request" THEN sent
                             ELSE <<"res", "ordinal">> \o SelectSeq(sent, LAMBDA f : f # "res")
       /\ \A h \in Sessions(cmd) :
            digests[h] = <<"S", "nonceEven", "nonceOdd", "continueAuthSession">>

=============================================================================
