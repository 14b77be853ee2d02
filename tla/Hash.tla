-------------------------------- MODULE Hash --------------------------------
(***************************************************************************)
(* SHA-1 as a stream (src/sha.c), and HMAC and MGF1 on top of it           *)
(* (src/hmac.c, src/mgf1.c).  The compression function is abstract: the    *)
(* hash is the sequence of blocks that process_block() was given.  A byte  *)
(* is a pair that says where it comes from, so that a byte lost, repeated  *)
(* or taken from an old buffer shows in the hash.                          *)
(*                                                                         *)
(* A job is a caller: its plan is the sequence of calls it still makes.    *)
(***************************************************************************)
EXTENDS Integers, Sequences

CONSTANTS
  Block,       \* 64, the bytes of a block and HMAC_BLOCK_SIZE
  MinPad,      \* 9, the least padding: 0x80 and a length of eight bytes
  DigestSize,  \* 20
  MaxBlocks,   \* 1 << 23
  U32Size,     \* 2^32
  Jobs         \* [fn |-> "measure", "hmac" or "mgf1", key, parts, out]

ASSUME HashAssumption ==
  /\ Block \in Nat /\ MinPad \in 2 .. Block /\ DigestSize \in 1 .. Block
  /\ MaxBlocks \in Nat \ {0} /\ U32Size \in Nat /\ 8 * Block * (MaxBlocks + 1) <= U32Size
  /\ \A j \in Jobs :
       /\ j.fn \in {"measure", "hmac", "mgf1"} /\ j.key \in Nat /\ j.out \in Nat
       /\ j.parts \in Seq(Nat)
       /\ \A p \in DOMAIN j.parts : j.parts[p] + Block < U32Size
       /\ j.key + Block < U32Size /\ j.out + DigestSize < U32Size

VARIABLES
  job,     \* the caller
  plan,    \* the calls it still makes: [do, what]
  sctx,    \* SHA1_Context: index, blocks, buffer, and the blocks processed
  value,   \* what the running sha1() has not yet taken
  running, \* is sha1() running?
  key,     \* HMAC_Context.key
  kept,    \* hash of hmac_finish()
  output,  \* output of mgf1()
  said     \* history: the bytes given to sha1() since sha1_init()

hashVars == <<job, plan, sctx, value, running, key, kept, output, said>>

Zero == <<"zero", 0>>
Part(p, n) == [i \in 1 .. n |-> <<"part", <<p, i>>>>]
Pad(k) == [i \in 1 .. Block |-> IF i <= Len(k) THEN k[i] ELSE Zero]
Xor(c, k) == [i \in DOMAIN k |-> <<c, k[i]>>]
DigestOf(blocks) == [i \in 1 .. DigestSize |-> <<"digest", <<blocks, i>>>>]

-----------------------------------------------------------------------------
(* The callers.                                                              *)

Call(do, what) == [do |-> do, what |-> what]
Feed(what) == Call("sha1", what)
InitCall == Call("sha1_init", <<"none", 0>>)
FinishCall == Call("sha1_finish", <<"none", 0>>)
Parts(j) == [p \in DOMAIN j.parts |-> Feed(<<"part", p>>)]

KeyFits(j) == j.key <= Block

hmac_init(j) ==
  (IF KeyFits(j) THEN <<Call("copy_key", <<"none", 0>>)>>
   ELSE <<InitCall, Feed(<<"key", 0>>), FinishCall, Call("digest_key", <<"none", 0>>)>>)
  \o <<InitCall, Feed(<<"ipad", 0>>)>>

hmac_finish ==
  <<FinishCall, Call("keep", <<"none", 0>>), InitCall, Feed(<<"opad", 0>>),
    Feed(<<"kept", 0>>), FinishCall>>

\* The counters for which the loop of mgf1() runs; counter * 20 does not overflow.
Counters(j) == {c \in 0 .. j.out : c * DigestSize < j.out}

mgf1(j) ==
  LET turn(c) == <<InitCall>> \o Parts(j)
                 \o <<Feed(<<"counter", c>>), FinishCall, Call("store", <<"none", 0>>)>>
      f[c \in 0 .. j.out] == IF c \notin Counters(j) THEN <<>> ELSE turn(c) \o f[c + 1]
  IN  f[0]

\* alloc(heap, outputLenRoundedUp)
outputLenRoundedUp(j) ==
  IF j.out % DigestSize # 0 THEN j.out + (DigestSize - (j.out % DigestSize)) ELSE j.out

PlanOf(j) ==
  CASE j.fn = "measure" -> <<InitCall>> \o Parts(j) \o <<FinishCall>>
    [] j.fn = "hmac" -> hmac_init(j) \o Parts(j) \o hmac_finish
    [] j.fn = "mgf1" -> mgf1(j)

\* The bytes that a call of sha1() is given.
Given(what) ==
  CASE what[1] = "part" -> Part(what[2], job.parts[what[2]])
    [] what[1] = "key" -> Part("key", job.key)
    [] what[1] = "ipad" -> Xor("ipad", key)
    [] what[1] = "opad" -> Xor("opad", key)
    [] what[1] = "kept" -> kept
    [] what[1] = "counter" -> <<<<"counter", what[2]>>>>

-----------------------------------------------------------------------------
(* sha.c.                                                                    *)

\* The buffer is not cleared: it holds what the last use has left there.
Fresh(c) == [c EXCEPT !.index = 0, !.blocks = 0, !.fed = <<>>]

Stored(c, bytes, n) ==
  [c EXCEPT !.buffer = [i \in 0 .. Block - 1 |->
     IF i \in c.index .. c.index + n - 1 THEN bytes[i - c.index + 1] ELSE c.buffer[i]]]

\* process_block() works on the buffer and leaves it in disorder.
process_block(c) ==
  [c EXCEPT !.fed = Append(c.fed, c.buffer),
            !.buffer = [i \in 0 .. Block - 1 |-> <<"scratch", i>>]]

Padded(c) ==
  [c EXCEPT !.buffer = [i \in 0 .. Block - 1 |->
     IF i < c.index THEN c.buffer[i] ELSE IF i = c.index THEN <<"0x80", 0>> ELSE Zero]]
Cleared(c) == [c EXCEPT !.buffer = [i \in 0 .. Block - 1 |-> Zero]]
WithLength(c) ==
  [c EXCEPT !.buffer[Block - 1] = <<"length", (8 * (c.blocks * Block + c.index)) % U32Size>>]

TightFinish(c) ==
  LET p == Padded(c)
  IN  process_block(WithLength(IF c.index > Block - MinPad + 1 THEN Cleared(process_block(p)) ELSE p))

sha1_finish(c) ==
  LET p == Padded(c)
  IN  process_block(WithLength(IF c.index > Block - MinPad THEN Cleared(process_block(p)) ELSE p))

NoJob == [fn |-> "none", key |-> 0, parts |-> <<>>, out |-> 0]
HashInit ==
  /\ job = NoJob /\ plan = <<>>
  /\ sctx = [index |-> 0, blocks |-> 0, fed |-> <<>>,
             buffer |-> [i \in 0 .. Block - 1 |-> <<"stack", i>>]]
  /\ value = <<>> /\ running = FALSE /\ said = <<>>
  /\ key = Pad(<<>>) /\ kept = <<>> /\ output = <<>>

\* A caller comes; its SHA1_Context is the one on the stack.
Begin(j) ==
  /\ job' = j /\ plan' = PlanOf(j)
  /\ UNCHANGED <<sctx, value, running, key, kept, output, said>>

\* The next call of the caller; sha1() then runs in steps of its own.
NextCall ==
  /\ ~running /\ plan # <<>> /\ plan' = Tail(plan)
  /\ LET c == Head(plan)
     IN  /\ sctx' = CASE c.do = "sha1_init" -> Fresh(sctx)
                      [] c.do = "sha1_finish" -> sha1_finish(sctx)
                      [] OTHER -> sctx
         /\ running' = (c.do = "sha1")
         /\ value' = IF c.do = "sha1" THEN Given(c.what) ELSE <<>>
         /\ said' = CASE c.do = "sha1_init" -> <<>>
                      [] c.do = "sha1" -> said \o Given(c.what)
                      [] OTHER -> said
         /\ key' = CASE c.do = "copy_key" -> Pad(Part("key", job.key))
                     [] c.do = "digest_key" -> Pad(DigestOf(sctx.fed))
                     [] OTHER -> key
         /\ kept' = IF c.do = "keep" THEN DigestOf(sctx.fed) ELSE kept
         /\ output' = IF c.do = "store" THEN output \o DigestOf(sctx.fed) ELSE output
  /\ UNCHANGED job

\* One turn of the loop of sha1().  ERROR leaves index and count as they are, and
\* the callers that hash as much throw the exception on.
Sha1Block ==
  /\ running /\ (Len(value) + sctx.index) % U32Size >= Block
  /\ LET n == Block - sctx.index
         c == process_block(Stored(sctx, value, n))
         over == sctx.blocks + 1 >= MaxBlocks
     IN  /\ sctx' = [c EXCEPT !.blocks = sctx.blocks + 1, !.index = IF over THEN sctx.index ELSE 0]
         /\ value' = IF over THEN value ELSE SubSeq(value, n + 1, Len(value))
         /\ running' = ~over
         /\ plan' = IF over THEN <<>> ELSE plan
  /\ UNCHANGED <<job, key, kept, output, said>>

\* What does not fill a block waits in the buffer.
Sha1Rest ==
  /\ running /\ (Len(value) + sctx.index) % U32Size < Block
  /\ sctx' = [Stored(sctx, value, Len(value)) EXCEPT !.index = sctx.index + Len(value)]
  /\ running' = FALSE /\ value' = <<>>
  /\ UNCHANGED <<job, plan, key, kept, output, said>>

HashNext == (job = NoJob /\ \E j \in Jobs : Begin(j)) \/ NextCall \/ Sha1Block \/ Sha1Rest

HashSpec == HashInit /\ [][HashNext]_hashVars

-----------------------------------------------------------------------------
(* Properties.                                                               *)

BytesOf(blocks) ==
  [i \in 1 .. Len(blocks) * Block |-> blocks[((i - 1) \div Block) + 1][(i - 1) % Block]]

\* The padding of FIPS 180: 0x80, as few zeros as fill a block, and the length in bits.
PaddedMessage(m) ==
  LET size == ((Len(m) + MinPad + Block - 1) \div Block) * Block
  IN  [i \in 1 .. size |->
         CASE i <= Len(m) -> m[i]
           [] i = Len(m) + 1 -> <<"0x80", 0>>
           [] i = size -> <<"length", 8 * Len(m)>>
           [] OTHER -> Zero]

\* However a message is split over calls of sha1(), the blocks processed and the
\* buffer hold it in order, byte for byte; sha1_finish() completes it to the padded
\* message, with one block more when 0x80 and the length do not fit into the last.
HashWhole ==
  ~running /\ sctx.blocks < MaxBlocks =>
    IF Len(sctx.fed) = sctx.blocks
    THEN BytesOf(sctx.fed) \o [i \in 1 .. sctx.index |-> sctx.buffer[i - 1]] = said
    ELSE BytesOf(sctx.fed) = PaddedMessage(said)

H(m) ==
  LET p == PaddedMessage(m)
  IN  DigestOf([b \in 1 .. Len(p) \div Block |-> [i \in 0 .. Block - 1 |-> p[(b - 1) * Block + i + 1]]])

Flat(s) ==
  LET f[i \in 0 .. Len(s)] == IF i = 0 THEN <<>> ELSE f[i - 1] \o s[i]
  IN  f[Len(s)]

PartsSaid == Flat([p \in DOMAIN job.parts |-> Part(p, job.parts[p])])

\* hmac_finish() leaves the MAC of RFC 2104 of the parts, for keys shorter than, as
\* long as and longer than a block, although one SHA1_Context serves for the key, the
\* inner and the outer hash; and mgf1() leaves the mask of PKCS #1, which fills what
\* it has allocated and covers what was asked for.
MacRight ==
  plan = <<>> /\ ~running /\ sctx.blocks < MaxBlocks =>
    /\ job.fn = "hmac" =>
         LET raw == Part("key", job.key)
             k == Pad(IF job.key <= Block THEN raw ELSE H(raw))
         IN  DigestOf(sctx.fed) = H(Xor("opad", k) \o H(Xor("ipad", k) \o PartsSaid))
    /\ job.fn = "mgf1" =>
         /\ output = Flat([c \in 1 .. (job.out + DigestSize - 1) \div DigestSize |->
                             H(PartsSaid \o <<<<"counter", c - 1>>>>)])
         /\ Len(output) = outputLenRoundedUp(job) /\ job.out <= Len(output)

\* Hashes, MACs and masks are those of the standards for every split and length.
HashRight == HashWhole /\ MacRight
=============================================================================
