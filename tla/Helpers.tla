------------------------------ MODULE Helpers ------------------------------
(***************************************************************************)
(* The library below SABLE's boot: the heap (Alloc), SHA-1, HMAC and MGF1  *)
(* (Hash), the TPM's requests and responses (TpmCommand) and the helpers   *)
(* of Util, each of which is a single call here.  They share no state but  *)
(* the heap, of which TpmCommand sees only how much of it is left, so that *)
(* each behaviour is about one of the four.                                *)
(***************************************************************************)
EXTENDS Alloc, Hash, TpmCommand, Util

CONSTANTS
  MemorySize,  \* bytes of the memory that memcpy() works on
  Lines,       \* command lines of SABLE
  Arguments,   \* and the names of the arguments that post_launch() looks for
  Numbers      \* texts that strtoul() is given

VARIABLE call  \* the call of a helper of Util: [fn, args, result]

NoCall == [fn |-> "none"]

CallMemcpy(d, s, len) ==
  LET m == [a \in 0 .. MemorySize - 1 |-> a]
  IN  call' = [fn |-> "memcpy", d |-> d, s |-> s, n |-> len, result |-> memcpy(m, d, s, len)]

CallArgument(line, arg) ==
  call' = [fn |-> "argument", line |-> line, arg |-> arg, index |-> indexOf(arg, line),
           result |-> cmdlineArgVal(line, arg)]

CallStrtoul(text, base) ==
  call' = [fn |-> "strtoul", text |-> text, base |-> base, result |-> strtoul(text, base)]

UtilNext ==
  /\ call = NoCall
  /\ \/ \E d, s, len \in 0 .. MemorySize :
          d + len <= MemorySize /\ s + len <= MemorySize /\ CallMemcpy(d, s, len)
     \/ \E line \in Lines, arg \in Arguments : CallArgument(line, arg)
     \/ \E text \in Numbers, base \in {0, 10, 16} : CallStrtoul(text, base)

HelpersInit == Init /\ HashInit /\ CmdInit /\ call = NoCall

HeapUnused == ~ready /\ pc = "idle"

HelpersNext ==
  \/ job = NoJob /\ cmd = NoCommand /\ call = NoCall /\ Next /\ UNCHANGED <<hashVars, cmdVars, call>>
  \/ HeapUnused /\ cmd = NoCommand /\ call = NoCall /\ HashNext /\ UNCHANGED <<vars, cmdVars, call>>
  \/ HeapUnused /\ job = NoJob /\ call = NoCall /\ CmdNext /\ UNCHANGED <<vars, hashVars, call>>
  \/ HeapUnused /\ job = NoJob /\ cmd = NoCommand /\ UtilNext /\ UNCHANGED <<vars, hashVars, cmdVars>>

HelpersSpec == HelpersInit /\ [][HelpersNext]_<<vars, hashVars, cmdVars, call>>

-----------------------------------------------------------------------------
(* Properties of the helpers.                                                *)

\* memcpy() of the Intel build, which copies words where it can and upwards or
\* downwards, stores exactly the bytes of the source, for all alignments and also when
\* the areas overlap (as the kernel's and its target may), and stores nothing else.
CopyExact ==
  call.fn = "memcpy" =>
    \A a \in 0 .. MemorySize - 1 :
      call.result[a] = IF a \in call.d .. call.d + call.n - 1 THEN call.s + (a - call.d) ELSE a

Power(b, k) == b^k
Place(s, k, base) == DigitOf(s[k]) * Power(base, Len(s) - k)
Positional(s, base) ==
  LET f[k \in 0 .. Len(s)] == IF k = 0 THEN 0 ELSE f[k - 1] + Place(s, k, base)
  IN  f[Len(s)]
Digits(s, base) == \A k \in DOMAIN s : DigitOf(s[k]) < base
Occurs(arg, line, i) == i + Len(arg) <= Len(line) /\ SubSeq(line, i + 1, i + Len(arg)) = arg
BeginsWord(line, i) == i = 0 \/ line[i] = " "

\* An argument that is a word of the command line is found, there or at an earlier
\* occurrence, although indexOf() goes on behind a partial match and not in it, and
\* its value is the number written there; strtoul() returns the number written,
\* negated modulo 2^32 behind a minus, or ULONG_MAX when it is larger, up to the last
\* digit that fits.
TextRead ==
  /\ call.fn = "argument" =>
       /\ \A i \in 0 .. Len(call.line) - 1 :
            Occurs(call.arg, call.line, i) /\ BeginsWord(call.line, i) => call.index \in 0 .. i
       /\ call.index >= 0 =>
            LET number == Word(call.line, call.index + Len(call.arg))
            IN  /\ Occurs(call.arg, call.line, call.index)
                /\ Digits(number, 10) /\ Positional(number, 10) < IntSize \div 2 =>
                     call.result.value = Positional(number, 10)
  /\ call.fn = "strtoul" =>
       LET signed == Len(call.text) > 0 /\ call.text[1] \in {"+", "-"}
           text == IF signed THEN Tail(call.text) ELSE call.text
           hex == /\ Len(text) >= 2 /\ call.base # 10
                  /\ SubSeq(text, 1, 2) \in {<<"0", "x">>, <<"0", "X">>}
           number == IF hex THEN SubSeq(text, 3, Len(text)) ELSE text
           base == CASE hex -> 16
                     [] call.base # 0 -> call.base
                     [] number # <<>> /\ number[1] = "0" -> 8
                     [] OTHER -> 10
           written == Positional(number, base)
       IN  number # <<>> /\ Digits(number, base) =>
             /\ call.result.acc = CASE written > ULONG_MAX -> ULONG_MAX
                                    [] signed /\ call.text[1] = "-" /\ written # 0 -> ULONG_MAX + 1 - written
                                    [] OTHER -> written
             /\ call.result.end = Len(call.text)
=============================================================================
