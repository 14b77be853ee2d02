-------------------------------- MODULE Util --------------------------------
(***************************************************************************)
(* The helpers of src/util.c and src/arch-intel/cmdline.c on memory and    *)
(* text, as functions of their arguments: the memcpy() of the Intel build, *)
(* the search for an argument on SABLE's command line, numbers, and the    *)
(* options on the command line of a Linux kernel.                          *)
(*                                                                         *)
(* A text is a sequence of characters, which are strings of length one;    *)
(* the null character behind it is not part of it.                         *)
(***************************************************************************)
EXTENDS Integers, Sequences, SequencesExt, TLC

CONSTANTS
  WordSize,   \* wsize
  ULONG_MAX,  \* 2^32 - 1
  IntSize     \* 2^32, the values of an int

-----------------------------------------------------------------------------
(* memcpy().                                                                 *)

\* t turns of a loop that copies units of u bytes upwards from s to d.
Up(m, d, s, t, u) ==
  LET f[k \in 0 .. t] ==
        IF k = 0 THEN m
        ELSE [a \in DOMAIN m |-> LET x == a - (d + (k - 1) * u)
                                 IN  IF x \in 0 .. u - 1 THEN f[k - 1][s + (k - 1) * u + x]
                                     ELSE f[k - 1][a]]
  IN  f[t]

\* The same downwards: s and d are the ends.
Down(m, d, s, t, u) ==
  LET f[k \in 0 .. t] ==
        IF k = 0 THEN m
        ELSE [a \in DOMAIN m |-> LET x == a - (d - k * u)
                                 IN  IF x \in 0 .. u - 1 THEN f[k - 1][s - k * u + x]
                                     ELSE f[k - 1][a]]
  IN  f[t]

Aligned(d, s) == s % WordSize = 0 /\ d % WordSize = 0
SameOffset(d, s) == s % WordSize = d % WordSize

CopyForward(m, d, s, length) ==
  LET t == IF Aligned(d, s) THEN 0
           ELSE IF ~SameOffset(d, s) \/ length < WordSize THEN length
           ELSE WordSize - (s % WordSize)
      words == (length - t) \div WordSize
      w == t + words * WordSize
  IN  Up(Up(Up(m, d, s, t, 1), d + t, s + t, words, WordSize), d + w, s + w, length - w, 1)

CopyBackwards(m, d, s, length) ==
  LET de == d + length
      se == s + length
      t == IF Aligned(de, se) THEN 0
           ELSE IF ~SameOffset(de, se) \/ length <= WordSize THEN length
           ELSE se % WordSize
      words == (length - t) \div WordSize
      w == t + words * WordSize
  IN  Down(Down(Down(m, de, se, t, 1), de - t, se - t, words, WordSize), de - w, se - w, length - w, 1)

AlwaysForward(d, s) == TRUE
IsForward(d, s) == d < s

memcpy(m, d, s, length) ==
  IF length = 0 \/ d = s THEN m
  ELSE IF IsForward(d, s) THEN CopyForward(m, d, s, length) ELSE CopyBackwards(m, d, s, length)

-----------------------------------------------------------------------------
(* Text.                                                                     *)

\* str[i] and sub[j], from 0; Null behind the end, where str ends for the search too.
Null == "\\0"
At(s, i) == IF i < Len(s) THEN s[i + 1] ELSE Null

ResumeLate(i, matched) == i + matched + 2
\* After a mismatch the search goes on behind the character that did not match.
Resume(i, matched) == i + matched + 1

\* A match that the end of the text cuts off leads the search past the end, to what
\* lies there in memory: Beyond.
Beyond == -2
indexOf(sub, str) ==
  LET matched(i) == CHOOSE j \in 0 .. Len(sub) :
                      /\ \A k \in 0 .. j - 1 : At(str, i + k) = sub[k + 1]
                      /\ j = Len(sub) \/ At(str, i + j) # sub[j + 1]
      f[i \in 0 .. Len(str) + 2] ==
        IF i > Len(str) THEN Beyond
        ELSE IF i = Len(str) THEN -1
        ELSE IF matched(i) = Len(sub) THEN i
        ELSE f[Resume(i, matched(i))]
  IN  f[0]

\* The characters that the texts are made of.
Code ==
  (" " :> 32) @@ ("+" :> 43) @@ ("-" :> 45) @@ ("0" :> 48) @@ ("1" :> 49) @@ ("7" :> 55) @@ ("9" :> 57)
  @@ ("=" :> 61) @@ ("G" :> 71) @@ ("X" :> 88) @@ ("a" :> 97) @@ ("e" :> 101) @@ ("g" :> 103) @@ ("i" :> 105)
  @@ ("m" :> 109) @@ ("s" :> 115) @@ ("v" :> 118) @@ ("x" :> 120)
isdigit(c) == Code[c] \in 48 .. 57
isalpha(c) == Code[c] \in 65 .. 90 \cup 97 .. 122

\* The text from position i up to the next blank.
Word(s, i) ==
  LET ends == {k \in i .. Len(s) : At(s, k) \in {" ", Null}}
  IN  SubSeq(s, i + 1, CHOOSE k \in ends : \A l \in ends : k <= l)

\* Every character up to a blank counts as a digit.
aToI(s) == FoldLeft(LAMBDA n, c : (10 * n + (Code[c] - 48)) % IntSize, 0, Word(s, 0))

\* cmdlineArgVal() and aToI() as post_launch() uses them; ASSERT(index != -1).
Stopped == [found |-> FALSE, value |-> 0]
cmdlineArgVal(cmdline, cmdlineArg) ==
  LET index == indexOf(cmdlineArg, cmdline)
  IN  IF index < 0 THEN Stopped
      ELSE [found |-> TRUE, value |-> aToI(SubSeq(cmdline, index + Len(cmdlineArg) + 1, Len(cmdline)))]

IsCut(acc, c, cutoff, cutlim) == acc > cutoff \/ (acc = cutoff /\ c > cutlim)

\* The value of a character; letters of both cases count from 10.
DigitOf(c) ==
  IF isdigit(c) THEN Code[c] - 48
  ELSE IF isalpha(c) THEN (IF Code[c] < 97 THEN Code[c] - 55 ELSE Code[c] - 87)
  ELSE 36

\* strtoul(): acc, and how many characters of s were taken (endptr).
strtoul(s, base0) ==
  LET blanks == CHOOSE k \in 0 .. Len(s) : At(s, k) # " " /\ \A l \in 0 .. k - 1 : At(s, l) = " "
      neg == At(s, blanks) = "-"
      p == IF At(s, blanks) \in {"-", "+"} THEN blanks + 1 ELSE blanks
      hex == base0 \in {0, 16} /\ At(s, p) = "0" /\ At(s, p + 1) \in {"x", "X"}
      q == IF hex THEN p + 2 ELSE p
      base == IF hex THEN 16 ELSE IF base0 # 0 THEN base0 ELSE IF At(s, p) = "0" THEN 8 ELSE 10
      cutoff == ULONG_MAX \div base
      cutlim == ULONG_MAX % base
      \* the loop from position i: <<acc, any, position>>
      f[i \in q .. Len(s), acc \in 0 .. ULONG_MAX, any \in -1 .. 1] ==
        IF i = Len(s) \/ (i < Len(s) /\ DigitOf(At(s, i)) >= base) THEN <<acc, any, i>>
        ELSE IF any < 0 \/ IsCut(acc, DigitOf(At(s, i)), cutoff, cutlim) THEN f[i + 1, acc, -1]
        ELSE f[i + 1, acc * base + DigitOf(At(s, i)), 1]
      r == f[q, 0, 0]
  IN  [acc |-> IF r[2] < 0 THEN ULONG_MAX
               ELSE IF neg THEN (ULONG_MAX + 1 - r[1]) % (ULONG_MAX + 1) ELSE r[1],
       end |-> IF r[2] # 0 THEN r[3] ELSE 0]

\* strncpy(): how many characters and how many null characters it stores.  The test
\* that ends the first loop at num = 0 also decrements num, which wraps around.
strncpy(src, num) ==
  IF Len(src) >= num THEN [copied |-> num, zeros |-> ULONG_MAX]
  ELSE [copied |-> Len(src), zeros |-> num - Len(src) - 1]
Inside(stored, num) == stored.copied + stored.zeros <= num

-----------------------------------------------------------------------------
(* The options of a Linux command line.                                      *)

LinuxOptions == {<<"v", "g", "a">>, <<"m", "e", "m">>}
MAX_VALUE_LEN == 64

\* The words of a command line.
Words(line) ==
  {Word(line, i) : i \in {i \in 0 .. Len(line) - 1 :
                            At(line, i) # " " /\ (i = 0 \/ At(line, i - 1) = " ")}}

\* The copies that cmdline_parse() makes, beyond the (empty) default values: of the
\* value of a word whose name begins the name of an option.
Copies(line) ==
  {LET eq == CHOOSE k \in DOMAIN w : w[k] = "=" /\ \A l \in 1 .. k - 1 : w[l] # "="
   IN  [name |-> SubSeq(w, 1, eq - 1), value |-> SubSeq(w, eq + 1, Len(w))] :
     w \in {w \in Words(line) : \E k \in DOMAIN w : w[k] = "="}}

Matching(line) ==
  {c \in Copies(line) :
     c.name # <<>> /\ c.value # <<>> /\ \E o \in LinuxOptions : IsPrefix(c.name, o)}

\* linux_parse_cmdline(): the values, or Lost when a copy leaves its array.
Lost == [lost |-> TRUE, vga |-> 0, mem |-> 0]
linux_parse_cmdline(line) ==
  LET size(c) == IF Len(c.value) > MAX_VALUE_LEN - 1 THEN MAX_VALUE_LEN - 1 ELSE Len(c.value)
  IN  IF \E c \in Matching(line) : ~Inside(strncpy(c.value, size(c)), size(c)) THEN Lost
      ELSE [lost |-> FALSE, vga |-> strtoul(<<>>, 0).acc, mem |-> strtoul(<<>>, 0).acc]
=============================================================================
