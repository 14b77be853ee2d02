---------------------------- MODULE KeyboardProofs ----------------------------
(***************************************************************************)
(* What the keyboard driver delivers and echoes, for every screen and      *)
(* every session of prompts and keys.                                      *)
(*                                                                         *)
(* EchoShown is an invariant once it is said where the column is (Echoing).*)
(* CarefulLinesDelivered speaks of lines that the driver has not yet read: *)
(* its invariant (Ahead) follows the driver through the scan codes that    *)
(* wait, one state after each of them, to the state in which it has read   *)
(* what the user has typed so far.                                         *)
(***************************************************************************)
EXTENDS Keyboard, SequenceTheorems, TLAPS

Text == Seq(Nat)
Codes == Keys \X BOOLEAN

TypeOK ==
  /\ session \in Sessions
  /\ down \subseteq Keys
  /\ capsOn \in BOOLEAN
  /\ queue \in Seq(Codes)
  /\ line \in Text /\ lines \in Seq(Text)
  /\ shift \in BOOLEAN /\ capslock \in BOOLEAN /\ first \in BOOLEAN
  /\ str \in Text /\ results \in Seq(Text)
  /\ call = Len(results) + 1

\* What is known of a session.
Prompt == [size : Nat \ {0}, buffer : Nat, show : BOOLEAN, text : 0 .. Columns - 1]

\* A session uses Return, and its prompts are well formed.
LEMMA SessionFacts ==
  ASSUME session \in Sessions
  PROVE  /\ Keys \subseteq Nat /\ KEY_RETURN \in Keys
         /\ Prompts \in Seq(Prompt)
BY KeyboardAssumption, Zenon DEF Keys, Prompts, Prompt

\* The keys of the user that are not characters, and what is on the keys that are.
LEMMA KeysApart ==
  /\ Characters \subseteq Nat /\ Characters \cap Modifiers = {}
  /\ {KEY_RETURN, KEY_BACKSPACE, KEY_TAB, KEY_CAPSLOCK} \cap (Characters \cup Modifiers) = {}
  /\ KEY_BACKSPACE \notin {KEY_RETURN, KEY_TAB} /\ KEY_CAPSLOCK \notin {KEY_RETURN, KEY_BACKSPACE, KEY_TAB}
BY DEF Characters, Letters, Modifiers, KEY_RETURN, KEY_BACKSPACE, KEY_TAB, KEY_CAPSLOCK,
       KEY_LSHIFT, KEY_RSHIFT

\* What the user means by a key is a character code.
LEMMA MeantNat ==
  ASSUME NEW k \in Characters
  PROVE  Meant(k) \in Nat
<1>1. k \in Nat /\ Legend(k) \in Nat
  BY DEF Characters, Letters, Legend, Upper
<1>2. QED
  BY <1>1 DEF Meant

\* Every scan code gives a character, which is 0 where there is none.
LEMMA CharNat ==
  ASSUME TypeOK, queue # <<>>
  PROVE  /\ Head(queue) \in Codes /\ Tail(queue) \in Seq(Codes)
         /\ Char \in Nat
<1>1. Head(queue) \in Codes /\ Tail(queue) \in Seq(Codes)
  BY HeadTailProperties DEF TypeOK
<1>2. ASSUME NEW c \in Nat PROVE Shifted(c) \in Nat
  BY DEF Shifted
<1>3. Head(queue)[1] \in Nat
  BY <1>1, SessionFacts DEF TypeOK, Codes
<1>4. ASSUME NEW code \in Nat PROVE kybrd_key_to_ascii(code) \in Nat
  <2> DEFINE key == code % 256
  <2>1. key \in Nat
    OBVIOUS
  <2>2. Shifted(key) \in Nat
    BY <1>2, <2>1
  <2> HIDE DEF key
  <2>3. key \in Letters => Upper(key) \in Nat
    BY <2>1 DEF Upper, Letters
  <2>4. QED
    BY <2>1, <2>2, <2>3 DEF kybrd_key_to_ascii, key
<1>5. QED
  BY <1>1, <1>3, <1>4, SMTT(30) DEF Char

\* Backspace takes the last character away.
LEMMA EraseFacts ==
  ASSUME NEW S, NEW s \in Seq(S), s # <<>>
  PROVE  /\ Erase(s) \in Seq(S)
         /\ Len(Erase(s)) = Len(s) - 1
         /\ \A k \in 1 .. Len(s) - 1 : Erase(s)[k] = s[k]
<1>1. Len(s) \in Nat /\ Len(s) # 0
  BY EmptySeq, LenProperties
<1>2. PICK n \in Nat : n = Len(s) - 1
  BY <1>1
<1>3. \A k \in 1 .. n : s[k] \in S
  BY <1>1, <1>2, ElementOfSeq
<1>4. /\ SubSeq(s, 1, n) \in Seq(S)
      /\ Len(SubSeq(s, 1, n)) = IF 1 <= n THEN n - 1 + 1 ELSE 0
      /\ \A k \in 1 .. n - 1 + 1 : SubSeq(s, 1, n)[k] = s[1 + k - 1]
  BY <1>3, SubSeqProperties
<1>5. /\ Len(SubSeq(s, 1, n)) = n
      /\ \A k \in 1 .. n : SubSeq(s, 1, n)[k] = s[k]
  BY <1>4
<1>6. QED
  BY <1>2, <1>4, <1>5 DEF Erase

\* The type invariant at the start.
LEMMA InitType == Init => TypeOK
<1> SUFFICES ASSUME Init PROVE TypeOK
  OBVIOUS
<1>1. <<KEY_RETURN, TRUE>> \in Codes
  BY SessionFacts, Zenon DEF Init, Codes
<1>2. queue \in Seq(Codes)
  <2>1. \A c \in Codes : <<c>> \in Seq(Codes)
    OBVIOUS
  <2>2. QED
    BY <1>1, <2>1, EmptySeq, Zenon DEF Init
<1>3. line \in Text /\ lines \in Seq(Text) /\ str \in Text /\ results \in Seq(Text)
  BY EmptySeq DEF Init, Text
<1>4. call = Len(results) + 1
  BY DEF Init
<1>5. QED
  BY <1>2, <1>3, <1>4, Zenon DEF Init, TypeOK

\* The end of get_string() keeps the types of what it changes.
LEMMA ReturnType ==
  ASSUME TypeOK, ReturnString(str)
  PROVE  str' \in Text /\ results' \in Seq(Text) /\ call' = Len(results') + 1 /\ first' \in BOOLEAN
<1>1. results' \in Seq(Text) /\ Len(results') = Len(results) + 1
  BY AppendProperties DEF TypeOK, ReturnString
<1>2. QED
  BY <1>1 DEF TypeOK, ReturnString, Text

\* So does getchar().
LEMMA GetcharType ==
  ASSUME TypeOK, getchar
  PROVE  queue' \in Seq(Codes) /\ shift' \in BOOLEAN /\ capslock' \in BOOLEAN
<1>1. queue' \in Seq(Codes) /\ Head(queue) \in Codes
  BY CharNat DEF getchar
<1>2. shift' \in BOOLEAN /\ capslock' \in BOOLEAN
  BY <1>1, Zenon DEF getchar, Modify, TypeOK, Codes
<1>3. QED
  BY <1>1, <1>2

\* The type invariant is inductive.
LEMMA NextType == TypeOK /\ [Next]_vars => TypeOK'
<1> SUFFICES ASSUME TypeOK, [Next]_vars PROVE TypeOK'
  OBVIOUS
<1>0. session' = session
  BY Zenon DEF Next, vars, user, Press, Release, get_string, SkipFirst, ReadChar, ReadReturn, Full
<1>s. Codes' = Codes /\ Keys' = Keys
  BY <1>0 DEF Codes, Keys
<1>1. ASSUME NEW k \in Keys, Press(k) PROVE TypeOK'
  <2>1. <<k, FALSE>> \in Codes
    BY Zenon DEF Codes
  <2>2. queue' \in Seq(Codes)
    BY <1>1, <2>1, AppendProperties DEF TypeOK, Press
  <2>3. QED
    BY <1>1, <1>s, <2>2 DEF TypeOK, Press
<1>2. ASSUME NEW k \in Keys, Release(k) PROVE TypeOK'
  <2>1. <<k, TRUE>> \in Codes
    BY Zenon DEF Codes
  <2>2. queue' \in Seq(Codes)
    BY <1>2, <2>1, AppendProperties DEF TypeOK, Release
  <2>3. line' \in Text
    <3>1. CASE k \in Characters
      <4>1. Meant(k) \in Nat
        BY <3>1, MeantNat
      <4>2. QED
        BY <1>2, <3>1, <4>1, KeysApart, AppendProperties DEF TypeOK, Release, Text
    <3>2. CASE k = KEY_BACKSPACE /\ line # <<>>
      BY <1>2, <3>2, KeysApart, EraseFacts DEF TypeOK, Release, Text
    <3>3. CASE k \notin Characters /\ ~ (k = KEY_BACKSPACE /\ line # <<>>)
      BY <1>2, <3>3, EmptySeq DEF TypeOK, Release, Text
    <3>4. QED
      BY <3>1, <3>2, <3>3
  <2>4. lines' \in Seq(Text)
    BY <1>2, AppendProperties DEF TypeOK, Release
  <2>5. QED
    BY <1>2, <1>s, <2>2, <2>3, <2>4 DEF TypeOK, Release
<1>3. CASE SkipFirst
  BY <1>3, <1>s, GetcharType, Zenon DEF TypeOK, SkipFirst, user
<1>4. CASE ReadChar
  <2>1. Char \in Nat
    BY <1>4, CharNat DEF ReadChar, getchar
  <2>2. str' \in Text
    <3>1. CASE Char = 8
      BY <1>4, <3>1, EraseFacts, EmptySeq DEF ReadChar, TypeOK, i, Text
    <3>2. CASE Char = 0
      BY <1>4, <3>2 DEF ReadChar, TypeOK
    <3>3. CASE Char # 8 /\ Char # 0
      <4>1. str' = Append(str, Char)
        BY <1>4, <3>3 DEF ReadChar
      <4>2. QED
        BY <2>1, <4>1, AppendProperties DEF TypeOK, Text
    <3>4. QED
      BY <3>1, <3>2, <3>3
  <2>3. QED
    BY <1>4, <1>s, <2>2, GetcharType DEF TypeOK, ReadChar, user
<1>5. CASE ReadReturn
  BY <1>5, <1>s, GetcharType, ReturnType DEF TypeOK, ReadReturn, user
<1>6. CASE Full
  BY <1>6, <1>s, ReturnType DEF TypeOK, Full, user
<1>7. CASE UNCHANGED vars
  BY <1>7, <1>s DEF TypeOK, vars, user
<1>8. QED
  BY <1>1, <1>2, <1>3, <1>4, <1>5, <1>6, <1>7 DEF Next, get_string

-----------------------------------------------------------------------------
(* The echo.                                                                 *)

\* The last line with the question, which is t characters long, and w behind it.
RowWith(t, w) ==
  [x \in 0 .. Columns - 1 |-> IF x < t THEN 1 ELSE IF x < t + Len(w) THEN w[x - t + 1] ELSE 0]

\* Screen s shows what is shown of w, and the column is behind it, until the echo
\* has run over the line.
Shows(s, t, w) ==
  /\ s.over \in BOOLEAN /\ DOMAIN s.row = 0 .. Columns - 1
  /\ s.store \in -1 .. Columns - 1 /\ s.col \in 0 .. Columns - 1
  /\ ~s.over => s.col = t + Len(w) /\ s.row = RowWith(t, w)

Echoing ==
  Shows(screen, IF call <= Len(Prompts) THEN Prompts[call].text ELSE 0,
        IF call <= Len(Prompts) /\ Prompts[call].show THEN str ELSE <<>>)

\* A character that is echoed is shown, and Backspace takes it away.
LEMMA CharShown ==
  ASSUME NEW s, NEW t \in 0 .. Columns - 1, NEW w \in Text, NEW c \in Nat, c # 8, Shows(s, t, w)
  PROVE  Shows(out_char(s, c), t, Append(w, c))
<1> DEFINE r == out_char(s, c)
           v == Append(w, c)
<1>1. Columns \in Nat /\ Columns # 0
  BY KeyboardAssumption
<1>2. v \in Text /\ Len(v) = Len(w) + 1 /\ Len(w) \in Nat
  BY AppendProperties DEF Text
<1>3. v[Len(w) + 1] = c /\ \A k \in 1 .. Len(w) : v[k] = w[k]
  BY AppendProperties DEF Text
<1>4. /\ r.over \in BOOLEAN /\ DOMAIN r.row = 0 .. Columns - 1
      /\ r.store \in -1 .. Columns - 1 /\ r.col \in 0 .. Columns - 1
  BY <1>1 DEF Shows, out_char
<1>5. ASSUME ~r.over PROVE r.col = t + Len(v) /\ r.row = RowWith(t, v)
  <2>1. ~s.over /\ s.col + 1 < Columns /\ r.col = s.col + 1
    <3>1. s.col \in 0 .. Columns - 1
      BY DEF Shows
    <3>2. ~s.over /\ ~ (s.col + 1 < 0 \/ s.col + 1 >= Columns)
      BY <1>5, Zenon DEF out_char
    <3>3. r.col = s.col + 1
      BY <3>2 DEF out_char
    <3>4. QED
      BY <1>1, <3>1, <3>2, <3>3
  <2>2. s.col = t + Len(w) /\ s.row = RowWith(t, w)
    BY <2>1 DEF Shows
  <2>3. \A x \in 0 .. Columns - 1 : r.row[x] = IF x = s.col THEN c ELSE s.row[x]
    BY <1>1, <2>1 DEF Shows, out_char
  <2>4. \A x \in 0 .. Columns - 1 : s.row[x] = IF x < t THEN 1 ELSE IF x < t + Len(w) THEN w[x - t + 1] ELSE 0
    BY <2>2 DEF RowWith
  <2>5. r.row = [x \in 0 .. Columns - 1 |-> r.row[x]]
    BY DEF out_char, Shows
  <2> HIDE DEF r, v
  <2>6. ASSUME NEW x \in 0 .. Columns - 1
        PROVE  r.row[x] = IF x < t THEN 1 ELSE IF x < t + Len(v) THEN v[x - t + 1] ELSE 0
    <3>1. CASE x < t
      BY <1>1, <1>2, <2>2, <2>3, <2>4, <3>1
    <3>2. CASE x >= t /\ x < t + Len(w)
      BY <1>1, <1>2, <1>3, <2>2, <2>3, <2>4, <3>2, SMTT(30)
    <3>3. CASE x = t + Len(w)
      BY <1>1, <1>2, <1>3, <2>2, <2>3, <2>4, <3>3
    <3>4. CASE x > t + Len(w)
      BY <1>1, <1>2, <1>3, <2>2, <2>3, <2>4, <3>4
    <3>5. QED
      BY <1>1, <1>2, <3>1, <3>2, <3>3, <3>4
  <2>7. QED
    BY <1>1, <1>2, <2>1, <2>2, <2>5, <2>6 DEF RowWith
<1>6. QED
  BY <1>4, <1>5 DEF Shows

\* A backspace takes the last character from the screen, too.
LEMMA BackspaceShown ==
  ASSUME NEW s, NEW t \in 0 .. Columns - 1, NEW w \in Text, w # <<>>, Shows(s, t, w)
  PROVE  Shows(out_char(s, 8), t, Erase(w))
<1> DEFINE r == out_char(s, 8)
           v == Erase(w)
<1>1. Columns \in Nat /\ Columns # 0
  BY KeyboardAssumption
<1>2. v \in Text /\ Len(v) = Len(w) - 1 /\ Len(w) \in Nat /\ Len(v) \in Nat
  BY EraseFacts, LenProperties DEF Text
<1>3. \A k \in 1 .. Len(v) : v[k] = w[k]
  BY <1>2, EraseFacts, SMTT(30) DEF Text
<1>4. /\ r.over \in BOOLEAN /\ DOMAIN r.row = 0 .. Columns - 1
      /\ r.store \in -1 .. Columns - 1 /\ r.col \in 0 .. Columns - 1
  BY <1>1 DEF Shows, out_char
<1>5. ASSUME ~r.over PROVE r.col = t + Len(v) /\ r.row = RowWith(t, v)
  <2>1. ~s.over /\ s.col - 1 >= 0 /\ r.col = s.col - 1
    BY <1>1, <1>5 DEF Shows, out_char
  <2>2. s.col = t + Len(w) /\ s.row = RowWith(t, w)
    BY <2>1 DEF Shows
  <2>3. \A x \in 0 .. Columns - 1 : r.row[x] = IF x = s.col - 1 THEN 0 ELSE s.row[x]
    BY <1>1, <2>1 DEF Shows, out_char
  <2>4. \A x \in 0 .. Columns - 1 : s.row[x] = IF x < t THEN 1 ELSE IF x < t + Len(w) THEN w[x - t + 1] ELSE 0
    BY <2>2 DEF RowWith
  <2>5. r.row = [x \in 0 .. Columns - 1 |-> r.row[x]]
    BY DEF out_char, Shows
  <2> HIDE DEF r, v
  <2>6. ASSUME NEW x \in 0 .. Columns - 1
        PROVE  r.row[x] = IF x < t THEN 1 ELSE IF x < t + Len(v) THEN v[x - t + 1] ELSE 0
    <3>1. CASE x < t
      BY <1>1, <1>2, <2>2, <2>3, <2>4, <3>1
    <3>2. CASE x >= t /\ x < t + Len(v)
      BY <1>1, <1>2, <1>3, <2>2, <2>3, <2>4, <3>2
    <3>3. CASE x = t + Len(v)
      BY <1>1, <1>2, <2>2, <2>3, <3>3
    <3>4. CASE x > t + Len(v)
      BY <1>1, <1>2, <2>2, <2>3, <2>4, <3>4
    <3>5. QED
      BY <1>1, <1>2, <3>1, <3>2, <3>3, <3>4
  <2>7. QED
    BY <1>1, <1>2, <2>1, <2>2, <2>5, <2>6 DEF RowWith
<1>6. QED
  BY <1>4, <1>5 DEF Shows

\* A call starts with its question on the screen.
LEMMA AskedShown ==
  ASSUME session \in Sessions, NEW k \in Nat \ {0}
  PROVE  Shows(Asked(k), IF k <= Len(Prompts) THEN Prompts[k].text ELSE 0, <<>>)
<1>1. Columns \in Nat /\ Columns # 0
  BY KeyboardAssumption
<1> DEFINE t == IF k <= Len(Prompts) THEN Prompts[k].text ELSE 0
<1>2. t \in 0 .. Columns - 1
  <2>1. k <= Len(Prompts) => Prompts[k] \in Prompt
    BY SessionFacts, ElementOfSeq, LenProperties
  <2>2. QED
    BY <1>1, <2>1 DEF Prompt
<1>3. Asked(k) = [col |-> t, row |-> [x \in 0 .. Columns - 1 |-> IF x < t THEN 1 ELSE 0], store |-> 0, over |-> FALSE]
  BY DEF Asked
<1> HIDE DEF t
<1>4. Len(<<>>) = 0
  OBVIOUS
<1>5. RowWith(t, <<>>) = [x \in 0 .. Columns - 1 |-> IF x < t THEN 1 ELSE 0]
  BY <1>1, <1>2, <1>4 DEF RowWith
<1>6. Shows(Asked(k), t, <<>>)
  BY <1>1, <1>2, <1>3, <1>4, <1>5 DEF Shows
<1>7. QED
  BY <1>6 DEF t

\* The echo invariant at the start.
LEMMA InitEchoing == Init => Echoing
<1> SUFFICES ASSUME Init PROVE Echoing
  OBVIOUS
<1>1. session \in Sessions /\ call = 1 /\ str = <<>> /\ screen = Asked(1)
  BY DEF Init
<1>2. 1 \in Nat \ {0}
  OBVIOUS
<1>3. QED
  BY <1>1, <1>2, AskedShown, Zenon DEF Echoing

\* The echo invariant is inductive.
LEMMA NextEchoing == TypeOK /\ Echoing /\ [Next]_vars => Echoing'
<1> SUFFICES ASSUME TypeOK, Echoing, [Next]_vars PROVE Echoing'
  OBVIOUS
<1>0. session' = session /\ session \in Sessions
  BY Zenon DEF Next, vars, user, Press, Release, get_string, SkipFirst, ReadChar, ReadReturn, Full, TypeOK
<1>s. Prompts' = Prompts
  BY <1>0 DEF Prompts
<1>n. call \in Nat \ {0}
  BY LenProperties DEF TypeOK
<1>1. CASE UNCHANGED <<screen, call, str>>
  BY <1>1, <1>s DEF Echoing
<1>2. CASE ReturnString(str)
  <2>1. screen' = Asked(call + 1) /\ call' = call + 1 /\ str' = <<>>
    BY <1>2 DEF ReturnString
  <2>2. Shows(Asked(call + 1), IF call + 1 <= Len(Prompts) THEN Prompts[call + 1].text ELSE 0, <<>>)
    BY <1>0, <1>n, AskedShown
  <2>3. QED
    BY <1>s, <2>1, <2>2, Zenon DEF Echoing
<1>3. CASE ReadChar
  <2> DEFINE t == Prompts[call].text
  <2>1. call <= Len(Prompts) /\ call' = call
    BY <1>3 DEF ReadChar
  <2>2. Prompts[call] \in Prompt
    BY <1>0, <1>n, <2>1, SessionFacts, ElementOfSeq, LenProperties
  <2>3. t \in 0 .. Columns - 1 /\ Prompts[call].show \in BOOLEAN
    BY <2>2 DEF Prompt
  <2>4. Char \in Nat /\ str \in Text
    BY <1>3, CharNat DEF ReadChar, getchar, TypeOK
  <2>5. Len(str) > 0 <=> str # <<>>
    BY EmptySeq, LenProperties DEF TypeOK, Text
  <2>6. Shows(screen, t, IF Prompts[call].show THEN str ELSE <<>>)
    BY <2>1, Zenon DEF Echoing
  <2>7. ASSUME Shows(screen', t, IF Prompts[call].show THEN str' ELSE <<>>) PROVE Echoing'
    BY <1>s, <2>1, <2>7, Zenon DEF Echoing
  <2>8. CASE ~Prompts[call].show
    <3>1. screen' = screen
      BY <1>3, <2>8 DEF ReadChar, Echo
    <3>2. QED
      BY <2>6, <2>7, <2>8, <3>1
  <2>9. CASE Prompts[call].show /\ Char = 8
    <3>1. CASE str = <<>>
      <4>1. str' = str /\ screen' = screen
        BY <1>3, <2>5, <2>9, <3>1 DEF ReadChar, Echo, i
      <4>2. QED
        BY <2>6, <2>7, <4>1
    <3>2. CASE str # <<>>
      <4>1. str' = Erase(str) /\ screen' = out_char(screen, 8)
        BY <1>3, <2>5, <2>9, <3>2 DEF ReadChar, Echo, i
      <4>2. Shows(screen, t, str)
        BY <2>6, <2>9
      <4>3. Shows(out_char(screen, 8), t, Erase(str))
        BY <2>3, <2>4, <3>2, <4>2, BackspaceShown
      <4>4. QED
        BY <2>7, <2>9, <4>1, <4>3
    <3>3. QED
      BY <3>1, <3>2
  <2>10. CASE Prompts[call].show /\ Char = 0
    <3>1. str' = str /\ screen' = screen
      BY <1>3, <2>10 DEF ReadChar, Echo
    <3>2. QED
      BY <2>6, <2>7, <3>1
  <2>11. CASE Prompts[call].show /\ Char # 8 /\ Char # 0
    <3>1. str' = Append(str, Char) /\ screen' = out_char(screen, Char)
      BY <1>3, <2>11 DEF ReadChar, Echo
    <3>2. Shows(screen, t, str)
      BY <2>6, <2>11
    <3>3. Shows(out_char(screen, Char), t, Append(str, Char))
      BY <2>3, <2>4, <2>11, <3>2, CharShown
    <3>4. QED
      BY <2>7, <2>11, <3>1, <3>3
  <2>12. QED
    BY <2>3, <2>8, <2>9, <2>10, <2>11
<1>4. QED
  BY <1>1, <1>2, <1>3, Zenon DEF Next, Press, Release, get_string, SkipFirst, ReadReturn, Full, vars, user

\* Whatever is typed, and whichever line the screen is as long as, the echo of
\* get_string() stays on the last line or at the end of the one above, and the line
\* shows the question and what is in the caller's buffer until out_char() has run
\* over its end.
THEOREM EchoAlwaysShown == Spec => []EchoShown
<1>1. TypeOK /\ Echoing => EchoShown
  <2> SUFFICES ASSUME TypeOK, Echoing PROVE EchoShown
    OBVIOUS
  <2>1. screen.store \in -1 .. Columns - 1 /\ screen.col \in 0 .. Columns - 1
    BY Zenon DEF Echoing, Shows
  <2>2. ASSUME call <= Len(Prompts), ~screen.over
        PROVE  screen.row = RowWith(Prompts[call].text, IF Prompts[call].show THEN str ELSE <<>>)
    BY <2>2, Zenon DEF Echoing, Shows
  <2>3. QED
    BY <2>1, <2>2, Zenon DEF EchoShown, RowWith
<1>2. TypeOK /\ Echoing /\ [Next]_vars => TypeOK' /\ Echoing'
  BY NextType, NextEchoing
<1>3. Init => TypeOK /\ Echoing
  BY InitType, InitEchoing
<1>4. QED
  BY <1>1, <1>2, <1>3, PTL DEF Spec

-----------------------------------------------------------------------------
(* The lines of a careful user.                                              *)

\* The driver between two scan codes, when Caps Lock is off.
DriverStates == [shift : BOOLEAN, first : BOOLEAN, str : Text, results : Seq(Text)]
Now == [shift |-> shift, first |-> first, str |-> str, results |-> results]

\* The character that the driver gives for the key of a character.
Modified(k, sh) == IF ~sh THEN k ELSE IF k \in Letters THEN Upper(k) ELSE Shifted(k)

\* What a scan code makes of the driver, where no line is filled.
Reads(s, code) ==
  LET k == code[1]
      acts == code[2] /\ ~s.first
  IN  [shift |-> IF k \in Modifiers THEN ~code[2] ELSE s.shift,
       first |-> acts /\ k = KEY_RETURN,
       str |-> IF acts /\ k \in Characters THEN Append(s.str, Modified(k, s.shift))
               ELSE IF acts /\ k = KEY_BACKSPACE /\ s.str # <<>> THEN Erase(s.str)
               ELSE IF acts /\ k = KEY_RETURN THEN <<>> ELSE s.str,
       results |-> IF acts /\ k = KEY_RETURN THEN Append(s.results, s.str) ELSE s.results]

\* st are the states on the way through the codes q.
Through(st, q) ==
  /\ st \in [0 .. Len(q) -> DriverStates]
  /\ \A j \in 1 .. Len(q) : st[j] = Reads(st[j - 1], q[j])

\* The line in s is not full, and the lines in s are the first that were typed.
Fits(s, p) == Len(s.results) < Len(p) => Len(s.str) < p[Len(s.results) + 1].size
Heard(s, l) == Len(s.results) <= Len(l) /\ \A k \in 1 .. Len(s.results) : s.results[k] = l[k]

\* In s the driver has read all that has been typed, which is w after the lines l with
\* the keys d down, and the next code is no break code of a character if it will be
\* thrown away.
CaughtUp(s, w, l, d) ==
  /\ s.str = w /\ s.results = l
  /\ s.shift <=> d \cap Modifiers # {}
  /\ s.first => d \subseteq Modifiers

\* The way from s through the codes q to there.
Follows(st, s, q, p, w, l, d) ==
  /\ Through(st, q)
  /\ st[0] = s
  /\ \A j \in 0 .. Len(q) : Fits(st[j], p) /\ Heard(st[j], l)
  /\ CaughtUp(st[Len(q)], w, l, d)

Leads(s, q, p, w, l, d) == \E st : Follows(st, s, q, p, w, l, d)

Ahead == Leads(Now, queue, Prompts, line, lines, down)

\* One key is down at a time, besides the modifiers, and it still has its place.
OneKey ==
  /\ \A k, l \in down \ Modifiers : k = l
  /\ ~ (down \subseteq Modifiers) => Len(lines) < Len(Prompts)
  /\ down \cap Characters # {} => Len(line) + 2 <= Prompts[Len(lines) + 1].size

InStep == Careful => ~capslock /\ ~capsOn /\ OneKey /\ Ahead

\* It is no control character.
LEMMA ModifiedNat ==
  ASSUME NEW k \in Characters, NEW sh
  PROVE  Modified(k, sh) \in Nat /\ Modified(k, sh) \notin {0, 8, 13}
<1>1. k \in Nat \ {0, 8, 13}
  BY DEF Characters, Letters
<1>2. k \in Letters => Upper(k) \in Nat \ {0, 8, 13}
  BY DEF Letters, Upper
<1>3. Shifted(k) \in Nat \ {0, 8, 13}
  BY <1>1 DEF Shifted
<1>4. QED
  BY <1>1, <1>2, <1>3 DEF Modified

\* The shift table agrees with the keys but for 3, 4 and =.
LEMMA ModifiedLegend ==
  ASSUME NEW k \in Characters \ MisShifted
  PROVE  Modified(k, TRUE) = Legend(k)
<1>1. CASE k \in Letters
  BY <1>1 DEF Modified, Legend
<1>2. CASE k \notin Letters
  <2>1. k \in {32, 39, 44, 45, 46, 47, 48, 49, 50, 53, 54, 55, 56, 57, 59, 91, 92, 93, 96}
    BY <1>2 DEF Characters, MisShifted
  <2>2. Shifted(k) = Legend(k)
    BY <1>2, <2>1 DEF Shifted, Legend
  <2>3. QED
    BY <1>2, <2>2 DEF Modified
<1>3. QED
  BY <1>1, <1>2

\* A scan code leaves a state of the driver.
LEMMA ReadsType ==
  ASSUME NEW s \in DriverStates, NEW code \in Nat \X BOOLEAN
  PROVE  Reads(s, code) \in DriverStates
<1> DEFINE k == code[1]
           acts == code[2] /\ ~s.first
<1>1. k \in Nat /\ code[2] \in BOOLEAN
  OBVIOUS
<1>2. s.shift \in BOOLEAN /\ s.first \in BOOLEAN /\ s.str \in Text /\ s.results \in Seq(Text)
  BY DEF DriverStates
<1>3. \A l \in Characters : Modified(l, s.shift) \in Nat
  BY ModifiedNat
<1> DEFINE r == Reads(s, code)
<1>4. r.shift \in BOOLEAN /\ r.first \in BOOLEAN
  BY <1>1, <1>2, Zenon DEF Reads
<1>5. r.str \in Text
  <2>1. CASE acts /\ k \in Characters
    <3>1. r.str = Append(s.str, Modified(k, s.shift))
      BY <2>1 DEF Reads
    <3>2. QED
      BY <1>2, <1>3, <2>1, <3>1, AppendProperties DEF Text
  <2>2. CASE ~ (acts /\ k \in Characters) /\ acts /\ k = KEY_BACKSPACE /\ s.str # <<>>
    <3>1. r.str = Erase(s.str)
      BY <2>2 DEF Reads
    <3>2. QED
      BY <1>2, <2>2, <3>1, EraseFacts DEF Text
  <2>3. CASE ~ (acts /\ k \in Characters) /\ ~ (acts /\ k = KEY_BACKSPACE /\ s.str # <<>>)
    <3>1. r.str = IF acts /\ k = KEY_RETURN THEN <<>> ELSE s.str
      BY <2>3 DEF Reads
    <3>2. QED
      BY <1>2, <3>1, EmptySeq DEF Text
  <2>4. QED
    BY <2>1, <2>2, <2>3
<1>6. r.results \in Seq(Text)
  <2>1. r.results = IF acts /\ k = KEY_RETURN THEN Append(s.results, s.str) ELSE s.results
    BY SMTT(30) DEF Reads
  <2>2. QED
    BY <1>2, <2>1, AppendProperties
<1>7. r = [shift |-> r.shift, first |-> r.first, str |-> r.str, results |-> r.results]
  BY DEF Reads
<1>8. QED
  BY <1>4, <1>5, <1>6, <1>7 DEF DriverStates

\* The way through the codes when the first is read, and when one is added.
LEMMA ThroughTail ==
  ASSUME NEW C, NEW q \in Seq(C), q # <<>>, NEW st, Through(st, q)
  PROVE  LET r == [j \in 0 .. Len(Tail(q)) |-> st[j + 1]]
         IN  /\ Through(r, Tail(q))
             /\ r[0] = Reads(st[0], Head(q))
             /\ r[Len(Tail(q))] = st[Len(q)]
             /\ \A j \in 0 .. Len(Tail(q)) : j + 1 \in 0 .. Len(q) /\ r[j] = st[j + 1]
<1> DEFINE r == [j \in 0 .. Len(Tail(q)) |-> st[j + 1]]
<1>1. Len(q) \in Nat /\ Len(q) # 0
  BY EmptySeq, LenProperties
<1>2. Len(Tail(q)) = Len(q) - 1 /\ Head(q) = q[1] /\ \A j \in 1 .. Len(q) - 1 : Tail(q)[j] = q[j + 1]
  BY <1>1
<1>3. PICK n \in Nat : n = Len(q) - 1
  BY <1>1
<1>4. \A j \in 0 .. n : j + 1 \in 0 .. Len(q) /\ r[j] = st[j + 1]
  BY <1>1, <1>2, <1>3
<1>5. r \in [0 .. n -> DriverStates]
  BY <1>1, <1>2, <1>3, <1>4 DEF Through
<1> HIDE DEF r
<1>6. ASSUME NEW j \in 1 .. n PROVE r[j] = Reads(r[j - 1], Tail(q)[j])
  <2>1. j + 1 \in 1 .. Len(q) /\ (j + 1) - 1 = j /\ j - 1 \in 0 .. n /\ (j - 1) + 1 = j
    BY <1>1, <1>3
  <2>2. st[j + 1] = Reads(st[(j + 1) - 1], q[j + 1])
    BY <2>1 DEF Through
  <2>3. r[j] = st[j + 1] /\ r[j - 1] = st[j] /\ Tail(q)[j] = q[j + 1]
    BY <1>2, <1>3, <1>4, <2>1
  <2>4. QED
    BY <2>1, <2>2, <2>3
<1>7. r[0] = Reads(st[0], Head(q))
  <2>1. st[1] = Reads(st[1 - 1], q[1])
    BY <1>1 DEF Through
  <2>2. QED
    BY <1>2, <1>4, <2>1
<1>8. r[n] = st[Len(q)]
  BY <1>1, <1>3, <1>4
<1>9. Len(Tail(q)) = n
  BY <1>2, <1>3
<1>10. QED
  BY <1>4, <1>5, <1>6, <1>7, <1>8, <1>9 DEF Through, r

\* The same for a code that is added at the end.
LEMMA ThroughAppend ==
  ASSUME NEW C, NEW q \in Seq(C), NEW c \in C, NEW st, Through(st, q),
         Reads(st[Len(q)], c) \in DriverStates
  PROVE  LET r == [j \in 0 .. Len(q) + 1 |-> IF j <= Len(q) THEN st[j] ELSE Reads(st[Len(q)], c)]
         IN  /\ Through(r, Append(q, c))
             /\ Len(Append(q, c)) = Len(q) + 1
             /\ r[Len(q) + 1] = Reads(st[Len(q)], c)
             /\ \A j \in 0 .. Len(q) : r[j] = st[j]
<1> DEFINE r == [j \in 0 .. Len(q) + 1 |-> IF j <= Len(q) THEN st[j] ELSE Reads(st[Len(q)], c)]
           a == Append(q, c)
<1>1. Len(q) \in Nat
  BY LenProperties
<1>2. /\ Len(a) = Len(q) + 1 /\ a[Len(q) + 1] = c
      /\ \A j \in 1 .. Len(q) : a[j] = q[j]
  BY AppendProperties
<1>3. r[Len(q) + 1] = Reads(st[Len(q)], c) /\ \A j \in 0 .. Len(q) : r[j] = st[j]
  BY <1>1
<1>4. r \in [0 .. Len(q) + 1 -> DriverStates]
  BY <1>1 DEF Through
<1> HIDE DEF r, a
<1>5. ASSUME NEW j \in 1 .. Len(q) + 1 PROVE r[j] = Reads(r[j - 1], a[j])
  <2>1. CASE j = Len(q) + 1
    BY <1>1, <1>2, <1>3, <2>1
  <2>2. CASE j <= Len(q)
    <3>1. j \in 1 .. Len(q) /\ j - 1 \in 0 .. Len(q) /\ j \in 0 .. Len(q)
      BY <1>1, <2>2
    <3>2. st[j] = Reads(st[j - 1], q[j])
      BY <3>1 DEF Through
    <3>3. QED
      BY <1>2, <1>3, <3>1, <3>2
  <2>3. QED
    BY <1>1, <2>1, <2>2
<1>6. Through(r, a)
  BY <1>2, <1>4, <1>5 DEF Through
<1>7. QED
  BY <1>2, <1>3, <1>6 DEF r, a

\* The keys of a careful user, and the characters they give.
CarefulKeys == Characters \cup Modifiers \cup {KEY_RETURN, KEY_BACKSPACE, KEY_TAB}

\* What getchar() returns to a careful user.
LEMMA CarefulChar ==
  ASSUME TypeOK, Careful, ~capslock, queue # <<>>
  PROVE  LET k == Head(queue)[1]
             b == Head(queue)[2]
         IN  /\ k \in CarefulKeys /\ b \in BOOLEAN
             /\ ~b \/ k \in Modifiers \cup {KEY_TAB} => Char = 0
             /\ b /\ k = KEY_RETURN => Char = 13
             /\ b /\ k = KEY_BACKSPACE => Char = 8
             /\ b /\ k \in Characters => Char = Modified(k, shift) /\ Char \notin {0, 8, 13}
<1> DEFINE k == Head(queue)[1]
           b == Head(queue)[2]
<1>1. k \in Keys /\ b \in BOOLEAN
  BY CharNat DEF Codes
<1>2. Keys \subseteq CarefulKeys
  BY DEF Careful, CarefulKeys
<1>3. Char = IF b /\ k \notin Modifiers THEN kybrd_key_to_ascii(k) ELSE 0
  BY DEF Char
<1> HIDE DEF k, b
<1>4. kybrd_key_to_ascii(KEY_RETURN) = 13
  <2>1. KEY_RETURN % 256 = 13 /\ 13 \notin Letters /\ Shifted(13) = 13
    BY DEF KEY_RETURN, Letters, Shifted
  <2>2. QED
    BY <2>1 DEF kybrd_key_to_ascii
<1>5. kybrd_key_to_ascii(KEY_BACKSPACE) = 8
  <2>1. KEY_BACKSPACE % 256 = 8 /\ 8 \notin Letters /\ Shifted(8) = 8
    BY DEF KEY_BACKSPACE, Letters, Shifted
  <2>2. QED
    BY <2>1 DEF kybrd_key_to_ascii
<1>6. kybrd_key_to_ascii(KEY_TAB) = 0
  <2>1. KEY_TAB % 256 = 0 /\ 0 \notin Letters /\ Shifted(0) = 0
    BY DEF KEY_TAB, Letters, Shifted
  <2>2. QED
    BY <2>1 DEF kybrd_key_to_ascii
<1>7. ASSUME NEW l \in Characters
      PROVE  kybrd_key_to_ascii(l) = Modified(l, shift)
  <2>1. l \in 0 .. 127 /\ l % 256 = l
    BY DEF Characters, Letters
  <2>2. QED
    BY <2>1 DEF kybrd_key_to_ascii, Modified, TypeOK
<1>8. k \in Characters => k \notin Modifiers
  BY KeysApart
<1>9. QED
  BY <1>1, <1>2, <1>3, <1>4, <1>5, <1>6, <1>7, <1>8, KeysApart, ModifiedNat DEF k, b

\* Each getchar() of the driver is a step on that way.
LEMMA DriverReads ==
  ASSUME TypeOK, Careful, ~capslock, SkipFirst \/ ReadChar \/ ReadReturn
  PROVE  Now' = Reads(Now, Head(queue)) /\ ~capslock' /\ queue # <<>> /\ queue' = Tail(queue)
<1> DEFINE k == Head(queue)[1]
           b == Head(queue)[2]
<1>1. queue # <<>> /\ queue' = Tail(queue) /\ Modify
  BY DEF SkipFirst, ReadChar, ReadReturn, getchar
<1>2. /\ k \in CarefulKeys /\ b \in BOOLEAN
      /\ ~b \/ k \in Modifiers \cup {KEY_TAB} => Char = 0
      /\ b /\ k = KEY_RETURN => Char = 13
      /\ b /\ k = KEY_BACKSPACE => Char = 8
      /\ b /\ k \in Characters => Char = Modified(k, shift) /\ Char \notin {0, 8, 13}
  BY <1>1, CarefulChar
<1>3. shift' = (IF k \in Modifiers THEN ~b ELSE shift) /\ ~capslock'
  <2>1. k # KEY_CAPSLOCK
    BY <1>2, KeysApart DEF CarefulKeys
  <2>2. QED
    BY <1>1, <2>1 DEF Modify
<1> DEFINE r == Reads(Now, Head(queue))
<1>4. r.shift = IF k \in Modifiers THEN ~b ELSE shift
  BY DEF Reads, Now
<1>5. r.first = (b /\ ~first /\ k = KEY_RETURN)
  BY DEF Reads, Now
<1>6. r.str = IF b /\ ~first /\ k \in Characters THEN Append(str, Modified(k, shift))
              ELSE IF b /\ ~first /\ k = KEY_BACKSPACE /\ str # <<>> THEN Erase(str)
              ELSE IF b /\ ~first /\ k = KEY_RETURN THEN <<>> ELSE str
  BY DEF Reads, Now
<1>7. r.results = IF b /\ ~first /\ k = KEY_RETURN THEN Append(results, str) ELSE results
  BY SMTT(30) DEF Reads, Now
<1>8. r = [shift |-> r.shift, first |-> r.first, str |-> r.str, results |-> r.results]
  BY DEF Reads
<1>9. first' = r.first /\ str' = r.str /\ results' = r.results
  <2> HIDE DEF k, b, r
  <2>1. CASE SkipFirst
    <3>1. first /\ first' = FALSE /\ UNCHANGED <<str, results>>
      BY <2>1 DEF SkipFirst
    <3>2. QED
      BY <1>5, <1>6, <1>7, <3>1, Zenon
  <2>2. CASE ReadReturn
    <3>1. ~first /\ Char = 13 /\ first' = TRUE /\ str' = <<>> /\ results' = Append(results, str)
      BY <2>2 DEF ReadReturn, ReturnString
    <3>2. b /\ k = KEY_RETURN
      BY <1>2, <3>1, KeysApart DEF CarefulKeys
    <3>3. k \notin Characters /\ k # KEY_BACKSPACE
      BY <3>2, KeysApart
    <3>4. QED
      BY <1>5, <1>6, <1>7, <3>1, <3>2, <3>3, Zenon
  <2>3. CASE ReadChar
    <3>1. /\ first = FALSE /\ Char # 13 /\ first' = FALSE /\ results' = results
          /\ str' = CASE Char = 8 -> IF i > 0 THEN Erase(str) ELSE str
                      [] Char = 0 -> str
                      [] OTHER -> Append(str, Char)
      BY <2>3 DEF ReadChar, TypeOK
    <3>2. i > 0 <=> str # <<>>
      BY EmptySeq, LenProperties DEF TypeOK, Text, i
    <3>3. ~ (b /\ k = KEY_RETURN)
      BY <1>2, <3>1
    <3>4. first' = r.first /\ results' = r.results
      BY <1>5, <1>7, <3>1, <3>3, Zenon
    <3>5. CASE b /\ k \in Characters
      <4>1. str' = Append(str, Char) /\ Char = Modified(k, shift)
        BY <1>2, <3>1, <3>5
      <4>2. QED
        BY <1>6, <3>1, <3>4, <3>5, <4>1
    <3>6. CASE b /\ k = KEY_BACKSPACE
      <4>1. k \notin Characters
        BY <3>6, KeysApart
      <4>2. QED
        BY <1>2, <1>6, <3>1, <3>2, <3>3, <3>4, <3>6, <4>1
    <3>7. CASE ~b \/ k \in Modifiers \cup {KEY_TAB}
      <4>1. ~ (b /\ k \in Characters) /\ ~ (b /\ k = KEY_BACKSPACE)
        BY <3>7, KeysApart
      <4>2. Char = 0
        BY <1>2, <3>7
      <4>3. str' = str
        BY <3>1, <4>2
      <4>4. QED
        BY <1>6, <3>3, <3>4, <4>1, <4>3
    <3>8. QED
      BY <1>2, <3>3, <3>4, <3>5, <3>6, <3>7, KeysApart DEF CarefulKeys
  <2>4. QED
    BY <2>1, <2>2, <2>3
<1>10. Now' = [shift |-> r.shift, first |-> r.first, str |-> r.str, results |-> r.results]
  BY <1>3, <1>4, <1>9 DEF Now
<1>11. QED
  BY <1>1, <1>3, <1>8, <1>10

\* The driver is in step at the start.
LEMMA InitInStep == Init => InStep
<1> SUFFICES ASSUME Init, Careful PROVE ~capslock /\ ~capsOn /\ OneKey /\ Ahead
  BY DEF InStep
<1>1. ~capslock /\ ~capsOn
  BY DEF Init
<1>2. OneKey
  BY DEF Init, OneKey
<1>3. Ahead
  <2>1. Now \in DriverStates /\ Now.str = <<>> /\ Now.results = <<>> /\ Now.shift = FALSE /\ Now.first = TRUE
    BY EmptySeq, Zenon DEF Init, Now, DriverStates, Text
  <2>2. Len(<<>>) = 0
    OBVIOUS
  <2>3. ASSUME NEW s \in DriverStates, s.str = <<>>, s.results = <<>>, s.shift = FALSE
        PROVE  Fits(s, Prompts) /\ Heard(s, lines) /\ CaughtUp(s, line, lines, down)
    <3>1. Heard(s, lines)
      BY <2>3 DEF Heard, Init
    <3>2. CaughtUp(s, line, lines, down)
      BY <2>3 DEF CaughtUp, Init
    <3>3. Fits(s, Prompts)
      <4>1. Len(Prompts) > 0 => Prompts[1] \in Prompt
        BY SessionFacts, ElementOfSeq, LenProperties DEF Init
      <4>2. Len(Prompts) > 0 => Prompts[1].size > 0
        BY <4>1 DEF Prompt
      <4>3. QED
        BY <2>2, <2>3, <4>2 DEF Fits
    <3>4. QED
      BY <3>1, <3>2, <3>3
  <2>4. Fits(Now, Prompts) /\ Heard(Now, lines) /\ CaughtUp(Now, line, lines, down)
    BY <2>1, <2>3, Zenon
  <2>5. CASE queue = <<>>
    <3> DEFINE st == [j \in 0 .. 0 |-> Now]
    <3>1. Through(st, queue)
      BY <2>1, <2>5 DEF Through
    <3>2. Len(queue) = 0 /\ st[0] = Now /\ \A j \in 0 .. 0 : j = 0
      BY <2>5
    <3> HIDE DEF st
    <3>3. Follows(st, Now, queue, Prompts, line, lines, down)
      BY <2>4, <3>1, <3>2, Zenon DEF Follows
    <3>4. QED
      BY <3>3 DEF Ahead, Leads
  <2>6. CASE queue = <<<<KEY_RETURN, TRUE>>>>
    <3> DEFINE c == <<KEY_RETURN, TRUE>>
               s == Reads(Now, c)
    <3>1. Len(queue) = 1 /\ queue[1] = c
      BY <2>6, Zenon
    <3>2. s \in DriverStates
      <4>1. KEY_RETURN \in Nat /\ TRUE \in BOOLEAN
        BY DEF KEY_RETURN
      <4>2. c \in Nat \X BOOLEAN
        BY <4>1, Zenon
      <4>3. QED
        BY <2>1, <4>2, ReadsType
    <3>3. s.str = <<>> /\ s.results = <<>> /\ s.shift = FALSE
      BY <2>1 DEF Reads
    <3> HIDE DEF c, s
    <3> DEFINE st == [j \in 0 .. 1 |-> IF j = 0 THEN Now ELSE s]
    <3>4. st \in [0 .. 1 -> DriverStates] /\ st[0] = Now /\ st[1] = s
      BY <2>1, <3>2
    <3> HIDE DEF st
    <3>5. Through(st, queue)
      BY <3>1, <3>4 DEF Through, s
    <3>6. Follows(st, Now, queue, Prompts, line, lines, down)
      <4>1. Fits(s, Prompts) /\ Heard(s, lines) /\ CaughtUp(s, line, lines, down)
        BY <2>3, <3>2, <3>3, Zenon
      <4>2. \A j \in 0 .. Len(queue) : j = 0 \/ j = 1
        BY <3>1
      <4>3. QED
        BY <2>4, <3>1, <3>4, <3>5, <4>1, <4>2, Zenon DEF Follows
    <3>7. QED
      BY <3>6 DEF Ahead, Leads
  <2>7. QED
    BY <2>5, <2>6, Zenon DEF Init
<1>4. QED
  BY <1>1, <1>2, <1>3

\* A code that waits is read.
LEMMA LeadsTail ==
  ASSUME NEW C, NEW q \in Seq(C), q # <<>>, NEW s, NEW p, NEW w, NEW l, NEW d,
         Leads(s, q, p, w, l, d)
  PROVE  Leads(Reads(s, Head(q)), Tail(q), p, w, l, d)
<1>1. PICK st : Follows(st, s, q, p, w, l, d)
  BY DEF Leads
<1> DEFINE r == [j \in 0 .. Len(Tail(q)) |-> st[j + 1]]
<1>2. /\ Through(r, Tail(q))
      /\ r[0] = Reads(st[0], Head(q))
      /\ r[Len(Tail(q))] = st[Len(q)]
      /\ \A j \in 0 .. Len(Tail(q)) : j + 1 \in 0 .. Len(q) /\ r[j] = st[j + 1]
  BY <1>1, ThroughTail DEF Follows
<1> HIDE DEF r
<1>3. Follows(r, Reads(s, Head(q)), Tail(q), p, w, l, d)
  BY <1>1, <1>2 DEF Follows
<1>4. QED
  BY <1>3 DEF Leads

\* A code is added, and perhaps a line is completed.
LEMMA LeadsAppend ==
  ASSUME NEW C, NEW q \in Seq(C), NEW c \in C, NEW s, NEW p, NEW st, NEW w, NEW l, NEW d,
         NEW w2, NEW l2, NEW d2,
         Follows(st, s, q, p, w, l, d),
         Reads(st[Len(q)], c) \in DriverStates,
         Fits(Reads(st[Len(q)], c), p), Heard(Reads(st[Len(q)], c), l2),
         CaughtUp(Reads(st[Len(q)], c), w2, l2, d2),
         \A j \in 0 .. Len(q) : Heard(st[j], l2)
  PROVE  Leads(s, Append(q, c), p, w2, l2, d2)
<1> DEFINE z == Reads(st[Len(q)], c)
           r == [j \in 0 .. Len(q) + 1 |-> IF j <= Len(q) THEN st[j] ELSE z]
<1>1. Len(q) \in Nat
  BY LenProperties
<1>2. /\ Through(r, Append(q, c))
      /\ Len(Append(q, c)) = Len(q) + 1
      /\ r[Len(q) + 1] = z
      /\ \A j \in 0 .. Len(q) : r[j] = st[j]
  BY ThroughAppend, SMTT(30) DEF Follows
<1> HIDE DEF r, z
<1>3. ASSUME NEW j \in 0 .. Len(q) + 1 PROVE Fits(r[j], p) /\ Heard(r[j], l2)
  <2>1. CASE j = Len(q) + 1
    BY <1>2, <2>1 DEF z
  <2>2. CASE j \in 0 .. Len(q)
    BY <1>2, <2>2 DEF Follows
  <2>3. QED
    BY <1>1, <2>1, <2>2, SMTT(30)
<1>4. r[0] = s
  BY <1>1, <1>2, SMTT(30) DEF Follows
<1>5. CaughtUp(r[Len(q) + 1], w2, l2, d2)
  BY <1>2 DEF z
<1>6. Follows(r, s, Append(q, c), p, w2, l2, d2)
  BY <1>2, <1>3, <1>4, <1>5 DEF Follows
<1>7. QED
  BY <1>6 DEF Leads

\* It stays in step when it reads a code.
LEMMA DriverInStep ==
  ASSUME TypeOK, Careful, ~capslock, Ahead, SkipFirst \/ ReadChar \/ ReadReturn
  PROVE  ~capslock' /\ Ahead'
<1>1. Now' = Reads(Now, Head(queue)) /\ ~capslock' /\ queue # <<>> /\ queue' = Tail(queue)
  BY DriverReads
<1>2. UNCHANGED <<session, down, line, lines>>
  BY DEF SkipFirst, ReadChar, ReadReturn, user
<1>3. queue \in Seq(Codes)
  BY DEF TypeOK
<1>4. Leads(Reads(Now, Head(queue)), Tail(queue), Prompts, line, lines, down)
  BY <1>1, <1>3, LeadsTail DEF Ahead
<1>5. Prompts' = Prompts
  BY <1>2 DEF Prompts
<1>6. Leads(Now', queue', Prompts', line', lines', down')
  BY <1>1, <1>2, <1>4, <1>5, Zenon
<1>7. QED
  BY <1>1, <1>6 DEF Ahead

\* The last state on the way, and what is known of it.
LEMMA LastState ==
  ASSUME TypeOK, NEW st, Follows(st, Now, queue, Prompts, line, lines, down)
  PROVE  LET s == st[Len(queue)]
         IN  /\ s \in DriverStates /\ s.str = line /\ s.results = lines
             /\ s.shift <=> down \cap Modifiers # {}
             /\ s.first => down \subseteq Modifiers
             /\ Fits(s, Prompts)
<1>1. Len(queue) \in 0 .. Len(queue)
  BY LenProperties DEF TypeOK
<1>2. QED
  BY <1>1 DEF Follows, Through, CaughtUp

\* It stays in step when a key is pressed.
LEMMA PressInStep ==
  ASSUME TypeOK, Careful, ~capslock, ~capsOn, OneKey, Ahead, NEW k \in Keys, Press(k)
  PROVE  ~capsOn' /\ OneKey' /\ Ahead'
<1>0. k \in CarefulKeys /\ k \in Nat
  BY SessionFacts DEF TypeOK, Careful, CarefulKeys
<1>1. ~capsOn'
  <2>1. (k = KEY_CAPSLOCK) = FALSE
    BY <1>0, KeysApart DEF CarefulKeys
  <2>2. capsOn = FALSE
    BY DEF TypeOK
  <2>3. capsOn' = (capsOn # (k = KEY_CAPSLOCK))
    BY DEF Press
  <2>4. QED
    BY <2>1, <2>2, <2>3, Zenon
<1>2. OneKey'
  <2>1. UNCHANGED <<line, lines, session>> /\ down' = down \cup {k} /\ Len(lines) < Len(Prompts)
    BY DEF Press
  <2>2. k \in Modifiers \/ down \subseteq Modifiers
    BY DEF Press, Careful
  <2>3. k \in Characters => Len(line) + 2 <= Prompts[Len(lines) + 1].size
    BY DEF Press, HasRoom, Careful
  <2>4. Modifiers \cap Characters = {}
    BY KeysApart
  <2>5. Prompts' = Prompts
    BY <2>1 DEF Prompts
  <2>6. \A m, l \in down' \ Modifiers : m = l
    BY <2>1, <2>2, Zenon DEF OneKey
  <2>7. down' \cap Characters # {} => Len(line) + 2 <= Prompts[Len(lines) + 1].size
    <3>1. CASE k \in Characters
      BY <2>3, <3>1
    <3>2. CASE k \notin Characters
      BY <2>1, <3>2 DEF OneKey
    <3>3. QED
      BY <3>1, <3>2
  <2>8. QED
    BY <2>1, <2>5, <2>6, <2>7 DEF OneKey
<1>3. Ahead'
  <2> DEFINE c == <<k, FALSE>>
  <2>1. PICK st : Follows(st, Now, queue, Prompts, line, lines, down)
    BY DEF Ahead, Leads
  <2> DEFINE s == st[Len(queue)]
             z == Reads(s, c)
  <2>2. /\ s \in DriverStates /\ s.str = line /\ s.results = lines
        /\ s.shift <=> down \cap Modifiers # {}
        /\ Fits(s, Prompts)
    BY <2>1, LastState
  <2>3. c \in Codes /\ c \in Nat \X BOOLEAN
    BY <1>0, Zenon DEF Codes
  <2>4. z \in DriverStates
    BY <2>2, <2>3, ReadsType
  <2>5. z.str = line /\ z.results = lines /\ z.first = FALSE /\ z.shift = IF k \in Modifiers THEN TRUE ELSE s.shift
    BY <2>2, Zenon DEF Reads
  <2> HIDE DEF z, s
  <2>6. CaughtUp(z, line, lines, down \cup {k})
    BY <2>2, <2>5 DEF CaughtUp
  <2>7. Fits(z, Prompts)
    BY <2>2, <2>5 DEF Fits
  <2>8. Heard(z, lines)
    BY <2>5, LenProperties DEF Heard, TypeOK
  <2>9. \A j \in 0 .. Len(queue) : Heard(st[j], lines)
    BY <2>1, SMTT(30) DEF Follows
  <2>10. Leads(Now, Append(queue, c), Prompts, line, lines, down \cup {k})
    <3>1. queue \in Seq(Codes)
      BY DEF TypeOK
    <3>2. QED
      BY <2>1, <2>3, <2>4, <2>6, <2>7, <2>8, <2>9, <3>1, LeadsAppend DEF z, s
  <2>11. /\ Now' = Now /\ queue' = Append(queue, c) /\ Prompts' = Prompts
         /\ line' = line /\ lines' = lines /\ down' = down \cup {k}
    BY DEF Press, Now, Prompts
  <2>12. QED
    BY <2>10, <2>11, Zenon DEF Ahead
<1>4. QED
  BY <1>1, <1>2, <1>3

\* It stays in step when a key is released.
LEMMA ReleaseInStep ==
  ASSUME TypeOK, Careful, ~capslock, ~capsOn, OneKey, Ahead, NEW k \in Keys, Release(k)
  PROVE  OneKey' /\ Ahead'
<1>0. k \in CarefulKeys /\ k \in Nat
  BY SessionFacts DEF TypeOK, Careful, CarefulKeys
<1>1. /\ k \in down /\ down' = down \ {k} /\ session' = session
      /\ line' = IF k \in Characters THEN Append(line, Meant(k))
                 ELSE IF k = KEY_BACKSPACE /\ line # <<>> THEN Erase(line)
                 ELSE IF k = KEY_RETURN THEN <<>> ELSE line
      /\ lines' = IF k = KEY_RETURN THEN Append(lines, line) ELSE lines
  <2>1. k \in Characters => k # KEY_BACKSPACE /\ k # KEY_RETURN
    BY KeysApart
  <2>2. KEY_BACKSPACE # KEY_RETURN
    BY KeysApart
  <2>3. QED
    BY <2>1, <2>2 DEF Release
<1>p. Prompts' = Prompts
  BY <1>1 DEF Prompts
<1>m. Modifiers \cap Characters = {} /\ KEY_RETURN \notin Modifiers /\ KEY_BACKSPACE \notin Modifiers
  BY KeysApart
<1>2. k \notin Modifiers => down' \subseteq Modifiers
  BY <1>1, Zenon DEF OneKey
<1>3. k \in Modifiers => line' = line /\ lines' = lines
  BY <1>1, <1>m
<1>4. OneKey'
  <2>1. CASE k \in Modifiers
    BY <1>1, <1>3, <1>p, <2>1 DEF OneKey
  <2>2. CASE k \notin Modifiers
    <3>1. down' \cap Characters = {} /\ down' \ Modifiers = {}
      BY <1>2, <1>m, <2>2
    <3>2. QED
      BY <1>2, <2>2, <3>1 DEF OneKey
  <2>3. QED
    BY <2>1, <2>2
<1>5. Ahead'
  <2> DEFINE c == <<k, TRUE>>
  <2>1. PICK st : Follows(st, Now, queue, Prompts, line, lines, down)
    BY DEF Ahead, Leads
  <2> DEFINE s == st[Len(queue)]
             z == Reads(s, c)
  <2>2. /\ s \in DriverStates /\ s.str = line /\ s.results = lines
        /\ s.shift <=> down \cap Modifiers # {}
        /\ s.first => down \subseteq Modifiers
        /\ Fits(s, Prompts)
    BY <2>1, LastState
  <2>3. c \in Codes /\ c \in Nat \X BOOLEAN
    BY <1>0, Zenon DEF Codes
  <2>4. z \in DriverStates
    BY <2>2, <2>3, ReadsType
  <2>5. z.shift = (IF k \in Modifiers THEN FALSE ELSE s.shift) /\ z.first = (~s.first /\ k = KEY_RETURN)
    BY ZenonT(60) DEF Reads
  <2>6. /\ z.str = IF ~s.first /\ k \in Characters THEN Append(s.str, Modified(k, s.shift))
                   ELSE IF ~s.first /\ k = KEY_BACKSPACE /\ s.str # <<>> THEN Erase(s.str)
                   ELSE IF ~s.first /\ k = KEY_RETURN THEN <<>> ELSE s.str
        /\ z.results = IF ~s.first /\ k = KEY_RETURN THEN Append(s.results, s.str) ELSE s.results
    BY DEF Reads
  <2> HIDE DEF z, s
  <2>7. s.first => k \in Modifiers
    BY <1>1, <2>2
  <2>8. k \in Characters => Meant(k) = Modified(k, s.shift)
    <3>1. SUFFICES ASSUME k \in Characters PROVE Meant(k) = Modified(k, s.shift)
      OBVIOUS
    <3>2. CASE down \cap Modifiers = {}
      <4>1. s.shift = FALSE
        BY <2>2, <3>2 DEF DriverStates
      <4>2. QED
        BY <3>2, <4>1 DEF Meant, Modified
    <3>3. CASE down \cap Modifiers # {}
      <4>1. s.shift = TRUE
        BY <2>2, <3>3 DEF DriverStates
      <4>2. k \notin MisShifted
        BY <3>3 DEF Careful, TypeOK
      <4>3. Modified(k, TRUE) = Legend(k)
        BY <3>1, <4>2, ModifiedLegend
      <4>4. QED
        BY <3>3, <4>1, <4>3 DEF Meant
    <3>4. QED
      BY <3>2, <3>3
  <2>9. z.str = line' /\ z.results = lines'
    <3>1. CASE s.first
      BY <1>3, <2>2, <2>6, <2>7, <3>1, SMTT(30)
    <3>2. CASE ~s.first
      BY <1>1, <2>2, <2>6, <2>8, <3>2
    <3>3. QED
      BY <3>1, <3>2
  <2>10. CaughtUp(z, line', lines', down')
    <3>1. z.shift <=> down' \cap Modifiers # {}
      <4>1. CASE k \in Modifiers
        <5>1. \A l \in down \cap Modifiers : l = k
          BY <4>1 DEF Careful, TypeOK
        <5>2. down' \cap Modifiers = {}
          BY <1>1, <5>1
        <5>3. QED
          BY <2>5, <4>1, <5>2
      <4>2. CASE k \notin Modifiers
        <5>1. down' \cap Modifiers = down \cap Modifiers
          BY <1>1, <4>2
        <5>2. QED
          BY <2>2, <2>5, <4>2, <5>1
      <4>3. QED
        BY <4>1, <4>2
    <3>2. z.first => down' \subseteq Modifiers
      BY <1>2, <1>m, <2>5, Zenon
    <3>3. QED
      BY <2>9, <3>1, <3>2 DEF CaughtUp
  <2>11. Fits(z, Prompts)
    <3>1. SUFFICES ASSUME Len(lines') < Len(Prompts) PROVE Len(line') < Prompts[Len(lines') + 1].size
      BY <2>9 DEF Fits
    <3>2. Len(line) \in Nat /\ Len(lines) \in Nat /\ Len(lines') \in Nat
      BY NextType, LenProperties DEF TypeOK, Text, Next
    <3>3. Prompts[Len(lines') + 1] \in Prompt
      BY <3>1, <3>2, SessionFacts, ElementOfSeq, LenProperties DEF TypeOK
    <3>4. Prompts[Len(lines') + 1].size \in Nat \ {0}
      BY <3>3 DEF Prompt
    <3>5. lines' = lines => Len(line) < Prompts[Len(lines') + 1].size
      BY <2>2, <3>1 DEF Fits
    <3>6. CASE k \in Characters
      <4>1. lines' = lines /\ line' = Append(line, Meant(k))
        BY <1>1, <3>6, KeysApart
      <4>2. Len(line') = Len(line) + 1
        <5>1. Meant(k) \in Nat
          BY <3>6, MeantNat
        <5>2. QED
          BY <4>1, <5>1, AppendProperties DEF TypeOK, Text
      <4>3. Len(line) + 2 <= Prompts[Len(lines) + 1].size
        BY <1>1, <3>6 DEF OneKey
      <4>4. QED
        BY <3>2, <3>4, <4>1, <4>2, <4>3
    <3>7. CASE k = KEY_RETURN
      <4>1. line' = <<>>
        BY <1>1, <3>7, KeysApart
      <4>2. Len(line') = 0
        BY <4>1
      <4>3. QED
        BY <3>4, <4>2
    <3>8. CASE k = KEY_BACKSPACE /\ line # <<>>
      <4>1. lines' = lines /\ line' = Erase(line)
        BY <1>1, <3>8, KeysApart
      <4>2. Len(line') = Len(line) - 1
        BY <3>8, <4>1, EraseFacts, SMTT(30) DEF TypeOK, Text
      <4>3. QED
        BY <3>2, <3>4, <3>5, <4>1, <4>2
    <3>9. CASE k \notin Characters /\ k # KEY_RETURN /\ ~ (k = KEY_BACKSPACE /\ line # <<>>)
      BY <1>1, <3>5, <3>9
    <3>10. QED
      BY <3>6, <3>7, <3>8, <3>9, SMTT(30)
  <2>12. Heard(z, lines')
    BY <2>9, NextType, LenProperties DEF Heard, TypeOK, Next
  <2>13. ASSUME NEW j \in 0 .. Len(queue) PROVE Heard(st[j], lines')
    <3>1. Heard(st[j], lines) /\ st[j] \in DriverStates
      BY <2>1 DEF Follows, Through
    <3>2. CASE lines' = lines
      BY <3>1, <3>2
    <3>3. CASE lines' = Append(lines, line)
      <4>1. Len(lines) \in Nat /\ Len(lines') = Len(lines) + 1 /\ \A n \in 1 .. Len(lines) : lines'[n] = lines[n]
        BY <3>3, AppendProperties, LenProperties DEF TypeOK
      <4>2. Len(st[j].results) \in Nat
        BY <3>1, LenProperties, SMTT(30) DEF DriverStates
      <4>3. QED
        BY <3>1, <4>1, <4>2 DEF Heard
    <3>4. QED
      BY <1>1, <3>2, <3>3
  <2>14. Leads(Now, Append(queue, c), Prompts, line', lines', down')
    <3>1. queue \in Seq(Codes)
      BY DEF TypeOK
    <3>2. QED
      BY <2>1, <2>3, <2>4, <2>10, <2>11, <2>12, <2>13, <3>1, LeadsAppend DEF z, s
  <2>15. Now' = Now /\ queue' = Append(queue, c)
    BY SMTT(30) DEF Release, Now
  <2>16. QED
    BY <1>p, <2>14, <2>15, Zenon DEF Ahead
<1>6. QED
  BY <1>4, <1>5, SMTT(30)

\* A careful user fills no line, so that no call returns because of its size.
LEMMA NeverFull ==
  ASSUME TypeOK, Ahead
  PROVE  ~Full
<1>1. PICK st : Follows(st, Now, queue, Prompts, line, lines, down)
  BY DEF Ahead, Leads
<1>2. Fits(Now, Prompts)
  BY <1>1, LenProperties DEF Follows, TypeOK
<1>3. call <= Len(Prompts) => Len(str) < Prompts[call].size
  <2>1. Len(results) \in Nat /\ Len(Prompts) \in Nat /\ call = Len(results) + 1
    BY SessionFacts, LenProperties DEF TypeOK
  <2>2. Now.str = str /\ Now.results = results
    BY DEF Now
  <2>3. QED
    BY <1>2, <2>1, <2>2 DEF Fits
<1>4. call <= Len(Prompts) => Prompts[call].size \in Nat
  <2>1. call <= Len(Prompts) => Prompts[call] \in Prompt
    BY SessionFacts, ElementOfSeq, LenProperties DEF TypeOK
  <2>2. QED
    BY <2>1 DEF Prompt
<1>5. Len(str) \in Nat
  BY LenProperties DEF TypeOK, Text
<1>6. QED
  BY <1>3, <1>4, <1>5 DEF Full, i

\* Being in step is inductive.
LEMMA NextInStep == TypeOK /\ InStep /\ [Next]_vars => InStep'
<1> SUFFICES ASSUME TypeOK, InStep, [Next]_vars, Careful'
             PROVE  ~capslock' /\ ~capsOn' /\ OneKey' /\ Ahead'
  BY DEF InStep
<1>0. session' = session
  BY Zenon DEF Next, vars, user, Press, Release, get_string, SkipFirst, ReadChar, ReadReturn, Full
<1>1. Careful
  BY <1>0 DEF Careful, Keys
<1>2. ~capslock /\ ~capsOn /\ OneKey /\ Ahead
  BY <1>1 DEF InStep
<1>3. ASSUME NEW k \in Keys, Press(k) PROVE ~capslock' /\ ~capsOn' /\ OneKey' /\ Ahead'
  BY <1>1, <1>2, <1>3, PressInStep, Zenon DEF Press
<1>4. ASSUME NEW k \in Keys, Release(k) PROVE ~capslock' /\ ~capsOn' /\ OneKey' /\ Ahead'
  BY <1>1, <1>2, <1>4, ReleaseInStep, Zenon DEF Release
<1>5. CASE SkipFirst \/ ReadChar \/ ReadReturn
  <2>1. UNCHANGED <<session, down, line, lines, capsOn>>
    BY <1>5 DEF SkipFirst, ReadChar, ReadReturn, user
  <2>2. OneKey'
    BY <1>2, <2>1 DEF OneKey, Prompts
  <2>3. QED
    BY <1>1, <1>2, <1>5, <2>1, <2>2, DriverInStep
<1>6. CASE Full
  BY <1>2, <1>6, NeverFull, SMTT(30)
<1>7. CASE UNCHANGED vars
  BY <1>2, <1>7 DEF vars, user, OneKey, Ahead, Now, Prompts
<1>8. QED
  BY <1>3, <1>4, <1>5, <1>6, <1>7 DEF Next, get_string

\* However far a careful user types ahead, the calls of get_string() return the lines
\* they typed: the code that each call throws away is never one that matters, the shift
\* state is the one in which the key was released, no call ends before the Return key, and
\* kybrd_key_to_ascii() gives what stands on the key but for 3, 4 and = under a shift key.
THEOREM CarefulLinesAlwaysDelivered == Spec => []CarefulLinesDelivered
<1>1. TypeOK /\ InStep => CarefulLinesDelivered
  <2> SUFFICES ASSUME TypeOK, InStep, Careful PROVE LinesDelivered
    BY DEF CarefulLinesDelivered
  <2>1. PICK st : Follows(st, Now, queue, Prompts, line, lines, down)
    BY DEF InStep, Ahead, Leads
  <2>2. Heard(Now, lines)
    BY <2>1, LenProperties DEF Follows, TypeOK
  <2>3. DOMAIN results = 1 .. Len(results) /\ Len(results) \in Nat /\ Len(lines) \in Nat
    BY LenProperties DEF TypeOK
  <2>4. QED
    BY <2>2, <2>3 DEF Heard, Now, LinesDelivered
<1>2. TypeOK /\ InStep /\ [Next]_vars => TypeOK' /\ InStep'
  BY NextType, NextInStep
<1>3. Init => TypeOK /\ InStep
  BY InitType, InitInStep
<1>4. QED
  BY <1>1, <1>2, <1>3, PTL DEF Spec
===============================================================================
