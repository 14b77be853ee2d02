------------------------------ MODULE Keyboard ------------------------------
(***************************************************************************)
(* The PS/2 keyboard driver of src/keyboard.c and the user who types: the  *)
(* user presses and releases keys while the driver reads scan codes, so    *)
(* that codes wait in the controller when the user types ahead.            *)
(*                                                                         *)
(* SABLE asks several questions in a row (Prompts).  The history variables *)
(* line and lines say what the user has typed for each of them: a line is  *)
(* what was typed up to the Return key, edited with Backspace.  Of the     *)
(* screen there is the last line, on which the user sees what they type.   *)
(*                                                                         *)
(* A session says how the user types:                                      *)
(*   keys      the key codes of the keys that are used                     *)
(*   prompts   the calls of get_string(): a sequence of                    *)
(*             [size, buffer, show, text], the last of which is the number *)
(*             of characters that the question takes on the screen         *)
(*   press     bound on the number of keys pressed                         *)
(*   fills     may a line be as long as the strSize of its prompt?         *)
(*   rollover  may a key be pressed while another is still down?           *)
(***************************************************************************)
EXTENDS Integers, Sequences

CONSTANTS
  Columns,  \* 80, the characters of a line of the screen
  Sessions

\* enum KEYCODE: the ASCII keys are their characters, the others are above them.
KEY_BACKSPACE == 8
KEY_RETURN == 13
KEY_TAB == 16384
KEY_CAPSLOCK == 16385
KEY_LSHIFT == 16386
KEY_RSHIFT == 16390
KEY_RALT == 16392

ASSUME KeyboardAssumption ==
  /\ Columns \in Nat \ {0}
  /\ \A s \in Sessions :
       /\ s.keys \subseteq Nat /\ KEY_RETURN \in s.keys
       /\ s.prompts \in Seq([size : Nat \ {0}, buffer : Nat, show : BOOLEAN, text : 0 .. Columns - 1])
       /\ s.press \in Nat /\ {s.fills, s.rollover} \subseteq BOOLEAN

VARIABLES
  session,    \* how the user types
  down,       \* the keys held down
  capsOn,     \* history: has Caps Lock been pressed an odd number of times?
  presses,    \* the number of keys pressed so far
  queue,      \* the scan codes in the controller: <<key, is it a break code?>>
  line,       \* history: what has been typed since the last Return
  lines,      \* history: the lines completed
  shift, capslock,  \* the static variables of keyboard.c
  call,       \* the call of get_string() in progress
  first,      \* is it at its first getchar()?
  str,        \* the caller's buffer: the characters in str[0] .. str[i - 1]
  results,    \* the strings returned so far
  screen      \* col, the last line, the column of the last store, and history:
              \* has the echo of this call run over the line?

user == <<session, down, capsOn, presses, line, lines>>
vars == <<user, queue, shift, capslock, call, first, str, results, screen>>

Keys == session.keys
Prompts == session.prompts

\* The screen after the text of the k-th question, which starts at the first column.
Asked(k) ==
  LET text == IF k <= Len(Prompts) THEN Prompts[k].text ELSE 0
  IN  [col |-> text, row |-> [x \in 0 .. Columns - 1 |-> IF x < text THEN 1 ELSE 0],
       store |-> 0, over |-> FALSE]

\* The Return key of the boot menu may still have to be released.
Init ==
  /\ session \in Sessions
  /\ down = {} /\ capsOn = FALSE /\ presses = 0
  /\ queue \in {<<>>, <<<<KEY_RETURN, TRUE>>>>}
  /\ line = <<>> /\ lines = <<>>
  /\ shift = FALSE /\ capslock = FALSE
  /\ call = 1 /\ first = TRUE /\ str = <<>> /\ results = <<>>
  /\ screen = Asked(1)

-----------------------------------------------------------------------------
(* The user.                                                                 *)

Modifiers == {KEY_LSHIFT, KEY_RSHIFT}

\* The keys that stand for a character: the letters, the digits, space, and
\* ' , - . / ; = [ \ ] `
Letters == 97 .. 122
Characters == Letters \cup (48 .. 57) \cup {32, 39, 44, 45, 46, 47, 59, 61, 91, 92, 93, 96}
Upper(c) == c - 32

\* The upper character on the key of a character: !@#$%^&*() and <>?:"{}|~_+
Legend(c) ==
  IF c \in Letters THEN Upper(c) ELSE
  CASE c = 49 -> 33 [] c = 50 -> 64 [] c = 51 -> 35 [] c = 52 -> 36 [] c = 53 -> 37
    [] c = 54 -> 94 [] c = 55 -> 38 [] c = 56 -> 42 [] c = 57 -> 40 [] c = 48 -> 41
    [] c = 44 -> 60 [] c = 46 -> 62 [] c = 47 -> 63 [] c = 59 -> 58 [] c = 39 -> 34
    [] c = 91 -> 123 [] c = 93 -> 125 [] c = 92 -> 124 [] c = 96 -> 126
    [] c = 45 -> 95 [] c = 61 -> 43
    [] OTHER -> c

\* What Backspace leaves of what has been typed.
Erase(s) == SubSeq(s, 1, Len(s) - 1)

\* What a key means to the user who releases it: its upper character while a shift
\* key is held, and letters the other way round under Caps Lock.
Meant(k) ==
  IF (down \cap Modifiers # {}) # (capsOn /\ k \in Letters) THEN Legend(k) ELSE k

HasRoom == Len(line) + (IF session.fills THEN 1 ELSE 2) <= Prompts[Len(lines) + 1].size

Press(k) ==
  /\ presses < session.press /\ Len(lines) < Len(Prompts)
  /\ k \notin down
  /\ session.rollover \/ k \in Modifiers \/ down \subseteq Modifiers
  /\ k \in Characters => HasRoom
  /\ down' = down \cup {k} /\ presses' = presses + 1
  /\ capsOn' = (capsOn # (k = KEY_CAPSLOCK))
  /\ queue' = Append(queue, <<k, FALSE>>)
  /\ UNCHANGED <<session, line, lines, shift, capslock, call, first, str, results, screen>>

Release(k) ==
  /\ k \in down
  /\ down' = down \ {k}
  /\ queue' = Append(queue, <<k, TRUE>>)
  /\ line' = CASE k \in Characters -> Append(line, Meant(k))
               [] k = KEY_BACKSPACE /\ line # <<>> -> Erase(line)
               [] k = KEY_RETURN -> <<>>
               [] OTHER -> line
  /\ lines' = IF k = KEY_RETURN THEN Append(lines, line) ELSE lines
  /\ UNCHANGED <<session, capsOn, presses, shift, capslock, call, first, str, results, screen>>

-----------------------------------------------------------------------------
(* The driver.                                                               *)

\* The switch statements for a shift key without Caps Lock.  Both 1 and 3 give an
\* exclamation mark, 4 gives #, and what KEY_EQUAL should become is done for KEY_PLUS.
Shifted(c) ==
  CASE c = 48 -> 41 [] c = 49 -> 33 [] c = 50 -> 64 [] c = 51 -> 33 [] c = 52 -> 35
    [] c = 53 -> 37 [] c = 54 -> 94 [] c = 55 -> 38 [] c = 56 -> 42 [] c = 57 -> 40
    [] c = 44 -> 60 [] c = 46 -> 62 [] c = 47 -> 63 [] c = 59 -> 58 [] c = 39 -> 34
    [] c = 91 -> 123 [] c = 93 -> 125 [] c = 96 -> 126 [] c = 45 -> 95
    [] c = 43 -> 61 [] c = 92 -> 124
    [] OTHER -> c

\* The key code is cut to a byte before it is tested for being ASCII.
kybrd_key_to_ascii(code) ==
  LET key == code % 256
  IN  IF key > 127 THEN 0
      ELSE IF key \in Letters THEN (IF shift \/ capslock THEN Upper(key) ELSE key)
      ELSE IF shift /\ ~capslock THEN Shifted(key) ELSE key

\* The character that getchar() returns for the scan code at the head of queue.
Char ==
  LET k == Head(queue)[1]
  IN  IF Head(queue)[2] /\ k \notin Modifiers THEN kybrd_key_to_ascii(k) ELSE 0

ShiftStays ==
  LET k == Head(queue)[1]  break == Head(queue)[2]
  IN  /\ shift' = IF k \in Modifiers /\ ~break THEN TRUE ELSE shift
      /\ capslock' = IF k = KEY_CAPSLOCK /\ ~break THEN ~capslock ELSE capslock

\* What getchar() does to the driver's state.
Modify ==
  LET k == Head(queue)[1]  break == Head(queue)[2]
  IN  /\ shift' = IF k \in Modifiers THEN ~break ELSE shift
      /\ capslock' = IF k = KEY_CAPSLOCK /\ ~break THEN ~capslock ELSE capslock

getchar == queue # <<>> /\ queue' = Tail(queue) /\ Modify

i == Len(str)

\* out_char() for any character but the end of the line.  col-- wraps at 0, and then
\* the store goes to the end of the line above: column -1.
WrapLate(s, c) ==
  LET place == IF c = 8 THEN s.col - 1 ELSE s.col
      col == IF c = 8 THEN s.col - 1 ELSE s.col + 1
      full == col < 0 \/ col > Columns
  IN  [col |-> IF full THEN 0 ELSE col,
       row |-> [x \in DOMAIN s.row |->
                  IF full THEN 0 ELSE IF x = place THEN (IF c = 8 THEN 0 ELSE c) ELSE s.row[x]],
       store |-> place, over |-> s.over \/ full]

out_char(s, c) ==
  LET place == IF c = 8 THEN s.col - 1 ELSE s.col
      col == IF c = 8 THEN s.col - 1 ELSE s.col + 1
      full == col < 0 \/ col >= Columns
  IN  [col |-> IF full THEN 0 ELSE col,
       row |-> [x \in DOMAIN s.row |->
                  IF full THEN 0 ELSE IF x = place THEN (IF c = 8 THEN 0 ELSE c) ELSE s.row[x]],
       store |-> place, over |-> s.over \/ full]

Echo(c) ==
  screen' = IF Prompts[call].show /\ c # 0 /\ (c = 8 => i > 0) THEN out_char(screen, c) ELSE screen

\* str[i] = '\0', the end of the line, and on to the next prompt.
ReturnString(s) ==
  /\ screen' = Asked(call + 1)
  /\ results' = Append(results, s)
  /\ call' = call + 1 /\ first' = TRUE /\ str' = <<>>

SkipToReturn ==
  /\ call <= Len(Prompts) /\ first
  /\ getchar
  /\ first' = (Char # 13)
  /\ UNCHANGED <<user, call, str, results, screen>>

\* The character read by the getchar() in front of the loop is not looked at.
SkipFirst ==
  /\ call <= Len(Prompts) /\ first
  /\ getchar
  /\ first' = FALSE
  /\ UNCHANGED <<user, call, str, results, screen>>

\* One turn of the loop; str[i] = '\0' follows it when i has reached strSize.
ReadChar ==
  /\ call <= Len(Prompts) /\ ~first /\ i < Prompts[call].size
  /\ getchar
  /\ Char # 13
  /\ str' = CASE Char = 8 -> IF i > 0 THEN Erase(str) ELSE str
              [] Char = 0 -> str
              [] OTHER -> Append(str, Char)
  /\ Echo(Char)
  /\ UNCHANGED <<user, call, first, results>>

ReadReturn ==
  /\ call <= Len(Prompts) /\ ~first /\ i < Prompts[call].size
  /\ getchar
  /\ Char = 13
  /\ ReturnString(str)
  /\ UNCHANGED user

Full ==
  /\ call <= Len(Prompts) /\ ~first /\ i = Prompts[call].size
  /\ ReturnString(str)
  /\ UNCHANGED <<user, queue, shift, capslock>>

get_string == SkipFirst \/ ReadChar \/ ReadReturn \/ Full

Next ==
  \/ \E k \in Keys : Press(k) \/ Release(k)
  \/ get_string

Spec == Init /\ [][Next]_vars

\* SABLE polls the controller, and has nothing else to do.
FairSpec == Spec /\ WF_vars(get_string)

-----------------------------------------------------------------------------
(* Properties.                                                               *)

\* The k-th call of get_string() returns the k-th line that the user typed,
\* although characters are taken when keys are released, the shift state is the
\* driver's own, and one scan code is thrown away at the start of each call.
LinesDelivered ==
  \A k \in DOMAIN results : k <= Len(lines) /\ results[k] = lines[k]

\* The user neither fills a line nor holds two keys but one shift key, and uses no key
\* outside the characters whose code kybrd_key_to_ascii() takes for one, such as Caps
\* Lock or Alt.  With a shift key they do without 3, 4 and =, which it gets wrong.
MisShifted == {51, 52, 61}
Careful ==
  /\ ~session.fills /\ ~session.rollover
  /\ Keys \subseteq Characters \cup Modifiers \cup {KEY_RETURN, KEY_BACKSPACE, KEY_TAB}
  /\ \A k, l \in Keys \cap Modifiers : k = l
  /\ Keys \cap Modifiers # {} => Keys \cap MisShifted = {}

\* The lines of a careful user are delivered, however far they type ahead: letters,
\* digits and punctuation with and without a shift key, and erased with Backspace.
CarefulLinesDelivered == Careful => LinesDelivered

\* The terminating null character, and every other store to str[i], falls into
\* the buffer that the caller of get_string() has provided.
StoresInBuffer ==
  call <= Len(Prompts) => i < Prompts[call].buffer

\* The echo stores to the screen, on its last line or at the end of the line above;
\* until it has run over the line, the line shows the question and what has been typed
\* and not erased, or the question alone where nothing is to be shown.
EchoShown ==
  /\ screen.store \in -1 .. Columns - 1 /\ screen.col \in 0 .. Columns - 1
  /\ call <= Len(Prompts) /\ ~screen.over =>
       LET text == Prompts[call].text
           shown == IF Prompts[call].show THEN str ELSE <<>>
       IN  screen.row = [x \in 0 .. Columns - 1 |->
             IF x < text THEN 1 ELSE IF x < text + Len(shown) THEN shown[x - text + 1] ELSE 0]

\* Every line that the user completes is eventually returned by a call.
LinesReturned ==
  \A k \in 1 .. 2 :
    k <= Len(Prompts) /\ Len(lines) >= k ~> Len(results) >= k

==============================================================================
