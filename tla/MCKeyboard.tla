----------------------------- MODULE MCKeyboard -----------------------------
(***************************************************************************)
(* Sessions for Keyboard, with the strings scaled down: each has the same  *)
(* distance between the size it passes and the buffer behind it as in      *)
(* sable.c (config_str 1 of 2, passphrase 127 of 128, auth_str 64 of 64).  *)
(***************************************************************************)
EXTENDS Keyboard

Prompt(s, b, show, text) == [size |-> s, buffer |-> b, show |-> show, text |-> text]
PassphraseThenAuthdata == <<Prompt(3, 4, TRUE, 2), Prompt(3, 3, FALSE, 1)>>
ConfigThenPassphrase == <<Prompt(1, 2, TRUE, 1), Prompt(3, 4, TRUE, 2)>>
Authdata == <<Prompt(2, 2, FALSE, 1)>>

Session(keys, prompts, press, fills, rollover) ==
  [keys |-> keys, prompts |-> prompts, press |-> press, fills |-> fills,
   rollover |-> rollover]

CarefulOrNot ==
  {Session({53, KEY_RETURN, KEY_BACKSPACE, KEY_LSHIFT}, PassphraseThenAuthdata, 5, FALSE, FALSE),
   Session({101, KEY_RETURN, KEY_RSHIFT, KEY_TAB}, PassphraseThenAuthdata, 5, FALSE, FALSE),
   Session({51, 61, KEY_RETURN}, PassphraseThenAuthdata, 4, FALSE, FALSE),
   Session({101, KEY_RETURN, KEY_RSHIFT, KEY_RALT, KEY_CAPSLOCK}, ConfigThenPassphrase,
           4, TRUE, TRUE)}

WholeAuthdata == {Session({121, KEY_RETURN}, Authdata, 4, TRUE, FALSE)}
=============================================================================
