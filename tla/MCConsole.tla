------------------------------ MODULE MCConsole -----------------------------
(* A 3 x 2 screen and a 3-byte line buffer (two characters and the NUL).  *)
(* Strings keep their role, not their text: the shell's help command is   *)
(* "hp" (typed with scancodes 35 and 25); a log message either fills more  *)
(* than a row or carries a line break, as a "{}\n" format does.            *)
EXTENDS Console

MCWelcome  == <<87>>
MCPrompt   == <<62>>
MCHelp     == <<104, 112>>
MCHelpText == <<65>>
MCEditor   == <<69>>
MCSad      == <<58>>
MCBanner   == <<61>>
MCMsgs     == { <<77, 77, 77, 77>>, <<77, NL>> }
\* 'h', 'p', Enter, backspace (0), and Escape, which has no ASCII.
MCKeys     == {35, 25, 28, 14, 1}
====
