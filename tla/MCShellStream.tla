---------------------------- MODULE MCShellStream ----------------------------
(***************************************************************************)
(* Instances of ShellStream: somebody types, or a program prints and the   *)
(* session may end.                                                        *)
(***************************************************************************)
EXTENDS ShellStream

Typing == (1..MaxTyped) \X {0}
Printing == {0} \X (0..MaxPrinted)

\* The session ends with output in the buffer, or with all of it printed.
AfterTwo == {0} \X (2..MaxPrinted)
TypingOrPrinting == Typing \cup Printing
=============================================================================
