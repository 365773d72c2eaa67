---------------------------- MODULE MCShellRelay ----------------------------
(* Small instances of ShellRelay for TLC. *)
EXTENDS ShellRelay

\* ~~, a tilde that is no escape before Ctrl-C and DEL, ~. after a newline, ~?, and a
\* CR LF in reads that may look like a resize message.
MCScripts == {<<Tilde, Tilde>>, <<Tilde, CtrlC, Delete>>, <<CR, Tilde, Dot>>,
              <<Tilde, Help, 5>>, <<ResizePrefix, CR, LF>>}
=============================================================================
