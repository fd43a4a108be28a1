--------------------------- MODULE MCPlayHeadless --------------------------
(* PlayHeadless on small instances.                                         *)
EXTENDS PlayHeadless

Run(idle, repeat, end, files) ==
  [idle |-> idle, repeat |-> repeat, end |-> end, paused |-> FALSE,
   files |-> files]

Runs == {Run(TRUE, "no", FALSE, <<>>), Run(FALSE, "no", TRUE, <<"a", "b">>),
         Run(FALSE, "playlist", FALSE, <<"a", "b">>),
         Run(TRUE, "file", TRUE, <<"a">>), Run(TRUE, "no", TRUE, <<"b">>),
         Run(FALSE, "no", FALSE, <<"a", "b", "b", "a">>)}
=============================================================================
