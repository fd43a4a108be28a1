---------------------------- MODULE MCPlayEngine ---------------------------
(* PlayEngine on small instances.                                           *)
EXTENDS PlayEngine

File(streams, length, canSeek) ==
  [streams |-> streams, last |-> length, seekable |-> canSeek]

Song == File({"audio"}, 2, TRUE)
Radio == File({"audio"}, 1, FALSE)
Clip == File({"video"}, 2, TRUE)
Film == File(Streams, 1, TRUE)
Kinds == {Song, Radio, Clip, Film}

FromStart == {0, 1}

Left(files, o, r, f) ==
  [files |-> files, opens |-> o, requests |-> r, faults |-> f]
Threads == {Left({Song}, 1, 2, 0), Left({Clip}, 1, 1, 0), Left({Film}, 1, 1, 0),
            Left({Film}, 1, 0, 1), Left({Song, Radio}, 2, 0, 0)}
=============================================================================
