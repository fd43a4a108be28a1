----------------------------- MODULE PlayStatus -----------------------------
(***************************************************************************)
(* What the users of SimplePlay's engine see of it: the state in SpStatus  *)
(* and the pause flag, as sp_engine_status and sp_engine_pause give them.  *)
(* PlayEngine implements this module; PlayHeadless is written against it.  *)
(***************************************************************************)

VARIABLES
  state,   \* SpStatus.state
  paused   \* SpEngine.paused

vars == <<state, paused>>

States == {"idle", "loading", "playing", "paused", "ended", "error"}

\* The state of a file whose decoding goes on.
Running == IF paused THEN "paused" ELSE "playing"

Init == /\ state = "idle"
        /\ paused = FALSE

Open(p) == /\ state' = "loading"
           /\ paused' = p

Stop == /\ state' = "idle"
        /\ UNCHANGED paused

Pause(p) == /\ paused' = p
            /\ state' = IF state \notin {"playing", "paused"} THEN state
                        ELSE IF p THEN "paused" ELSE "playing"

\* The file was opened.
Begin == /\ state = "loading"
         /\ state' = Running
         /\ UNCHANGED paused

\* A seek or a track change starts a new generation, after an end too.
Restart == /\ state \in {"playing", "paused", "ended", "error"}
           /\ state' = Running
           /\ UNCHANGED paused

Finish == /\ state \in {"playing", "ended", "error"}
          /\ ~paused
          /\ state' = "ended"
          /\ UNCHANGED paused

Fail == /\ state # "idle"
        /\ state' = "error"
        /\ UNCHANGED paused

Next == \/ \E p \in BOOLEAN : Open(p) \/ Pause(p)
        \/ Stop \/ Begin \/ Restart \/ Finish \/ Fail

Spec == Init /\ [][Next]_vars

(* A file is only ever finished by being played: no end from loading, from *)
(* a pause, or of nothing.                                                 *)
StateAgrees == /\ state \in States
               /\ paused \in BOOLEAN
               /\ state = "playing" => ~paused
               /\ state = "paused" => paused
=============================================================================
