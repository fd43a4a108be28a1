---------------------------- MODULE PlayHeadless ----------------------------
(***************************************************************************)
(* The playback service around the engine (simpleplay-headless.c): the     *)
(* playlist, the commands of its clients, the 25 ms tick that notices what *)
(* the engine did since, and the events every client is told.  The engine  *)
(* is PlayStatus, which PlayEngine implements: between two callbacks of    *)
(* the service it may go on by any number of its own steps.                *)
(***************************************************************************)
EXTENDS Naturals, Sequences, FiniteSets

CONSTANTS
  Sources,      \* what a playlist entry names
  Options,      \* the options of the command line
  Room,         \* 4000: entries from which a playlist takes no more
  Commands,     \* bound: commands of the clients
  Faults        \* bound: files that fail

None == "none"

ASSUME SourcesAssumption == None \notin Sources
ASSUME BoundsAssumption == Room \in Nat \ {0} /\ Commands \in Nat /\ Faults \in Nat
ASSUME OptionsAssumption ==
  Options \subseteq [idle : BOOLEAN, repeat : {"no", "file", "playlist"},
                     end : BOOLEAN, paused : BOOLEAN, files : Seq(Sources)]

VARIABLES
  state, paused,  \* the engine
  asked,          \* a seek the engine has not made yet
  past,           \* the position has reached Backend.end
  option,         \* the options of this run: idle and repeat
  playlist, current, filename,   \* Backend, with 0 for no current entry
  loaded, finished,
  clip,           \* Backend.end is set
  up,             \* the main loop runs
  told,           \* the last event sent to the clients
  orderly,        \* history: the events came in an order a client can follow
  resumed,        \* history: the user moved in a file that had been ended
  left            \* what is left of Commands and Faults

engine == <<state, paused, asked, past>>
backend == <<option, playlist, current, filename, loaded, finished, clip, up>>
events == <<told, orderly>>
vars == <<engine, backend, events, resumed, left>>

Status == INSTANCE PlayStatus WITH state <- state, paused <- paused

\* The events that may follow an event.
Follows(a) == CASE a = "nothing" -> {"start-file"}
                [] a = "start-file" -> {"file-loaded", "end-file"}
                [] a = "file-loaded" -> {"end-file"}
                [] a = "end-file" -> {"start-file"}

\* event_send, for the events of one callback.  A file that plays again after
\* its end is left out of the account.
Send(s) ==
  /\ told' = IF s = <<>> THEN told ELSE s[Len(s)]
  /\ orderly' = (orderly /\ \A i \in 1..Len(s) : resumed \/
                   s[i] \in Follows(IF i = 1 THEN told ELSE s[i - 1]))

\* backend_open; what the caller has sent before it comes first.
Open(list, i, over, before) ==
  /\ Status!Open(paused)
  /\ asked' = FALSE /\ past' = FALSE
  /\ filename' = list[i]
  /\ current' = i
  /\ loaded' = FALSE /\ finished' = FALSE
  /\ resumed' = FALSE
  /\ Send(before \o (IF filename # None /\ ~over THEN <<"end-file">> ELSE <<>>)
                 \o <<"start-file">>)

Init ==
  /\ option \in Options
  /\ playlist = option.files
  /\ current = IF playlist = <<>> THEN 0 ELSE 1
  /\ filename = IF playlist = <<>> THEN None ELSE playlist[1]
  /\ state = IF playlist = <<>> THEN "idle" ELSE "loading"
  /\ paused = option.paused
  /\ told = IF playlist = <<>> THEN "nothing" ELSE "start-file"
  /\ asked = FALSE /\ past = FALSE
  /\ loaded = FALSE /\ finished = FALSE
  /\ clip = option.end
  /\ up = TRUE /\ orderly = TRUE /\ resumed = FALSE
  /\ left = [commands |-> Commands, faults |-> Faults]

-----------------------------------------------------------------------------
(* The engine.                                                             *)

Alone == up /\ UNCHANGED <<backend, events>>

Begins == /\ Alone
          /\ Status!Begin
          /\ UNCHANGED <<asked, past, resumed, left>>

\* A seek is made; the file may have ended, and may have been said to have.
Moves == /\ Alone
         /\ asked
         /\ Status!Restart
         /\ asked' = FALSE /\ past' = FALSE
         /\ resumed' = (resumed \/ finished)
         /\ UNCHANGED left

PassesEnd == /\ Alone
             /\ state = "playing" /\ clip /\ ~past
             /\ past' = TRUE
             /\ UNCHANGED <<state, paused, asked, resumed, left>>

Finishes == /\ Alone
            /\ state = "playing"
            /\ Status!Finish
            /\ UNCHANGED <<asked, past, resumed, left>>

Fails == /\ Alone
         /\ state \in {"loading", "playing"}
         /\ Status!Fail
         /\ left.faults > 0
         /\ left' = [left EXCEPT !.faults = @ - 1]
         /\ UNCHANGED <<asked, past, resumed>>

-----------------------------------------------------------------------------
(* command_run.                                                            *)

Command == /\ up
           /\ left.commands > 0
           /\ left' = [left EXCEPT !.commands = @ - 1]

\* Mutant: a playlist grows without end.
LoadFileUnbounded(f, mode) ==
  LET list == IF mode = "replace" THEN <<f>> ELSE Append(playlist, f)
      opens == mode # "append" \/ state = "idle" IN
  /\ Command
  /\ playlist' = list
  /\ clip' = (clip /\ mode # "replace")
  /\ IF opens THEN Open(list, Len(list), finished, <<>>)
              ELSE UNCHANGED <<engine, events, resumed, current, filename,
                               loaded, finished>>
  /\ UNCHANGED <<option, up>>

LoadFile(f, mode) ==
  LET list == IF mode = "replace" THEN <<f>> ELSE Append(playlist, f)
      opens == mode # "append" \/ state = "idle" IN
  /\ Command
  /\ Len(list) <= Room
  /\ playlist' = list
  /\ clip' = (clip /\ mode # "replace")
  /\ IF opens THEN Open(list, Len(list), finished, <<>>)
              ELSE UNCHANGED <<engine, events, resumed, current, filename,
                               loaded, finished>>
  /\ UNCHANGED <<option, up>>

\* Mutant: the clients are told, the engine is not.
StopFileOnPaper ==
  /\ Command
  /\ Send(IF filename # None /\ ~finished THEN <<"end-file">> ELSE <<>>)
  /\ finished' = TRUE
  /\ UNCHANGED <<engine, option, playlist, current, filename, loaded, clip, up,
                 resumed>>

StopFile ==
  /\ Command
  /\ Send(IF filename # None /\ ~finished THEN <<"end-file">> ELSE <<>>)
  /\ finished' = TRUE
  /\ Status!Stop
  /\ asked' = FALSE /\ past' = FALSE
  /\ UNCHANGED <<option, playlist, current, filename, loaded, clip, up, resumed>>

\* playlist-next, playlist-prev; playlist-pos leaves --end in force.
GoTo(i, keepClip) ==
  /\ Command
  /\ keepClip \/ i \in {current - 1, current + 1}
  /\ Open(playlist, i, finished, <<>>)
  /\ clip' = (clip /\ keepClip)
  /\ UNCHANGED <<option, playlist, up>>

\* Mutant: the position is left where it was.
ClearPlaylistOnly ==
  /\ Command
  /\ playlist' = IF filename = None THEN <<>> ELSE <<filename>>
  /\ UNCHANGED <<engine, option, current, filename, loaded, finished, clip, up,
                 events, resumed>>

ClearPlaylist ==
  /\ Command
  /\ playlist' = IF filename = None THEN <<>> ELSE <<filename>>
  /\ current' = IF filename = None THEN 0 ELSE 1
  /\ UNCHANGED <<engine, option, filename, loaded, finished, clip, up, events,
                 resumed>>

PauseFile(p) ==
  /\ Command
  /\ p # paused
  /\ Status!Pause(p)
  /\ UNCHANGED <<asked, past, backend, events, resumed>>

\* sp_engine_seek: the file that ended is still open.
SeekFile ==
  /\ Command
  /\ state \in {"playing", "paused", "ended"}
  /\ asked' = TRUE
  /\ UNCHANGED <<state, paused, past, backend, events, resumed>>

Quit ==
  /\ Command
  /\ up' = FALSE
  /\ UNCHANGED <<engine, option, playlist, current, filename, loaded, finished,
                 clip, events, resumed>>

-----------------------------------------------------------------------------
(* backend_tick.                                                           *)

\* Mutant: a list starts again unasked.
NextEntryAround ==
  LET i == IF option.repeat = "file" THEN current ELSE current + 1 IN
  IF i > Len(playlist) THEN 1 ELSE i

NextEntry ==
  LET i == IF option.repeat = "file" THEN current ELSE current + 1 IN
  IF i > Len(playlist) /\ option.repeat = "playlist" THEN 1 ELSE i

Loads == ~loaded /\ state \in {"playing", "paused"}
Clipped == clip /\ past
\* Mutant: an end is told at every tick.
OverAgain == Clipped \/ state \in {"ended", "error"}

Over == ~finished /\ (Clipped \/ state \in {"ended", "error"})
News == (IF Loads THEN <<"file-loaded">> ELSE <<>>)
        \o (IF Over THEN <<"end-file">> ELSE <<>>)

Tick ==
  /\ up
  /\ Loads \/ Over
  /\ UNCHANGED <<option, playlist, left>>
  /\ IF ~Over
     THEN /\ Send(News)
          /\ loaded' = TRUE
          /\ UNCHANGED <<engine, current, filename, finished, clip, up, resumed>>
     ELSE IF NextEntry \in 1..Len(playlist)
     THEN /\ Open(playlist, NextEntry, TRUE, News)
          /\ clip' = FALSE
          /\ UNCHANGED up
     ELSE /\ Send(News)
          /\ finished' = TRUE
          /\ loaded' = (loaded \/ Loads)
          /\ up' = option.idle
          /\ IF option.idle /\ Clipped
             THEN Status!Stop /\ asked' = FALSE /\ past' = FALSE
             ELSE UNCHANGED engine
          /\ UNCHANGED <<current, filename, clip, resumed>>

-----------------------------------------------------------------------------
EngineNext == Begins \/ Moves \/ PassesEnd \/ Finishes \/ Fails

Next ==
  \/ EngineNext \/ Tick
  \/ \E f \in Sources, mode \in {"replace", "append", "append-play"} :
       LoadFile(f, mode)
  \/ \E i \in DOMAIN playlist, keepClip \in BOOLEAN : GoTo(i, keepClip)
  \/ \E p \in BOOLEAN : PauseFile(p)
  \/ StopFile \/ ClearPlaylist \/ SeekFile \/ Quit

(* Files play on, as PlayEngine's FileEnds says, and the timer fires.       *)
Spec == Init /\ [][Next]_vars /\ WF_vars(EngineNext) /\ WF_vars(Tick)

-----------------------------------------------------------------------------
TypeOK ==
  /\ Status!StateAgrees
  /\ asked \in BOOLEAN /\ past \in BOOLEAN /\ clip \in BOOLEAN
  /\ option \in Options
  /\ playlist \in Seq(Sources)
  /\ Len(playlist) <= Room \/ Len(playlist) <= Len(option.files)
  /\ current \in 0..Len(playlist)
  /\ filename \in Sources \cup {None}
  /\ loaded \in BOOLEAN /\ finished \in BOOLEAN /\ up \in BOOLEAN
  /\ told \in {"nothing", "start-file", "file-loaded", "end-file"}
  /\ orderly \in BOOLEAN /\ resumed \in BOOLEAN
  /\ left \in [commands : 0..Commands, faults : 0..Faults]

\* Clients can follow the events: one start and one end for each file, and at
\* most one loading between them.
EventsAlternate == orderly

\* What plays was announced and not yet said to have ended, and when nothing is
\* open nothing is announced.  A file that the user moved in after its end plays
\* again without a word.
PlayingIsAnnounced ==
  ~resumed =>
    /\ state \in {"loading", "playing", "paused"} /\ up
         => told \in {"start-file", "file-loaded"}
    /\ state = "idle" => told \in {"nothing", "end-file"}

\* The playlist position a client reads is that of the file the engine has,
\* whatever was cleared, replaced or appended since it was opened.
CurrentIsOpen ==
  current # 0 => current <= Len(playlist) /\ playlist[current] = filename

\* Without --idle and --loop the service plays its list and ends.
ListEnds == ~option.idle /\ option.repeat = "no"
            ~> ~up \/ paused \/ state = "idle"
=============================================================================
