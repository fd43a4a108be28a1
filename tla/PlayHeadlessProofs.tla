------------------------- MODULE PlayHeadlessProofs -------------------------
(***************************************************************************)
(* The properties of PlayHeadless hold for every set of sources and of     *)
(* options, any length of playlist and any number of commands and          *)
(* failures.  Whatever the engine does between two callbacks, it keeps to  *)
(* PlayStatus; what a client was told follows from what the service        *)
(* remembers of the file (finished, loaded) and never lags behind it.      *)
(***************************************************************************)
EXTENDS PlayHeadless, SequenceTheorems, TLAPS

\* Before the first file nothing was said and nothing moves.
SilentInv == filename = None =>
  state = "idle" /\ ~past /\ told = "nothing" /\ ~loaded /\ current = 0

\* The last event is the one for what the service knows of the file.
ToldInv == ~resumed /\ filename # None =>
  told = IF finished THEN "end-file" ELSE IF loaded THEN "file-loaded" ELSE "start-file"

\* A file that was said to have ended is one the engine is done with.
OverInv == finished /\ up /\ ~resumed => state \in {"idle", "ended", "error"}

\* An engine without a file was stopped, and the clients know.
IdleInv == state = "idle" => finished \/ filename = None

IInv == /\ TypeOK /\ EventsAlternate /\ CurrentIsOpen
        /\ SilentInv /\ ToldInv /\ OverInv /\ IdleInv

-----------------------------------------------------------------------------
(* Events.                                                                  *)

Events == {"start-file", "file-loaded", "end-file"}

\* What a callback that sends the events s does to orderly, event by event.
LEMMA SendNothing ==
  ASSUME orderly \in BOOLEAN, Send(<<>>)
  PROVE  told' = told /\ orderly' = orderly
<1>1. Len(<<>>) = 0
  OBVIOUS
<1> QED
  BY <1>1 DEF Send

LEMMA SendOne ==
  ASSUME NEW a \in Events, Send(<<a>>)
  PROVE  told' = a /\ orderly' = (orderly /\ (resumed \/ a \in Follows(told)))
BY DEF Send

LEMMA SendTwo ==
  ASSUME NEW a \in Events, NEW b \in Events, Send(<<a, b>>)
  PROVE  /\ told' = b
         /\ orderly' = (orderly /\ (resumed \/ (a \in Follows(told) /\ b \in Follows(a))))
BY DEF Send

LEMMA SendThree ==
  ASSUME NEW a \in Events, NEW b \in Events, NEW c \in Events, Send(<<a, b, c>>)
  PROVE  /\ told' = c
         /\ orderly' = (orderly /\ (resumed \/
              (a \in Follows(told) /\ b \in Follows(a) /\ c \in Follows(b))))
<1> DEFINE s == <<a, b, c>>
<1>1. Len(s) = 3 /\ s # <<>> /\ s[1] = a /\ s[2] = b /\ s[3] = c
  OBVIOUS
<1>2. told' = c
  BY <1>1 DEF Send
<1>3. orderly' = (orderly /\ \A i \in 1..3 : resumed \/
                    s[i] \in Follows(IF i = 1 THEN told ELSE s[i - 1]))
  BY <1>1 DEF Send
<1>4. (\A i \in 1..3 : resumed \/ s[i] \in Follows(IF i = 1 THEN told ELSE s[i - 1]))
        <=> (resumed \/ (a \in Follows(told) /\ b \in Follows(a) /\ c \in Follows(b)))
  BY <1>1
<1> QED
  BY <1>2, <1>3, <1>4

\* The order of the events of a file.
LEMMA Order ==
  /\ "start-file" \in Follows("nothing") /\ "start-file" \in Follows("end-file")
  /\ "file-loaded" \in Follows("start-file")
  /\ "end-file" \in Follows("start-file") /\ "end-file" \in Follows("file-loaded")
BY DEF Follows

\* Nothing before or after a list of events does not change it.
LEMMA Joined ==
  ASSUME NEW s \in Seq(Events)
  PROVE  /\ <<>> \o <<>> \o s = s /\ <<>> \o s = s /\ s \o <<>> = s
         /\ \A a \in Events : <<>> \o <<a>> = <<a>> /\ <<a>> \o <<>> = <<a>> /\ <<a>> \in Seq(Events)
<1>1. <<>> \o <<>> = <<>> /\ <<>> \o s = s /\ s \o <<>> = s
  BY ConcatEmptySeq
<1>2. ASSUME NEW a \in Events
      PROVE  <<>> \o <<a>> = <<a>> /\ <<a>> \o <<>> = <<a>> /\ <<a>> \in Seq(Events)
  <2>1. <<a>> \in Seq(Events)
    OBVIOUS
  <2> QED
    BY <2>1, ConcatEmptySeq
<1> QED
  BY <1>1, <1>2

LEMMA Pairs ==
  ASSUME NEW a \in Events, NEW b \in Events, NEW c \in Events
  PROVE  /\ <<a>> \o <<b>> = <<a, b>> /\ <<a, b>> \o <<c>> = <<a, b, c>>
         /\ <<a, b>> \in Seq(Events)
<1>1. <<a>> \in Seq(Events) /\ <<b>> \in Seq(Events) /\ <<c>> \in Seq(Events)
  OBVIOUS
<1>2. <<a, b>> \in Seq(Events) /\ Len(<<a, b>>) = 2 /\ <<a, b>>[1] = a /\ <<a, b>>[2] = b
  OBVIOUS
<1>3. /\ <<a, b, c>> \in Seq(Events) /\ Len(<<a, b, c>>) = 3
      /\ <<a, b, c>>[1] = a /\ <<a, b, c>>[2] = b /\ <<a, b, c>>[3] = c
  OBVIOUS
<1>4. <<a>> \o <<b>> = <<a, b>>
  <2> DEFINE s == <<a>> \o <<b>>
  <2>1. s \in Seq(Events) /\ Len(s) = 2 /\ s[1] = a /\ s[2] = b
    BY <1>1, ConcatProperties
  <2>2. \A i \in 1..2 : s[i] = <<a, b>>[i]
    BY <2>1, <1>2
  <2> QED
    BY <2>1, <2>2, <1>2, SeqEqual
<1>5. <<a, b>> \o <<c>> = <<a, b, c>>
  <2> DEFINE s == <<a, b>> \o <<c>>
  <2>1. s \in Seq(Events) /\ Len(s) = 3 /\ s[1] = a /\ s[2] = b /\ s[3] = c
    BY <1>1, <1>2, ConcatProperties
  <2>2. \A i \in 1..3 : s[i] = <<a, b, c>>[i]
    BY <2>1, <1>3
  <2> QED
    BY <2>1, <2>2, <1>3, SeqEqual
<1> QED
  BY <1>2, <1>4, <1>5

\* The news of a tick, by what it notices.
LEMMA NewsCases ==
  /\ Loads /\ Over => News = <<"file-loaded", "end-file">>
  /\ Loads /\ ~Over => News = <<"file-loaded">>
  /\ ~Loads /\ Over => News = <<"end-file">>
<1>1. <<"file-loaded">> \o <<"end-file">> = <<"file-loaded", "end-file">>
  BY Pairs DEF Events
<1>2. <<"file-loaded">> \o <<>> = <<"file-loaded">> /\ <<>> \o <<"end-file">> = <<"end-file">>
  BY Joined DEF Events
<1> QED
  BY <1>1, <1>2 DEF News

\* What is left as it was by a step that says nothing of a file.
LEMMA ToldKept ==
  ASSUME ToldInv, UNCHANGED <<filename, finished, loaded, told>>, resumed => resumed'
  PROVE  ToldInv'
BY Zenon DEF ToldInv

-----------------------------------------------------------------------------
(* The engine moves between two callbacks.                                  *)

\* What a step of the engine leaves alone.
LEMMA AloneKeeps ==
  ASSUME IInv, Alone
  PROVE  /\ up /\ EventsAlternate' /\ CurrentIsOpen'
         /\ UNCHANGED <<option, playlist, current, filename, loaded, finished, clip, up, told, orderly>>
BY DEF IInv, Alone, EventsAlternate, CurrentIsOpen, backend, events

LEMMA BeginsStep ==
  ASSUME IInv, Begins
  PROVE  IInv'
<1>1. EventsAlternate' /\ CurrentIsOpen'
  BY AloneKeeps DEF Begins
<1>2. state' \in {"playing", "paused"} /\ state = "loading"
  BY DEF Begins, Status!Begin, Status!Running
<1>3. TypeOK'
  BY AloneKeeps DEF Begins, Status!Begin, Status!Running, Status!StateAgrees, Status!States, IInv, TypeOK
<1>4. SilentInv'
  BY <1>2, AloneKeeps DEF Begins, IInv, SilentInv
<1>5. ToldInv'
  BY AloneKeeps, ToldKept DEF Begins, IInv
<1>6. OverInv'
  BY <1>2, AloneKeeps DEF Begins, IInv, OverInv, TypeOK
<1>7. IdleInv'
  BY <1>2, AloneKeeps DEF Begins, IInv, IdleInv
<1> QED
  BY <1>1, <1>3, <1>4, <1>5, <1>6, <1>7 DEF IInv

LEMMA MovesStep ==
  ASSUME IInv, Moves
  PROVE  IInv'
<1>1. EventsAlternate' /\ CurrentIsOpen'
  BY AloneKeeps DEF Moves
<1>2. state' \in {"playing", "paused"} /\ state # "idle"
  BY DEF Moves, Status!Restart, Status!Running
<1>3. TypeOK'
  BY AloneKeeps DEF Moves, Status!Restart, Status!Running, Status!StateAgrees, Status!States, IInv, TypeOK
<1>4. SilentInv'
  BY <1>2, AloneKeeps DEF Moves, IInv, SilentInv
<1>5. ToldInv'
  BY AloneKeeps, ToldKept DEF Moves, IInv
<1>6. OverInv'
  BY <1>2, AloneKeeps DEF Moves, IInv, OverInv, TypeOK
<1>7. IdleInv'
  BY <1>2, AloneKeeps DEF Moves, IInv, IdleInv
<1> QED
  BY <1>1, <1>3, <1>4, <1>5, <1>6, <1>7 DEF IInv

LEMMA PassesEndStep ==
  ASSUME IInv, PassesEnd
  PROVE  IInv'
<1>1. EventsAlternate' /\ CurrentIsOpen'
  BY AloneKeeps DEF PassesEnd
<1>2. TypeOK'
  BY AloneKeeps DEF PassesEnd, Status!StateAgrees, Status!States, IInv, TypeOK
<1>3. SilentInv'
  BY AloneKeeps DEF PassesEnd, IInv, SilentInv
<1>4. ToldInv'
  BY AloneKeeps, ToldKept DEF PassesEnd, IInv
<1>5. OverInv'
  BY AloneKeeps DEF PassesEnd, IInv, OverInv, TypeOK
<1>6. IdleInv'
  BY AloneKeeps DEF PassesEnd, IInv, IdleInv
<1> QED
  BY <1>1, <1>2, <1>3, <1>4, <1>5, <1>6 DEF IInv

LEMMA FinishesStep ==
  ASSUME IInv, Finishes
  PROVE  IInv'
<1>1. EventsAlternate' /\ CurrentIsOpen'
  BY AloneKeeps DEF Finishes
<1>2. TypeOK'
  BY AloneKeeps DEF Finishes, Status!Finish, Status!StateAgrees, Status!States, IInv, TypeOK
<1>3. SilentInv'
  BY AloneKeeps DEF Finishes, Status!Finish, IInv, SilentInv
<1>4. ToldInv'
  BY AloneKeeps, ToldKept DEF Finishes, IInv
<1>5. OverInv'
  BY AloneKeeps DEF Finishes, Status!Finish, IInv, OverInv, TypeOK
<1>6. IdleInv'
  BY AloneKeeps DEF Finishes, Status!Finish, IInv, IdleInv
<1> QED
  BY <1>1, <1>2, <1>3, <1>4, <1>5, <1>6 DEF IInv

LEMMA FailsStep ==
  ASSUME IInv, Fails
  PROVE  IInv'
<1>1. EventsAlternate' /\ CurrentIsOpen'
  BY AloneKeeps DEF Fails
<1>2. left' \in [commands : 0..Commands, faults : 0..Faults]
  BY BoundsAssumption DEF Fails, IInv, TypeOK
<1>3. TypeOK'
  BY <1>2, AloneKeeps DEF Fails, Status!Fail, Status!StateAgrees, Status!States, IInv, TypeOK
<1>4. SilentInv'
  BY AloneKeeps DEF Fails, Status!Fail, IInv, SilentInv
<1>5. ToldInv'
  BY AloneKeeps, ToldKept DEF Fails, IInv
<1>6. OverInv'
  BY AloneKeeps DEF Fails, Status!Fail, IInv, OverInv, TypeOK
<1>7. IdleInv'
  BY AloneKeeps DEF Fails, Status!Fail, IInv, IdleInv
<1> QED
  BY <1>1, <1>3, <1>4, <1>5, <1>6, <1>7 DEF IInv

-----------------------------------------------------------------------------
(* Opening a file.                                                          *)

\* Whatever else is sent, the last event of a callback that opens a file is its start.
Opens(list, i) ==
  /\ state' = "loading" /\ paused' = paused /\ asked' = FALSE /\ past' = FALSE
  /\ filename' = list[i] /\ current' = i
  /\ loaded' = FALSE /\ finished' = FALSE /\ resumed' = FALSE
  /\ told' = "start-file" /\ EventsAlternate'

\* A command opens a file: the end of the one before comes first, unless it was sent.
LEMMA OpenedByCommand ==
  ASSUME IInv, NEW list, NEW i, Open(list, i, finished, <<>>)
  PROVE  Opens(list, i)
<1>1. CASE filename # None /\ ~finished
  <2>1. <<>> \o <<"end-file">> = <<"end-file">>
    BY Joined DEF Events
  <2>2. <<"end-file">> \o <<"start-file">> = <<"end-file", "start-file">>
    BY Pairs DEF Events
  <2>3. Send(<<"end-file", "start-file">>)
    BY <1>1, <2>1, <2>2 DEF Open
  <2>4. resumed \/ told \in {"start-file", "file-loaded"}
    BY <1>1 DEF IInv, ToldInv
  <2>5. told' = "start-file" /\ orderly'
    BY <2>3, <2>4, SendTwo, Order DEF Events, IInv, EventsAlternate
  <2> QED
    BY <2>5 DEF Open, Opens, Status!Open, EventsAlternate
<1>2. CASE ~(filename # None /\ ~finished)
  <2>1. <<>> \o <<>> \o <<"start-file">> = <<"start-file">>
    BY Joined DEF Events
  <2>2. Send(<<"start-file">>)
    BY <1>2, <2>1 DEF Open
  <2>3. resumed \/ told \in {"nothing", "end-file"}
    BY <1>2 DEF IInv, ToldInv, SilentInv
  <2>4. told' = "start-file" /\ orderly'
    BY <2>2, <2>3, SendOne, Order DEF Events, IInv, EventsAlternate
  <2> QED
    BY <2>4 DEF Open, Opens, Status!Open, EventsAlternate
<1> QED
  BY <1>1, <1>2

\* A file whose end or loading is noticed has been announced.
LEMMA NoticedIsAnnounced ==
  ASSUME IInv, up, Loads \/ Over
  PROVE  /\ filename # None
         /\ ~resumed /\ Loads => told = "start-file"
         /\ ~resumed /\ Over => told \in {"start-file", "file-loaded"}
<1>1. filename # None
  BY DEF IInv, SilentInv, Loads, Over, Clipped
<1>2. ~resumed /\ Loads => ~finished
  BY DEF IInv, OverInv, Loads
<1> QED
  BY <1>1, <1>2 DEF IInv, ToldInv, Loads, Over

\* The tick opens the next file of the list.
LEMMA OpenedByTick ==
  ASSUME IInv, up, NEW list, NEW i, Over, Open(list, i, TRUE, News)
  PROVE  Opens(list, i)
<1>1. Send(News \o <<>> \o <<"start-file">>)
  BY DEF Open
<1>2. CASE Loads
  <2>1. News \in Seq(Events) /\ News = <<"file-loaded", "end-file">>
    BY <1>2, NewsCases, Pairs DEF Events
  <2>2. News \o <<>> = News
    BY <2>1, Joined
  <2>3. <<"file-loaded", "end-file">> \o <<"start-file">> = <<"file-loaded", "end-file", "start-file">>
    BY Pairs DEF Events
  <2>4. Send(<<"file-loaded", "end-file", "start-file">>)
    BY <1>1, <2>1, <2>2, <2>3
  <2>5. told' = "start-file" /\ orderly'
    BY <1>2, <2>4, SendThree, Order, NoticedIsAnnounced DEF Events, IInv, EventsAlternate
  <2> QED
    BY <2>5 DEF Open, Opens, Status!Open, EventsAlternate
<1>3. CASE ~Loads
  <2>1. News = <<"end-file">>
    BY <1>3, NewsCases
  <2>2. News \o <<>> = News
    BY <2>1, Joined DEF Events
  <2>3. <<"end-file">> \o <<"start-file">> = <<"end-file", "start-file">>
    BY Pairs DEF Events
  <2>4. Send(<<"end-file", "start-file">>)
    BY <1>1, <2>1, <2>2, <2>3
  <2>5. told' = "start-file" /\ orderly'
    BY <2>4, SendTwo, Order, NoticedIsAnnounced DEF Events, IInv, EventsAlternate
  <2> QED
    BY <2>5 DEF Open, Opens, Status!Open, EventsAlternate
<1> QED
  BY <1>2, <1>3

\* What an open file makes of the invariant.
LEMMA OpenKeeps ==
  ASSUME IInv, NEW list \in Seq(Sources), NEW i \in 1..Len(list), Opens(list, i), playlist' = list,
         Len(list) <= Room \/ Len(list) <= Len(option.files),
         clip' \in BOOLEAN, left' \in [commands : 0..Commands, faults : 0..Faults],
         UNCHANGED <<option, up>>
  PROVE  IInv'
<1>1. list[i] \in Sources /\ list[i] # None
  BY SourcesAssumption
<1>2. Status!StateAgrees'
  BY DEF Opens, IInv, TypeOK, Status!StateAgrees, Status!States
<1>3. orderly' \in BOOLEAN
  BY DEF Opens, EventsAlternate
<1>4. TypeOK'
  <2>1. playlist' \in Seq(Sources) /\ current' \in 0..Len(playlist') /\ filename' \in Sources
    BY <1>1 DEF Opens
  <2>2. Len(playlist') <= Room \/ Len(playlist') <= Len(option'.files)
    OBVIOUS
  <2> QED
    BY <1>2, <1>3, <2>1, <2>2 DEF Opens, IInv, TypeOK
<1>5. CurrentIsOpen'
  BY DEF Opens, CurrentIsOpen
<1>6. SilentInv' /\ ToldInv' /\ OverInv' /\ IdleInv'
  BY <1>1 DEF Opens, SilentInv, ToldInv, OverInv, IdleInv
<1> QED
  BY <1>4, <1>5, <1>6 DEF Opens, IInv

-----------------------------------------------------------------------------
(* The commands.                                                            *)

\* What every command does.
LEMMA CommandSpends ==
  ASSUME IInv, Command
  PROVE  up /\ left' \in [commands : 0..Commands, faults : 0..Faults]
BY BoundsAssumption DEF Command, IInv, TypeOK

LEMMA LoadFileStep ==
  ASSUME IInv, NEW f \in Sources, NEW mode \in {"replace", "append", "append-play"},
         LoadFile(f, mode)
  PROVE  IInv'
<1> DEFINE list == IF mode = "replace" THEN <<f>> ELSE Append(playlist, f)
<1>1. /\ playlist' = list /\ Len(list) <= Room /\ clip' = (clip /\ mode # "replace")
      /\ UNCHANGED <<option, up>>
  BY DEF LoadFile
<1>2. list \in Seq(Sources) /\ Len(list) \in 1..Len(list)
  BY DEF IInv, TypeOK
<1>3. left' \in [commands : 0..Commands, faults : 0..Faults] /\ clip' \in BOOLEAN
  BY <1>1, CommandSpends DEF LoadFile, IInv, TypeOK
<1>4. CASE mode # "append" \/ state = "idle"
  <2>1. Open(list, Len(list), finished, <<>>)
    BY <1>4 DEF LoadFile
  <2> QED
    BY <2>1, <1>1, <1>2, <1>3, OpenedByCommand, OpenKeeps
<1>5. CASE ~(mode # "append" \/ state = "idle")
  <2>1. UNCHANGED <<engine, events, resumed, current, filename, loaded, finished>>
    BY <1>5 DEF LoadFile
  <2>2. playlist' = Append(playlist, f) /\ clip' = clip
    BY <1>1, <1>5 DEF IInv, TypeOK
  <2>3. playlist' \in Seq(Sources) /\ Len(playlist') = Len(playlist) + 1
        /\ \A i \in 1..Len(playlist) : playlist'[i] = playlist[i]
    BY <2>2 DEF IInv, TypeOK
  <2>4. TypeOK'
    BY <2>1, <2>3, <1>1, <1>2, <1>3
       DEF engine, events, IInv, TypeOK, Status!StateAgrees, Status!States
  <2>5. CurrentIsOpen'
    BY <2>1, <2>3 DEF IInv, TypeOK, CurrentIsOpen
  <2>6. EventsAlternate' /\ SilentInv'
    BY <2>1 DEF engine, events, IInv, EventsAlternate, SilentInv
  <2>7. ToldInv'
    BY <2>1, ToldKept DEF events, IInv
  <2>8. OverInv' /\ IdleInv'
    BY <2>1, <1>1 DEF engine, IInv, OverInv, IdleInv
  <2> QED
    BY <2>4, <2>5, <2>6, <2>7, <2>8 DEF IInv
<1> QED
  BY <1>4, <1>5

LEMMA StopFileStep ==
  ASSUME IInv, StopFile
  PROVE  IInv'
<1>1. /\ state' = "idle" /\ paused' = paused /\ finished' = TRUE /\ asked' = FALSE /\ past' = FALSE
      /\ UNCHANGED <<option, playlist, current, filename, loaded, clip, up, resumed>>
  BY DEF StopFile, Status!Stop
<1>2. orderly' /\ told' = IF filename # None /\ ~finished THEN "end-file" ELSE told
  <2>1. CASE filename # None /\ ~finished
    <3>1. Send(<<"end-file">>)
      BY <2>1 DEF StopFile
    <3>2. resumed \/ told \in {"start-file", "file-loaded"}
      BY <2>1 DEF IInv, ToldInv
    <3> QED
      BY <2>1, <3>1, <3>2, SendOne, Order DEF Events, IInv, EventsAlternate
  <2>2. CASE ~(filename # None /\ ~finished)
    <3>1. Send(<<>>)
      BY <2>2 DEF StopFile
    <3> QED
      BY <2>2, <3>1, SendNothing DEF IInv, EventsAlternate, TypeOK
  <2> QED
    BY <2>1, <2>2
<1>3. TypeOK'
  <2>1. left' \in [commands : 0..Commands, faults : 0..Faults]
    BY CommandSpends DEF StopFile
  <2> QED
    BY <1>1, <1>2, <2>1 DEF IInv, TypeOK, Status!StateAgrees, Status!States
<1>4. EventsAlternate' /\ CurrentIsOpen' /\ SilentInv'
  BY <1>1, <1>2 DEF IInv, EventsAlternate, CurrentIsOpen, SilentInv
<1>5. ToldInv'
  BY <1>1, <1>2 DEF IInv, ToldInv
<1>6. OverInv' /\ IdleInv'
  BY <1>1 DEF OverInv, IdleInv
<1> QED
  BY <1>3, <1>4, <1>5, <1>6 DEF IInv

LEMMA GoToStep ==
  ASSUME IInv, NEW i \in DOMAIN playlist, NEW keepClip \in BOOLEAN, GoTo(i, keepClip)
  PROVE  IInv'
<1>1. playlist' = playlist /\ playlist \in Seq(Sources) /\ i \in 1..Len(playlist)
  BY DEF GoTo, IInv, TypeOK
<1>2. left' \in [commands : 0..Commands, faults : 0..Faults] /\ clip' \in BOOLEAN
      /\ UNCHANGED <<option, up>>
  BY CommandSpends DEF GoTo, IInv, TypeOK
<1>3. Open(playlist, i, finished, <<>>)
  BY DEF GoTo
<1>4. Len(playlist) <= Room \/ Len(playlist) <= Len(option.files)
  BY DEF IInv, TypeOK
<1> QED
  BY <1>1, <1>2, <1>3, <1>4, OpenedByCommand, OpenKeeps

LEMMA ClearPlaylistStep ==
  ASSUME IInv, ClearPlaylist
  PROVE  IInv'
<1>1. /\ playlist' = (IF filename = None THEN <<>> ELSE <<filename>>)
      /\ current' = (IF filename = None THEN 0 ELSE 1)
      /\ UNCHANGED <<engine, option, filename, loaded, finished, clip, up, events, resumed>>
  BY DEF ClearPlaylist
<1>2. playlist' \in Seq(Sources) /\ Len(playlist') <= 1 /\ current' \in 0..Len(playlist')
      /\ CurrentIsOpen'
  BY <1>1 DEF CurrentIsOpen, IInv, TypeOK
<1>3. left' \in [commands : 0..Commands, faults : 0..Faults]
  BY CommandSpends DEF ClearPlaylist
<1>4. TypeOK'
  BY <1>1, <1>2, <1>3, BoundsAssumption
     DEF engine, events, IInv, TypeOK, Status!StateAgrees, Status!States
<1>5. EventsAlternate' /\ SilentInv'
  BY <1>1 DEF engine, events, IInv, EventsAlternate, SilentInv
<1>6. ToldInv'
  BY <1>1, ToldKept DEF events, IInv
<1>7. OverInv' /\ IdleInv'
  BY <1>1 DEF engine, IInv, OverInv, IdleInv
<1> QED
  BY <1>2, <1>4, <1>5, <1>6, <1>7 DEF IInv

LEMMA PauseFileStep ==
  ASSUME IInv, NEW p \in BOOLEAN, PauseFile(p)
  PROVE  IInv'
<1>1. UNCHANGED <<asked, past, option, playlist, current, filename, loaded, finished, clip, up,
                  told, orderly, resumed>>
  BY DEF PauseFile, backend, events
<1>2. Status!StateAgrees' /\ (state' = state \/ (state' \in {"playing", "paused"}
                                                   /\ state \in {"playing", "paused"}))
  BY DEF PauseFile, Status!Pause, Status!StateAgrees, Status!States, IInv, TypeOK
<1>3. left' \in [commands : 0..Commands, faults : 0..Faults]
  BY CommandSpends DEF PauseFile
<1>4. TypeOK'
  BY <1>1, <1>2, <1>3 DEF IInv, TypeOK
<1>5. EventsAlternate' /\ CurrentIsOpen' /\ SilentInv'
  BY <1>1, <1>2 DEF IInv, EventsAlternate, CurrentIsOpen, SilentInv
<1>6. ToldInv'
  BY <1>1, ToldKept DEF IInv
<1>7. OverInv' /\ IdleInv'
  BY <1>1, <1>2 DEF IInv, OverInv, IdleInv
<1> QED
  BY <1>4, <1>5, <1>6, <1>7 DEF IInv

LEMMA SeekFileStep ==
  ASSUME IInv, SeekFile
  PROVE  IInv'
<1>1. UNCHANGED <<state, paused, past, option, playlist, current, filename, loaded, finished, clip,
                  up, told, orderly, resumed>> /\ asked' = TRUE
  BY DEF SeekFile, backend, events
<1>2. left' \in [commands : 0..Commands, faults : 0..Faults]
  BY CommandSpends DEF SeekFile
<1>3. TypeOK'
  BY <1>1, <1>2 DEF IInv, TypeOK, Status!StateAgrees, Status!States
<1>4. EventsAlternate' /\ CurrentIsOpen' /\ SilentInv'
  BY <1>1 DEF IInv, EventsAlternate, CurrentIsOpen, SilentInv
<1>5. ToldInv'
  BY <1>1, ToldKept DEF IInv
<1>6. OverInv' /\ IdleInv'
  BY <1>1 DEF IInv, OverInv, IdleInv
<1> QED
  BY <1>3, <1>4, <1>5, <1>6 DEF IInv

LEMMA QuitStep ==
  ASSUME IInv, Quit
  PROVE  IInv'
<1>1. UNCHANGED <<state, paused, asked, past, option, playlist, current, filename, loaded, finished,
                  clip, told, orderly, resumed>> /\ up' = FALSE
  BY DEF Quit, engine, events
<1>2. left' \in [commands : 0..Commands, faults : 0..Faults]
  BY CommandSpends DEF Quit
<1>3. TypeOK'
  <2>1. Status!StateAgrees'
    BY <1>1 DEF IInv, TypeOK, Status!StateAgrees, Status!States
  <2> QED
    BY <1>1, <1>2, <2>1 DEF IInv, TypeOK
<1>4. EventsAlternate' /\ CurrentIsOpen' /\ SilentInv'
  BY <1>1 DEF IInv, EventsAlternate, CurrentIsOpen, SilentInv
<1>5. ToldInv'
  BY <1>1, ToldKept DEF IInv
<1>6. OverInv' /\ IdleInv'
  BY <1>1 DEF IInv, OverInv, IdleInv
<1> QED
  BY <1>3, <1>4, <1>5, <1>6 DEF IInv

-----------------------------------------------------------------------------
(* The tick.                                                                *)

\* The engine has begun to play the file.
LEMMA TickLoads ==
  ASSUME IInv, Tick, ~Over
  PROVE  IInv'
<1>1. /\ Loads /\ Send(News) /\ loaded' = TRUE
      /\ UNCHANGED <<engine, current, filename, finished, clip, up, resumed, option, playlist, left>>
  BY DEF Tick
<1>2. told' = "file-loaded" /\ orderly'
  <2>1. Send(<<"file-loaded">>)
    BY <1>1, NewsCases
  <2>2. resumed \/ told = "start-file"
    BY <1>1, NoticedIsAnnounced DEF Tick
  <2> QED
    BY <2>1, <2>2, SendOne, Order DEF Events, IInv, EventsAlternate
<1>3. filename # None /\ up
  BY <1>1, NoticedIsAnnounced DEF Tick
<1>4. ~resumed => ~finished
  BY <1>1, <1>3 DEF Loads, IInv, OverInv
<1>5. TypeOK'
  <2>1. Status!StateAgrees'
    BY <1>1 DEF engine, IInv, TypeOK, Status!StateAgrees, Status!States
  <2> QED
    BY <1>1, <1>2, <2>1 DEF engine, IInv, TypeOK
<1>6. EventsAlternate' /\ CurrentIsOpen' /\ SilentInv'
  BY <1>1, <1>2, <1>3 DEF IInv, EventsAlternate, CurrentIsOpen, SilentInv
<1>7. ToldInv'
  BY <1>1, <1>2, <1>4 DEF ToldInv
<1>8. OverInv' /\ IdleInv'
  BY <1>1 DEF engine, IInv, OverInv, IdleInv
<1> QED
  BY <1>5, <1>6, <1>7, <1>8 DEF IInv

\* The file has ended, and another one follows.
LEMMA TickGoesOn ==
  ASSUME IInv, Tick, Over, NextEntry \in 1..Len(playlist)
  PROVE  IInv'
<1>1. /\ up /\ Open(playlist, NextEntry, TRUE, News) /\ clip' = FALSE
      /\ UNCHANGED <<up, option, playlist, left>>
  BY DEF Tick
<1>2. /\ playlist \in Seq(Sources) /\ left' \in [commands : 0..Commands, faults : 0..Faults]
      /\ Len(playlist) <= Room \/ Len(playlist) <= Len(option.files)
  BY <1>1 DEF IInv, TypeOK
<1>3. Opens(playlist, NextEntry)
  BY <1>1, OpenedByTick
<1> QED
  BY <1>1, <1>2, <1>3, OpenKeeps

\* The last file has ended.
LEMMA TickEnds ==
  ASSUME IInv, Tick, Over, NextEntry \notin 1..Len(playlist)
  PROVE  IInv'
<1>1. /\ Send(News) /\ finished' = TRUE /\ loaded' = (loaded \/ Loads) /\ up' = option.idle
      /\ UNCHANGED <<current, filename, clip, resumed, option, playlist, left>>
  BY DEF Tick
<1>2. \/ option.idle /\ Clipped /\ Status!Stop /\ asked' = FALSE /\ past' = FALSE
      \/ ~(option.idle /\ Clipped) /\ UNCHANGED engine
  BY DEF Tick
<1>3. filename # None /\ up
  BY NoticedIsAnnounced DEF Tick
<1>4. told' = "end-file" /\ orderly'
  <2>1. ~resumed => told \in {"start-file", "file-loaded"}
    BY <1>3, NoticedIsAnnounced
  <2>2. CASE Loads
    <3>1. Send(<<"file-loaded", "end-file">>)
      BY <1>1, <2>2, NewsCases
    <3>2. ~resumed => told = "start-file"
      BY <1>3, <2>2, NoticedIsAnnounced
    <3> QED
      BY <3>1, <3>2, SendTwo, Order DEF Events, IInv, EventsAlternate
  <2>3. CASE ~Loads
    <3>1. Send(<<"end-file">>)
      BY <1>1, <2>3, NewsCases
    <3> QED
      BY <2>1, <3>1, SendOne, Order DEF Events, IInv, EventsAlternate
  <2> QED
    BY <2>2, <2>3
<1>5. TypeOK'
  <2>1. Status!StateAgrees'
    BY <1>2 DEF engine, Status!Stop, IInv, TypeOK, Status!StateAgrees, Status!States
  <2>2. asked' \in BOOLEAN /\ past' \in BOOLEAN
    BY <1>2 DEF engine, IInv, TypeOK
  <2>3. up' \in BOOLEAN
    BY <1>1, OptionsAssumption DEF IInv, TypeOK
  <2>4. loaded' \in BOOLEAN
    BY <1>1
  <2> QED
    BY <1>1, <1>4, <2>1, <2>2, <2>3, <2>4 DEF IInv, TypeOK
<1>6. EventsAlternate' /\ CurrentIsOpen' /\ SilentInv'
  BY <1>1, <1>3, <1>4 DEF IInv, EventsAlternate, CurrentIsOpen, SilentInv
<1>7. ToldInv' /\ IdleInv'
  BY <1>1, <1>4 DEF ToldInv, IdleInv
<1>8. OverInv'
  <2>1. CASE option.idle /\ Clipped
    BY <1>2, <2>1 DEF OverInv, Status!Stop
  <2>2. CASE option.idle /\ ~Clipped
    BY <1>2, <2>2 DEF Over, OverInv, engine
  <2>3. CASE ~option.idle
    BY <1>1, <2>3 DEF OverInv
  <2> QED
    BY <2>1, <2>2, <2>3
<1> QED
  BY <1>5, <1>6, <1>7, <1>8 DEF IInv

-----------------------------------------------------------------------------
(* The invariant.                                                           *)

LEMMA InitInv == Init => IInv
<1> SUFFICES ASSUME Init PROVE IInv
  OBVIOUS
<1>1. option \in [idle : BOOLEAN, repeat : {"no", "file", "playlist"}, end : BOOLEAN,
                  paused : BOOLEAN, files : Seq(Sources)]
  BY OptionsAssumption DEF Init
<1>2. left \in [commands : 0..Commands, faults : 0..Faults]
  BY BoundsAssumption DEF Init
<1>3. TypeOK
  <2>1. Status!StateAgrees
    BY <1>1 DEF Init, Status!StateAgrees, Status!States
  <2>2. playlist \in Seq(Sources) /\ current \in 0..Len(playlist) /\ filename \in Sources \cup {None}
    BY <1>1 DEF Init
  <2>3. asked \in BOOLEAN /\ past \in BOOLEAN /\ clip \in BOOLEAN /\ loaded \in BOOLEAN
        /\ finished \in BOOLEAN /\ up \in BOOLEAN /\ orderly \in BOOLEAN /\ resumed \in BOOLEAN
    BY <1>1 DEF Init
  <2>4. told \in {"nothing", "start-file", "file-loaded", "end-file"} /\ option \in Options
        /\ Len(playlist) <= Len(option.files)
    BY <1>1 DEF Init
  <2> QED
    BY <1>2, <2>1, <2>2, <2>3, <2>4 DEF TypeOK
<1>4. EventsAlternate /\ CurrentIsOpen
  BY DEF Init, EventsAlternate, CurrentIsOpen
<1>5. SilentInv /\ ToldInv /\ OverInv /\ IdleInv
  BY <1>1, SourcesAssumption DEF Init, SilentInv, ToldInv, OverInv, IdleInv
<1> QED
  BY <1>3, <1>4, <1>5 DEF IInv

LEMMA NextInv == IInv /\ [Next]_vars => IInv'
<1> SUFFICES ASSUME IInv, [Next]_vars PROVE IInv'
  OBVIOUS
<1>1. CASE EngineNext
  BY <1>1, BeginsStep, MovesStep, PassesEndStep, FinishesStep, FailsStep DEF EngineNext
<1>2. CASE Tick
  BY <1>2, TickLoads, TickGoesOn, TickEnds
<1>3. CASE StopFile \/ ClearPlaylist \/ SeekFile \/ Quit
  BY <1>3, StopFileStep, ClearPlaylistStep, SeekFileStep, QuitStep
<1>4. ASSUME NEW f \in Sources, NEW mode \in {"replace", "append", "append-play"}, LoadFile(f, mode)
      PROVE  IInv'
  BY <1>4, LoadFileStep
<1>5. ASSUME NEW i \in DOMAIN playlist, NEW keepClip \in BOOLEAN, GoTo(i, keepClip)
      PROVE  IInv'
  BY <1>5, GoToStep
<1>6. ASSUME NEW p \in BOOLEAN, PauseFile(p)
      PROVE  IInv'
  BY <1>6, PauseFileStep
<1>7. CASE UNCHANGED vars
  <2>1. UNCHANGED <<state, paused, asked, past, option, playlist, current, filename, loaded, finished,
                    clip, up, told, orderly, resumed, left>>
    BY <1>7 DEF vars, engine, backend, events
  <2> QED
    BY <2>1 DEF IInv, TypeOK, EventsAlternate, CurrentIsOpen, SilentInv, ToldInv, OverInv, IdleInv,
       Status!StateAgrees, Status!States
<1> QED
  BY <1>1, <1>2, <1>3, <1>4, <1>5, <1>6, <1>7 DEF Next

(* The inductive invariant holds of every run of the service.               *)
THEOREM Invariant == Spec => []IInv
BY InitInv, NextInv, PTL DEF Spec

(* Every variable keeps its type; the playlist outgrows Room only on the    *)
(* command line (backend_open, command_run).                                *)
THEOREM TypeCorrect == Spec => []TypeOK
<1>1. IInv => TypeOK
  BY DEF IInv
<1> QED
  BY <1>1, Invariant, PTL

(* However commands, ticks and the engine's moves interleave, a client sees *)
(* one start and one end of each file and at most one loading between them. *)
THEOREM EventsInOrder == Spec => []EventsAlternate
<1>1. IInv => EventsAlternate
  BY DEF IInv
<1> QED
  BY <1>1, Invariant, PTL

(* What plays has been announced and not been said to have ended.           *)
THEOREM Announced == Spec => []PlayingIsAnnounced
<1>1. IInv => PlayingIsAnnounced
  <2> SUFFICES ASSUME IInv, ~resumed
               PROVE  /\ state \in {"loading", "playing", "paused"} /\ up
                           => told \in {"start-file", "file-loaded"}
                      /\ state = "idle" => told \in {"nothing", "end-file"}
    BY DEF PlayingIsAnnounced
  <2>1. ASSUME state \in {"loading", "playing", "paused"}, up
        PROVE  told \in {"start-file", "file-loaded"}
    BY <2>1 DEF IInv, SilentInv, ToldInv, OverInv
  <2>2. ASSUME state = "idle"
        PROVE  told \in {"nothing", "end-file"}
    BY <2>2 DEF IInv, SilentInv, ToldInv, IdleInv
  <2> QED
    BY <2>1, <2>2
<1> QED
  BY <1>1, Invariant, PTL

(* The position clients read is that of the file the engine has.            *)
THEOREM PositionIsOpen == Spec => []CurrentIsOpen
<1>1. IInv => CurrentIsOpen
  BY DEF IInv
<1> QED
  BY <1>1, Invariant, PTL
=============================================================================
