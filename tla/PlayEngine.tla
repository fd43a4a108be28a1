----------------------------- MODULE PlayEngine -----------------------------
(***************************************************************************)
(* SimplePlay's decoding engine (simpleplay-engine.c): the control thread  *)
(* that calls sp_engine_*, the demuxer thread, and one decoder thread per  *)
(* stream, joined by two bounded packet queues, a bounded queue of         *)
(* pictures and the sound device's queue.  A step is what a thread does    *)
(* under one hold of a mutex, or one write of an atomic flag.              *)
(*                                                                         *)
(* A seek starts a new GENERATION: the engine's serial goes up, queues are *)
(* emptied, and a marker packet with the new serial tells each decoder to  *)
(* start afresh.  What is still under way for the old one must not show.   *)
(*                                                                         *)
(* A file is the positions 1..last of each of its streams.                 *)
(***************************************************************************)
EXTENDS Naturals, Sequences, FiniteSets

CONSTANTS
  Last,         \* bound: the positions of the longest file
  Files,        \* the files there are
  Starts,       \* the positions they are opened at
  PacketLimit,  \* PACKET_LIMIT and 512: packets a queue holds
  FrameLimit,   \* FRAME_LIMIT: pictures waiting to be shown
  SoundLimit,   \* 0.15 s: sound waiting in the device
  Budgets       \* bound: the files the user has, how many times one is opened
                \* or stopped, how many requests are made, how many things fail

Streams == {"audio", "video"}

ASSUME FilesAssumption ==
  Files \subseteq [streams : (SUBSET Streams) \ {{}}, last : 1..Last,
                   seekable : BOOLEAN]

ASSUME LimitsAssumption ==
  /\ Last \in Nat \ {0}
  /\ PacketLimit \in Nat \ {0} /\ FrameLimit \in Nat \ {0}
  /\ SoundLimit \in Nat \ {0}
  /\ Starts \subseteq 0..Last
  /\ Budgets \subseteq [files : SUBSET Files, opens : Nat, requests : Nat,
                         faults : Nat]

VARIABLES
  state, paused,     \* SpStatus.state and SpEngine.paused
  serial,            \* the generation
  target,            \* drop_before: nothing earlier is shown
  clock,             \* position_locked
  sound,             \* what waits in the device's queue
  device,            \* the device is open; it is then paused iff devicePaused
  devicePaused,
  frames, current,   \* the pictures waiting, and the one on the screen
  asked,             \* the requests the demuxer has not taken yet
  commands, cancel,  \* the atomic flags
  seekable,          \* SpMediaInfo.seekable
  file,              \* the file being opened or played
  demux,             \* the demuxer thread and its Session
  queue, done,       \* Session.audioq and videoq, audio_done and video_done
  worker,            \* audio_worker and video_worker
  control,           \* the control thread
  left,              \* what is left of the budget
  refused, sent      \* history: a packet was dropped; what was put out

engine == <<state, paused, serial, target, clock, seekable, file>>
output == <<sound, device, devicePaused, frames, current>>
session == <<demux, queue, done, worker>>
requests == <<asked, commands, cancel, control, left>>
history == <<refused, sent>>
vars == <<engine, output, session, requests, history>>

Status == INSTANCE PlayStatus WITH state <- state, paused <- paused

Positions == 1..Last
None == 0                                \* no picture, no position
Unit == [serial : Nat, pos : Positions]  \* a picture, or a stretch of sound

Marker(n) == [kind |-> "marker", serial |-> n, pos |-> None]
End(n) == [kind |-> "end", serial |-> n, pos |-> None]
Data(n, p) == [kind |-> "data", serial |-> n, pos |-> p]

NoRequest == [seek |-> FALSE, to |-> 0, again |-> FALSE]
NoWorker == [at |-> "none", serial |-> 0, from |-> 0, item |-> End(0),
             decoder |-> FALSE, graph |-> FALSE]
NoFile == [streams |-> {}, last |-> 1, seekable |-> FALSE]
NoDemux == [at |-> "none", to |-> 0, next |-> 1, eof |-> FALSE]

Init == /\ state = "idle" /\ paused = FALSE
        /\ serial = 0 /\ target = 0 /\ clock = 0
        /\ seekable = FALSE /\ file = NoFile
        /\ sound = <<>> /\ device = FALSE /\ devicePaused = FALSE
        /\ frames = <<>> /\ current = <<>>
        /\ demux = NoDemux
        /\ queue = [s \in Streams |-> <<>>]
        /\ done = [s \in Streams |-> FALSE]
        /\ worker = [s \in Streams |-> NoWorker]
        /\ asked = NoRequest /\ commands = FALSE /\ cancel = FALSE
        /\ control = [at |-> "free", then |-> "stop"]
        /\ left \in Budgets
        /\ refused = FALSE /\ sent = [s \in Streams |-> {}]

Ask(what) == /\ control.at = "free"
             /\ left[what] > 0
             /\ left' = [left EXCEPT ![what] = @ - 1]

Fault == /\ left.faults > 0
         /\ left' = [left EXCEPT !.faults = @ - 1]

Sane == UNCHANGED left

-----------------------------------------------------------------------------
(* The control thread.                                                     *)

\* sp_engine_stop, alone or as the beginning of sp_engine_open.
Stop(then) ==
  /\ Ask("opens")
  /\ cancel' = TRUE
  /\ control' = [at |-> "join", then |-> then]
  /\ UNCHANGED <<engine, output, session, asked, commands, history>>

\* The demuxer has ended; sp_engine_stop clears what it left.
Stopped ==
  /\ control.at = "join"
  /\ demux.at \in {"none", "exited"}
  /\ control' = [control EXCEPT !.at = "free"]
  /\ frames' = <<>> /\ current' = <<>>
  /\ UNCHANGED <<sound, device, devicePaused, left>>

Idle ==
  /\ Stopped
  /\ control.then = "stop"
  /\ state' = "idle"
  /\ clock' = 0
  /\ demux' = NoDemux
  /\ UNCHANGED <<paused, serial, target, seekable, file, queue, done, worker,
                 asked, commands, cancel, history>>

Open(f, t, p) ==
  /\ Stopped
  /\ control.then = "open"
  /\ state' = "loading" /\ paused' = p
  /\ serial' = serial + 1
  /\ target' = t /\ clock' = t
  /\ seekable' = FALSE /\ file' = f
  /\ asked' = [NoRequest EXCEPT !.seek = t > 0, !.to = t]
  /\ commands' = (t > 0)
  /\ cancel' = FALSE
  /\ demux' = [NoDemux EXCEPT !.at = "open"]
  /\ queue' = [s \in Streams |-> <<>>]
  /\ done' = [s \in Streams |-> FALSE]
  /\ worker' = [s \in Streams |-> NoWorker]
  /\ refused' = FALSE /\ sent' = [s \in Streams |-> {}]

Pause(p) ==
  /\ Ask("requests")
  /\ p # paused
  /\ Status!Pause(p)
  /\ devicePaused' = IF device THEN p ELSE devicePaused
  /\ UNCHANGED <<serial, target, clock, seekable, file, sound, device, frames,
                 current, session, asked, commands, cancel, control, history>>

Request(r) ==
  /\ Ask("requests")
  /\ asked' = r
  /\ commands' = TRUE
  /\ UNCHANGED <<engine, output, session, cancel, control, history>>

Seek(t) == /\ seekable
           /\ t <= file.last
           /\ Request([asked EXCEPT !.seek = TRUE, !.to = t])

\* Another speed, audio track, subtitle track or deinterlacing: the file is
\* decoded again from where it is.
Again == /\ seekable
         /\ Request([asked EXCEPT !.again = TRUE])

\* A subtitle file starts no new generation, and needs no seekable source.
SubtitleFile == Request(asked)

\* sp_engine_frame_at, at every redraw.
FrameAt ==
  /\ control.at = "free"
  /\ frames # <<>>
  /\ current # <<>> =>
       current[1].serial # Head(frames).serial \/ Head(frames).pos <= clock
  /\ current' = <<Head(frames)>>
  /\ frames' = Tail(frames)
  /\ UNCHANGED <<engine, sound, device, devicePaused, session, requests,
                 history>>

-----------------------------------------------------------------------------
(* Time, and the sound device.                                             *)

Tick ==
  /\ state = "playing" /\ ~paused
  /\ clock < file.last
  /\ clock' = clock + 1
  /\ UNCHANGED <<state, paused, serial, target, seekable, file, output,
                 session, requests, history>>

DevicePlays ==
  /\ device /\ ~devicePaused
  /\ sound # <<>>
  /\ sound' = Tail(sound)
  /\ UNCHANGED <<engine, device, devicePaused, frames, current, session,
                 requests, history>>

-----------------------------------------------------------------------------
(* The demuxer thread.                                                     *)

Demux(from, to) == /\ demux.at = from
                   /\ demux' = [demux EXCEPT !.at = to]

DemuxOpen ==
  /\ Demux("open", "loop")
  /\ state' = Status!Running
  /\ seekable' = file.seekable
  /\ queue' = [s \in Streams |-> IF s \in file.streams THEN <<Marker(serial)>> ELSE <<>>]
  /\ done' = [s \in Streams |-> s \notin file.streams]
  /\ worker' = [s \in Streams |->
                  IF s \in file.streams THEN [NoWorker EXCEPT !.at = "pop"] ELSE NoWorker]
  /\ UNCHANGED <<paused, serial, target, clock, file, output, requests,
                 history>>

DemuxOpenFails ==
  /\ Demux("open", "quit")
  /\ IF cancel THEN Sane /\ UNCHANGED state
               ELSE Fault /\ state' = "error"
  /\ UNCHANGED <<paused, serial, target, clock, seekable, file, output, queue,
                 done, worker, asked, commands, cancel, control, history>>

\* Where an iteration goes on to when it has no command to handle.
Onward == IF state = "error" THEN "quit" ELSE IF demux.eof THEN "drain" ELSE "read"

DemuxLoop ==
  /\ IF cancel THEN Demux("loop", "quit")
     ELSE ~commands /\ Demux("loop", Onward)
  /\ UNCHANGED <<engine, output, queue, done, worker, requests, history>>

DemuxCheck ==
  /\ Demux("check", Onward)
  /\ UNCHANGED <<engine, output, queue, done, worker, requests, history>>

\* handle_commands, as far as it takes the requests.
TakeCommands ==
  /\ demux.at = "loop" /\ ~cancel /\ commands
  /\ demux' = [demux EXCEPT
       !.at = IF asked.seek \/ asked.again THEN "seek" ELSE "check",
       !.to = IF asked.seek THEN asked.to ELSE clock]
  /\ asked' = NoRequest
  /\ commands' = FALSE
  /\ UNCHANGED <<engine, output, queue, done, worker, cancel, control, left,
                 history>>

SeekFails ==
  /\ Demux("seek", "check")
  /\ IF seekable /\ ~cancel THEN Fault ELSE Sane
  /\ UNCHANGED <<engine, output, queue, done, worker, asked, commands, cancel,
                 control, history>>

Size == Cardinality(file.streams)

\* The file is at the key frame k; the new generation begins.
StartGeneration(k) ==
  /\ demux.at = "seek"
  /\ seekable
  /\ k = 1 \/ k <= demux.to
  /\ state' = Status!Running
  /\ demux' = [demux EXCEPT !.at = "clear audio", !.next = (k - 1) * Size + 1]
  /\ serial' = serial + 1
  /\ target' = demux.to /\ clock' = demux.to
  /\ frames' = <<>>
  /\ sound' = <<>>
  /\ refused' = FALSE /\ sent' = [s \in Streams |-> {}]
  /\ UNCHANGED <<paused, seekable, file, device, devicePaused, current, queue,
                 done, worker, requests>>

ClearQueue(s, from, to) ==
  /\ Demux(from, to)
  /\ queue' = IF s \in file.streams THEN [queue EXCEPT ![s] = <<Marker(serial)>>]
              ELSE queue
  /\ UNCHANGED <<engine, output, done, worker, requests, history>>

\* Mutant: the new generation is taken to be read already.
SetFlagsOnly ==
  /\ Demux("flags", "check")
  /\ done' = [s \in Streams |-> s \notin file.streams]
  /\ UNCHANGED <<engine, output, queue, worker, requests, history>>

\* The last writes of handle_commands.
SetFlags ==
  /\ demux.at = "flags"
  /\ demux' = [demux EXCEPT !.at = "check", !.eof = FALSE]
  /\ done' = [s \in Streams |-> s \notin file.streams]
  /\ UNCHANGED <<engine, output, queue, worker, requests, history>>

\* Mutant: requests do not end the wait for room.
PushOnlyStopped(s, packet) ==
  IF s \notin file.streams THEN UNCHANGED <<queue, refused>>
  ELSE IF cancel
       THEN refused' = TRUE /\ UNCHANGED queue
       ELSE /\ Len(queue[s]) < PacketLimit
            /\ queue' = [queue EXCEPT ![s] = Append(@, packet)]
            /\ UNCHANGED refused

\* queue_push: a full queue is waited for, and a stop or a request of the
\* user has the packet dropped.
Push(s, packet) ==
  IF s \notin file.streams THEN UNCHANGED <<queue, refused>>
  ELSE IF cancel \/ commands
       THEN refused' = TRUE /\ UNCHANGED queue
       ELSE /\ Len(queue[s]) < PacketLimit
            /\ queue' = [queue EXCEPT ![s] = Append(@, packet)]
            /\ UNCHANGED refused

\* The packets of a file are read position by position.
Stream(i) == IF Size = 2 THEN IF i % 2 = 1 THEN "video" ELSE "audio"
             ELSE CHOOSE s \in file.streams : TRUE
\* Mutant: positions counted from two.
PositionOffByOne(i) == (i \div Size) + 1

Position(i) == ((i - 1) \div Size) + 1

ReadPacket ==
  /\ demux.at = "read"
  /\ demux.next <= file.last * Size
  /\ Push(Stream(demux.next), Data(serial, Position(demux.next)))
  /\ demux' = [demux EXCEPT !.at = "loop", !.next = @ + 1]
  /\ UNCHANGED <<engine, output, done, worker, requests, sent>>

ReadFails ==
  /\ Demux("read", "quit")
  /\ IF cancel THEN Sane /\ UNCHANGED state
               ELSE Fault /\ state' = "error"
  /\ UNCHANGED <<paused, serial, target, clock, seekable, file, output, queue,
                 done, worker, asked, commands, cancel, control, history>>

ReadEnd ==
  /\ demux.next > file.last * Size
  /\ Demux("read", "end")
  /\ Push("audio", End(serial))
  /\ UNCHANGED <<engine, output, done, worker, requests, sent>>

FinishReading ==
  /\ demux.at = "end"
  /\ Push("video", End(serial))
  /\ demux' = [demux EXCEPT !.at = "loop", !.eof = TRUE]
  /\ UNCHANGED <<engine, output, done, worker, requests, sent>>

\* Mutant: the audio decides.
AudioDrained == /\ \E s \in Streams : done[s]
                /\ frames = <<>>
                /\ device => sound = <<>>

Drained == /\ \A s \in Streams : done[s]
           /\ frames = <<>>
           /\ device => sound = <<>>

\* Mutant: a paused file ends.
DrainWhilePaused ==
  /\ Demux("drain", "loop")
  /\ IF Drained THEN state' = "ended" ELSE UNCHANGED state
  /\ UNCHANGED <<paused, serial, target, clock, seekable, file, output, queue,
                 done, worker, requests, history>>

Drain ==
  /\ Demux("drain", "loop")
  /\ IF Drained /\ ~paused THEN state' = "ended" ELSE UNCHANGED state
  /\ UNCHANGED <<paused, serial, target, clock, seekable, file, output, queue,
                 done, worker, requests, history>>

Quit ==
  /\ Demux("quit", "join")
  /\ cancel' = TRUE
  /\ UNCHANGED <<engine, output, queue, done, worker, asked, commands, control,
                 left, history>>

Join ==
  /\ Demux("join", "exited")
  /\ \A s \in Streams : worker[s].at \in {"none", "exited"}
  /\ UNCHANGED <<engine, output, queue, done, worker, requests, history>>

-----------------------------------------------------------------------------
(* The decoder threads.                                                    *)

At(s, from, to) == /\ worker[s].at = from
                   /\ worker' = [worker EXCEPT ![s].at = to]

\* generation_current.
GenerationCurrent(s) == worker[s].serial = serial /\ ~cancel

\* The packet is of the generation this worker decodes, and that is current.
Decodable(s) == /\ worker[s].decoder
                /\ Head(queue[s]).serial = worker[s].serial
                /\ GenerationCurrent(s)

\* What is done with a packet of the queue: nothing, if it is stale.
Handling(s) ==
  LET p == Head(queue[s]) IN
  CASE p.kind = "marker" -> "reset"
    [] p.kind = "end" ->
         IF IF s = "audio" THEN Decodable(s) ELSE GenerationCurrent(s)
         THEN "finish" ELSE "pop"
    [] p.kind = "data" ->
         IF ~Decodable(s) \/ (s = "audio" /\ p.pos < worker[s].from)
         THEN "pop" ELSE IF s = "audio" THEN "open" ELSE "admit"

\* queue_pop, and the first look at the generation.
Pop(s) ==
  /\ worker[s].at = "pop"
  /\ ~cancel
  /\ queue[s] # <<>>
  /\ queue' = [queue EXCEPT ![s] = Tail(@)]
  /\ worker' = [worker EXCEPT ![s].item = Head(queue[s]), ![s].at = Handling(s)]
  /\ done' = [done EXCEPT ![s] =
       @ \/ (s = "audio" /\ Head(queue[s]).kind = "end" /\ ~Decodable(s))]
  /\ UNCHANGED <<engine, output, demux, requests, history>>

\* audio_close.
CloseDevice == device' = FALSE /\ sound' = <<>>

Exit(s) ==
  /\ At(s, "pop", "exited")
  /\ cancel
  /\ IF s = "audio" THEN CloseDevice ELSE UNCHANGED <<device, sound>>
  /\ UNCHANGED <<engine, devicePaused, frames, current, demux, queue, done,
                 requests, history>>

\* A marker: the decoder is opened again, the sound device is closed.
Reopen(s, works) ==
  /\ worker[s].at = "reset"
  /\ worker' = [worker EXCEPT ![s] =
       [@ EXCEPT !.at = "pop", !.serial = worker[s].item.serial, !.from = target,
                 !.decoder = works, !.graph = FALSE]]
  /\ done' = [done EXCEPT ![s] = FALSE]
  /\ IF works THEN Sane /\ UNCHANGED state ELSE Fault /\ state' = "error"
  /\ IF s = "audio" THEN CloseDevice ELSE UNCHANGED <<device, sound>>
  /\ UNCHANGED <<paused, serial, target, clock, seekable, file, devicePaused,
                 frames, current, demux, queue, asked, commands, cancel, control,
                 history>>

\* The end of the stream was decoded.
StreamDone(s) ==
  /\ At(s, "finish", "pop")
  /\ done' = [done EXCEPT ![s] = TRUE]
  /\ UNCHANGED <<engine, output, demux, queue, requests, history>>

\* Mutant: a device is opened playing.
OpenDevicePlaying ==
  /\ worker["audio"].at = "open"
  /\ worker' = [worker EXCEPT !["audio"].at = "put", !["audio"].graph = TRUE]
  /\ IF worker["audio"].graph THEN UNCHANGED <<device, devicePaused>>
     ELSE device' = TRUE /\ devicePaused' = FALSE
  /\ UNCHANGED <<engine, sound, frames, current, demux, queue, done, requests,
                 history>>

\* audio_open, when the decoder has no filter graph yet.
OpenDevice ==
  /\ worker["audio"].at = "open"
  /\ worker' = [worker EXCEPT !["audio"].at = "put", !["audio"].graph = TRUE]
  /\ IF worker["audio"].graph THEN UNCHANGED <<device, devicePaused>>
     ELSE device' = TRUE /\ devicePaused' = paused
  /\ UNCHANGED <<engine, sound, frames, current, demux, queue, done, requests,
                 history>>

OpenDeviceFails ==
  /\ ~worker["audio"].graph
  /\ At("audio", "open", "pop")
  /\ Fault
  /\ state' = "error"
  /\ UNCHANGED <<paused, serial, target, clock, seekable, file, output, demux,
                 queue, done, asked, commands, cancel, control, history>>

\* audio_output: waits while paused or while enough is queued.
PutSound ==
  LET w == worker["audio"] IN
  /\ At("audio", "put", "pop")
  /\ IF cancel \/ w.serial # serial THEN UNCHANGED <<sound, sent>>
     ELSE /\ ~paused
          /\ Len(sound) < SoundLimit
          /\ sound' = Append(sound, [serial |-> w.serial, pos |-> w.item.pos])
          /\ sent' = [sent EXCEPT !["audio"] = @ \cup {w.item.pos}]
  /\ UNCHANGED <<engine, device, devicePaused, frames, current, demux, queue,
                 done, requests, refused>>

\* video_output, before the picture is converted and after it.
AdmitFrame ==
  LET w == worker["video"] IN
  /\ IF w.item.pos < target \/ ~GenerationCurrent("video")
     THEN At("video", "admit", "pop")
     ELSE Len(frames) < FrameLimit /\ At("video", "admit", "show")
  /\ UNCHANGED <<engine, output, demux, queue, done, requests, history>>

\* Mutant: the generation is not looked at again after the conversion.
PushFrameBlindly ==
  LET w == worker["video"] IN
  /\ At("video", "show", "pop")
  /\ frames' = Append(frames, [serial |-> w.serial, pos |-> w.item.pos])
  /\ sent' = [sent EXCEPT !["video"] = @ \cup {w.item.pos}]
  /\ UNCHANGED <<engine, sound, device, devicePaused, current, demux, queue,
                 done, requests, refused>>

PushFrame ==
  LET w == worker["video"] IN
  /\ At("video", "show", "pop")
  /\ IF w.serial = serial
     THEN /\ frames' = Append(frames, [serial |-> w.serial, pos |-> w.item.pos])
          /\ sent' = [sent EXCEPT !["video"] = @ \cup {w.item.pos}]
     ELSE UNCHANGED <<frames, sent>>
  /\ UNCHANGED <<engine, sound, device, devicePaused, current, demux, queue,
                 done, requests, refused>>

ConvertFails ==
  /\ At("video", "show", "pop")
  /\ Fault
  /\ state' = "error"
  /\ UNCHANGED <<paused, serial, target, clock, seekable, file, output, demux,
                 queue, done, asked, commands, cancel, control, history>>

-----------------------------------------------------------------------------
DemuxNext ==
  \/ DemuxOpen \/ DemuxOpenFails \/ DemuxLoop \/ DemuxCheck \/ TakeCommands
  \/ SeekFails \/ SetFlags \/ ReadPacket \/ ReadFails \/ ReadEnd
  \/ FinishReading \/ Drain \/ Quit \/ Join
  \/ \E k \in Positions : StartGeneration(k)
  \/ ClearQueue("audio", "clear audio", "clear video")
  \/ ClearQueue("video", "clear video", "flags")

WorkerNext(s) ==
  \/ Pop(s) \/ Exit(s) \/ StreamDone(s)
  \/ \E works \in BOOLEAN : Reopen(s, works)

AudioNext == \/ WorkerNext("audio")
             \/ OpenDevice \/ OpenDeviceFails \/ PutSound
VideoNext == \/ WorkerNext("video")
             \/ AdmitFrame \/ PushFrame \/ ConvertFails

UserNext ==
  \/ \E then \in {"stop", "open"} : Stop(then)
  \/ \E p \in BOOLEAN : Pause(p)
  \/ \E t \in 0..Last : Seek(t)
  \/ Again \/ SubtitleFile

ControlNext == \/ Idle
               \/ \E f \in left.files, t \in Starts, p \in BOOLEAN : Open(f, t, p)

Next == \/ UserNext \/ ControlNext \/ FrameAt \/ Tick \/ DevicePlays
        \/ DemuxNext \/ AudioNext \/ VideoNext

(* The threads run, the device plays, time passes and the window is drawn. *)
Fairness == /\ WF_vars(ControlNext) /\ WF_vars(FrameAt)
            /\ WF_vars(Tick) /\ WF_vars(DevicePlays)
            /\ WF_vars(DemuxNext) /\ WF_vars(AudioNext) /\ WF_vars(VideoNext)

Spec == Init /\ [][Next]_vars /\ Fairness

-----------------------------------------------------------------------------
Items == [kind : {"marker", "end"}, serial : Nat, pos : {None}]
         \cup [kind : {"data"}, serial : Nat, pos : Positions]

TypeOK ==
  /\ state \in Status!States /\ paused \in BOOLEAN
  /\ serial \in Nat /\ target \in 0..Last /\ clock \in 0..Last
  /\ seekable \in BOOLEAN /\ file \in Files \cup {NoFile}
  /\ sound \in Seq(Unit) /\ device \in BOOLEAN /\ devicePaused \in BOOLEAN
  /\ frames \in Seq(Unit) /\ current \in Seq(Unit)
  /\ demux \in [at : {"none", "open", "loop", "check", "seek", "clear audio",
                      "clear video", "flags", "read", "end", "drain", "quit",
                      "join", "exited"},
                to : 0..Last, next : Nat \ {0}, eof : BOOLEAN]
  /\ queue \in [Streams -> Seq(Items)]
  /\ done \in [Streams -> BOOLEAN]
  /\ worker \in [Streams ->
       [at : {"none", "pop", "reset", "finish", "open", "put",
              "admit", "show", "exited"},
        serial : Nat, from : 0..Last, item : Items,
        decoder : BOOLEAN, graph : BOOLEAN]]
  /\ asked \in [seek : BOOLEAN, to : 0..Last, again : BOOLEAN]
  /\ commands \in BOOLEAN /\ cancel \in BOOLEAN
  /\ control \in [at : {"free", "join"}, then : {"stop", "open"}]
  /\ left \in [files : SUBSET Files, opens : Nat, requests : Nat, faults : Nat]
  /\ refused \in BOOLEAN /\ sent \in [Streams -> SUBSET Positions]

\* Nothing of a generation that was left is waiting to be shown or heard, and
\* nothing before the position that was asked for.
OutputIsCurrent ==
  \A u \in {frames[i] : i \in 1..Len(frames)} \cup {sound[i] : i \in 1..Len(sound)} :
    u.serial = serial /\ u.pos >= target

\* The device is paused when the engine is: a pause that comes while the
\* device is being opened is not lost.
DeviceFollowsPause == device => devicePaused = paused

\* The engine keeps to what its users were promised.
StatusSpec == Status!Spec

CaughtUp == \A s \in file.streams : worker[s].serial = serial

\* A file is said to have ended only when everything from the position asked
\* for to its end has been shown and heard, by each decoder that has caught up
\* with the generation and unless a packet was dropped for a request that
\* started no new generation.
EndIsComplete ==
  [][ state' = "ended" /\ state # "ended" /\ CaughtUp /\ ~refused
      => /\ frames = <<>> /\ sound = <<>>
         /\ \A s \in file.streams : worker[s].decoder /\ state # "error" =>
              sent[s] = (IF target = 0 THEN 1 ELSE target)..file.last ]_vars

\* A request is taken by the demuxer, whatever the queues and the pause are.
RequestIsTaken ==
  commands /\ demux.at \notin {"none", "exited"} ~> ~commands \/ cancel

\* sp_engine_stop returns.
StopReturns == control.at = "join" ~> control.at = "free"

\* No wait for a queue, a device or a thread outlasts a request or a stop.
NothingHangs == RequestIsTaken /\ StopReturns

\* A file that plays on comes to its end.
FileEnds == state = "playing" ~> state # "playing" \/ refused
=============================================================================
