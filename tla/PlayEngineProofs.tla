-------------------------- MODULE PlayEngineProofs --------------------------
(***************************************************************************)
(* For any files, queue lengths and budgets: no picture or sound that      *)
(* waits to be shown or heard is from another generation or before its     *)
(* target (OutputIsCurrent), the device is paused exactly when the user    *)
(* wants it (DeviceFollowsPause), the engine implements PlayStatus, and a  *)
(* file that ended was put out from the position asked for to its end      *)
(* (EndIsComplete).                                                        *)
(* The argument places the status beside the threads (StatusInv), keeps    *)
(* the device empty while nobody feeds it (DeviceInv) and lets no packet   *)
(* and no decoder be ahead of the generation (GenerationInv).  CInv, for   *)
(* the end, follows every position of the file from the demuxer to the     *)
(* device.                                                                 *)
(***************************************************************************)
EXTENDS PlayEngine, FiniteSetTheorems, TLAPS

(* The items of the generations up to n, and what may be shown or heard in  *)
(* generation n from position t on.                                         *)
Past(n) == {x \in Items : x.serial <= n}
Current(n, t) == {u \in Unit : u.serial = n /\ u.pos >= t}

-----------------------------------------------------------------------------
(* The inductive invariant, in parts that actions disturb separately.       *)

DemuxSteps == {"none", "open", "loop", "check", "seek", "clear audio", "clear video",
               "flags", "read", "end", "drain", "quit", "join", "exited"}
WorkerSteps == {"none", "pop", "reset", "finish", "open", "put", "admit", "show", "exited"}
Worker == [at : WorkerSteps, serial : Nat, from : 0..Last, item : Items,
           decoder : BOOLEAN, graph : BOOLEAN]

EngineOK == /\ state \in Status!States /\ paused \in BOOLEAN
            /\ serial \in Nat /\ target \in 0..Last /\ clock \in 0..Last
            /\ seekable \in BOOLEAN /\ file \in Files \cup {NoFile}
SoundOK == sound \in Seq(Current(serial, target))
FramesOK == frames \in Seq(Current(serial, target))
ScreenOK == current \in Seq(Unit) /\ device \in BOOLEAN /\ devicePaused \in BOOLEAN
DemuxOK == demux \in [at : DemuxSteps, to : 0..Last, next : Nat \ {0}, eof : BOOLEAN]
QueueOK == queue \in [Streams -> Seq(Past(serial))]
DoneOK == done \in [Streams -> BOOLEAN]
WorkerOK == worker \in [Streams -> Worker]
RequestOK == /\ asked \in [seek : BOOLEAN, to : 0..Last, again : BOOLEAN]
             /\ commands \in BOOLEAN /\ cancel \in BOOLEAN
             /\ control \in [at : {"free", "join"}, then : {"stop", "open"}]
BudgetOK == left \in [files : SUBSET Files, opens : Nat, requests : Nat, faults : Nat]
HistoryOK == refused \in BOOLEAN /\ sent \in [Streams -> SUBSET Positions]

(* Where the demuxer has opened the file and goes on with it.               *)
Demuxing == {"loop", "check", "seek", "clear audio", "clear video", "flags", "read",
             "end", "drain"}
Over == {"none", "exited"}

(* The status fits where the threads are.                                   *)
StatusInv ==
  /\ Status!StateAgrees
  /\ state = "idle" => demux.at = "none"
  /\ demux.at = "open" => state = "loading"
  /\ demux.at \in Demuxing => state \in {"playing", "paused", "ended", "error"}
  /\ demux.at \in Over \cup {"open"} => \A s \in Streams : worker[s].at \in Over

(* Without a thread to feed it there is no device, and no sound.            *)
DeviceInv ==
  /\ worker["audio"].at \in Over => ~device /\ sound = <<>>
  /\ DeviceFollowsPause

(* No worker is ahead of the generation, and a worker of the current one    *)
(* knows where it begins.                                                   *)
GenerationInv ==
  /\ serial = 0 => target = 0
  /\ \A s \in Streams :
       /\ worker[s].item.serial <= serial /\ worker[s].serial <= serial
       /\ worker[s].serial = serial => worker[s].from = target

(* What is decoded is data, and what comes out of it is not too early.      *)
DecodingInv ==
  /\ worker["audio"].at \in {"open", "put"} =>
       worker["audio"].item.kind = "data" /\ worker["audio"].item.pos >= worker["audio"].from
  /\ worker["video"].at \in {"admit", "show"} => worker["video"].item.kind = "data"
  /\ worker["video"].at = "show" /\ worker["video"].serial = serial =>
       worker["video"].item.pos >= target

Types == /\ EngineOK /\ SoundOK /\ FramesOK /\ ScreenOK /\ DemuxOK /\ QueueOK /\ DoneOK
         /\ WorkerOK /\ RequestOK /\ BudgetOK /\ HistoryOK
IInv == Types /\ StatusInv /\ DeviceInv /\ GenerationInv /\ DecodingInv

(* What a step leaves alone stays as it is.                                 *)
LEMMA Unchanged ==
  ASSUME IInv
  PROVE  /\ UNCHANGED engine => EngineOK'
         /\ UNCHANGED <<sound, serial, target>> => SoundOK'
         /\ UNCHANGED <<frames, serial, target>> => FramesOK'
         /\ UNCHANGED <<current, device, devicePaused>> => ScreenOK'
         /\ UNCHANGED demux => DemuxOK'
         /\ UNCHANGED <<queue, serial>> => QueueOK'
         /\ UNCHANGED done => DoneOK'
         /\ UNCHANGED worker => WorkerOK'
         /\ UNCHANGED <<asked, commands, cancel, control>> => RequestOK'
         /\ UNCHANGED left => BudgetOK'
         /\ UNCHANGED history => HistoryOK'
         /\ UNCHANGED <<state, paused, demux, worker>> => StatusInv'
         /\ UNCHANGED <<paused, worker, device, devicePaused, sound>> => DeviceInv'
         /\ UNCHANGED <<worker, serial, target>> => GenerationInv' /\ DecodingInv'
<1>1. UNCHANGED engine => EngineOK'
  BY DEF IInv, Types, EngineOK, engine
<1>2. UNCHANGED <<sound, serial, target>> => SoundOK'
  BY DEF IInv, Types, SoundOK
<1>3. UNCHANGED <<frames, serial, target>> => FramesOK'
  BY DEF IInv, Types, FramesOK
<1>4. UNCHANGED <<current, device, devicePaused>> => ScreenOK'
  BY DEF IInv, Types, ScreenOK
<1>5. UNCHANGED demux => DemuxOK'
  BY DEF IInv, Types, DemuxOK
<1>6. UNCHANGED <<queue, serial>> => QueueOK'
  BY DEF IInv, Types, QueueOK
<1>7. UNCHANGED done => DoneOK'
  BY DEF IInv, Types, DoneOK
<1>8. UNCHANGED worker => WorkerOK'
  BY DEF IInv, Types, WorkerOK
<1>9. UNCHANGED <<asked, commands, cancel, control>> => RequestOK'
  BY DEF IInv, Types, RequestOK
<1>10. UNCHANGED left => BudgetOK'
  BY DEF IInv, Types, BudgetOK
<1>11. UNCHANGED history => HistoryOK'
  BY DEF IInv, Types, HistoryOK, history
<1>12. UNCHANGED <<state, paused, demux, worker>> => StatusInv'
  BY DEF IInv, StatusInv, Status!StateAgrees
<1>13. UNCHANGED <<paused, worker, device, devicePaused, sound>> => DeviceInv'
  BY DEF IInv, DeviceInv, DeviceFollowsPause
<1>14. UNCHANGED <<worker, serial, target>> => GenerationInv' /\ DecodingInv'
  BY DEF IInv, GenerationInv, DecodingInv
<1> QED
  BY <1>1, <1>2, <1>3, <1>4, <1>5, <1>6, <1>7, <1>8, <1>9, <1>10, <1>11, <1>12, <1>13, <1>14

-----------------------------------------------------------------------------
(* What the sequences of the model keep.                                    *)

LEMMA SeqOfMore ==
  ASSUME NEW S, NEW T, S \subseteq T, NEW q \in Seq(S)
  PROVE  q \in Seq(T)
OBVIOUS

LEMMA NoItems ==
  ASSUME NEW S
  PROVE  <<>> \in Seq(S)
OBVIOUS

LEMMA OneItem ==
  ASSUME NEW S, NEW x \in S
  PROVE  <<x>> \in Seq(S)
OBVIOUS

LEMMA TailOf ==
  ASSUME NEW S, NEW q \in Seq(S), q # <<>>
  PROVE  Head(q) \in S /\ Tail(q) \in Seq(S)
OBVIOUS

LEMMA AppendTo ==
  ASSUME NEW S, NEW q \in Seq(S), NEW x \in S
  PROVE  Append(q, x) \in Seq(S)
OBVIOUS

(* What is put into a queue is of the generation, which the queue holds.    *)
LEMMA NewItems ==
  ASSUME NEW n \in Nat
  PROVE  /\ Marker(n) \in Past(n) /\ End(n) \in Past(n)
         /\ \A p \in Positions : Data(n, p) \in Past(n)
BY DEF Marker, End, Data, Past, Items

LEMMA PushType ==
  ASSUME QueueOK, EngineOK, NEW s \in Streams, NEW x \in Past(serial), Push(s, x), serial' = serial
  PROVE  QueueOK'
<1>1. queue[s] \in Seq(Past(serial))
  BY DEF QueueOK
<1>2. Append(queue[s], x) \in Seq(Past(serial))
  BY <1>1, AppendTo
<1>3. queue' = queue \/ queue' = [queue EXCEPT ![s] = Append(queue[s], x)]
  BY DEF Push
<1>4. queue' \in [Streams -> Seq(Past(serial))]
  BY <1>2, <1>3 DEF QueueOK
<1> QED
  BY <1>4 DEF QueueOK, Past

LEMMA PushHistory ==
  ASSUME HistoryOK, NEW s, NEW x, Push(s, x), sent' = sent
  PROVE  HistoryOK'
BY DEF HistoryOK, Push

(* A file has a position to stand at, and at most two streams.              *)
LEMMA FileType ==
  ASSUME EngineOK
  PROVE  file.streams \subseteq Streams /\ file.last \in 1..Last /\ file.seekable \in BOOLEAN
<1>1. CASE file = NoFile
  <2>1. NoFile.streams = {} /\ NoFile.last = 1 /\ NoFile.seekable = FALSE
    BY DEF NoFile
  <2>2. {} \subseteq Streams /\ 1 \in 1..Last /\ FALSE \in BOOLEAN
    BY LimitsAssumption
  <2> QED
    BY <1>1, <2>1, <2>2, Zenon
<1>2. CASE file \in Files
  BY <1>2, FilesAssumption
<1> QED
  BY <1>1, <1>2 DEF EngineOK

LEMMA FewStreams ==
  ASSUME EngineOK
  PROVE  Size \in {0, 1, 2} /\ (Size # 0 => file.streams # {})
<1>1. file.streams \in {{}, {"audio"}, {"video"}, {"audio", "video"}}
  BY FileType DEF Streams
<1>2. Cardinality({}) = 0
  BY FS_EmptySet
<1>3. \A x : Cardinality({x}) = 1
  BY FS_Singleton
<1>4. Cardinality({"audio", "video"}) = 2
  <2>1. {"audio", "video"} = {"audio"} \cup {"video"} /\ "video" \notin {"audio"}
    OBVIOUS
  <2>2. IsFiniteSet({"audio"}) /\ Cardinality({"audio"}) = 1
    BY FS_Singleton
  <2>3. Cardinality({"audio"} \cup {"video"}) = IF "video" \in {"audio"} THEN 1 ELSE 1 + 1
    BY <2>2, FS_AddElement, Zenon
  <2> QED
    BY <2>1, <2>3
<1> QED
  BY <1>1, <1>2, <1>3, <1>4 DEF Size

LEMMA PositionType ==
  ASSUME EngineOK, DemuxOK, demux.next <= file.last * Size
  PROVE  Position(demux.next) \in Positions /\ Stream(demux.next) \in Streams
<1>1. demux.next \in Nat \ {0} /\ file.last \in 1..Last /\ Last \in Nat
  BY FileType, LimitsAssumption DEF DemuxOK
<1>2. Size \in {1, 2} /\ file.streams # {} /\ file.streams \subseteq Streams
  BY <1>1, FewStreams, FileType
<1>3. Position(demux.next) \in Positions
  <2>1. CASE Size = 1
    BY <1>1, <2>1 DEF Position, Positions
  <2>2. CASE Size = 2
    BY <1>1, <2>2 DEF Position, Positions
  <2> QED
    BY <1>2, <2>1, <2>2
<1>4. Stream(demux.next) \in Streams
  BY <1>2 DEF Stream, Streams
<1> QED
  BY <1>3, <1>4

(* The blank records.                                                       *)
LEMMA Blanks ==
  /\ [NoDemux EXCEPT !.at = "open"] \in [at : DemuxSteps, to : 0..Last, next : Nat \ {0}, eof : BOOLEAN]
  /\ NoDemux \in [at : DemuxSteps, to : 0..Last, next : Nat \ {0}, eof : BOOLEAN]
  /\ NoWorker \in Worker /\ [NoWorker EXCEPT !.at = "pop"] \in Worker
  /\ NoRequest \in [seek : BOOLEAN, to : 0..Last, again : BOOLEAN]
<1>1. 0 \in 0..Last
  BY LimitsAssumption
<1>2. End(0) \in Items
  BY DEF End, Items
<1>3. NoDemux \in [at : DemuxSteps, to : 0..Last, next : Nat \ {0}, eof : BOOLEAN]
  BY <1>1 DEF NoDemux, DemuxSteps
<1>4. NoWorker \in Worker
  BY <1>1, <1>2 DEF NoWorker, WorkerSteps, Worker
<1>5. NoRequest \in [seek : BOOLEAN, to : 0..Last, again : BOOLEAN]
  BY <1>1 DEF NoRequest
<1>6. [NoDemux EXCEPT !.at = "open"] \in [at : DemuxSteps, to : 0..Last, next : Nat \ {0}, eof : BOOLEAN]
  BY <1>3 DEF DemuxSteps
<1>7. [NoWorker EXCEPT !.at = "pop"] \in Worker
  BY <1>4 DEF WorkerSteps, Worker
<1> QED
  BY <1>3, <1>4, <1>5, <1>6, <1>7

(* What a worker shows, or puts out, has a position.                        *)
LEMMA DataWorker ==
  ASSUME WorkerOK, NEW s \in Streams, worker[s].item.kind = "data"
  PROVE  worker[s].item.pos \in Positions
<1>1. worker[s].item \in Items
  BY DEF WorkerOK, Worker
<1> QED
  BY <1>1 DEF Items

(* Before a file is opened, the threads of the one before have gone.        *)
LEMMA Silent ==
  ASSUME IInv, Stopped
  PROVE  ~device /\ sound = <<>>
<1>1. worker["audio"].at \in Over
  BY DEF Stopped, IInv, StatusInv, Over, Streams
<1> QED
  BY <1>1 DEF IInv, DeviceInv

(* What a worker is sent to do with the packet it took.                     *)
LEMMA HandlingType ==
  ASSUME NEW s \in Streams, queue[s] # <<>>, Head(queue[s]) \in Items
  PROVE  /\ Handling(s) \in {"pop", "reset", "finish", "open", "admit"}
         /\ Handling(s) = "open" => /\ s = "audio" /\ Head(queue[s]).kind = "data"
                                    /\ ~(Head(queue[s]).pos < worker[s].from)
         /\ Handling(s) = "admit" => s # "audio" /\ Head(queue[s]).kind = "data"
<1> DEFINE x == Head(queue[s])
<1>1. x.kind \in {"marker", "end", "data"}
  BY DEF Items
<1>2. CASE x.kind = "marker"
  BY <1>2 DEF Handling
<1>3. CASE x.kind = "end"
  BY <1>3 DEF Handling
<1>4. CASE x.kind = "data"
  BY <1>4 DEF Handling
<1> QED
  BY <1>1, <1>2, <1>3, <1>4

(* A worker that a marker has start afresh is a worker.                     *)
LEMMA Restarted ==
  ASSUME NEW v \in Worker, NEW n \in Nat, NEW t \in 0..Last, NEW works \in BOOLEAN
  PROVE  [v EXCEPT !.at = "pop", !.serial = n, !.from = t, !.decoder = works, !.graph = FALSE]
           \in Worker
<1>1. "pop" \in WorkerSteps
  BY DEF WorkerSteps
<1> QED
  BY <1>1 DEF Worker

LEMMA Popped ==
  ASSUME IInv, NEW s \in Streams, Pop(s)
  PROVE  /\ queue[s] # <<>> /\ Head(queue[s]) \in Past(serial) /\ Head(queue[s]) \in Items
         /\ worker'[s] \in Worker /\ worker[s].at = "pop"
         /\ worker'[s].at = Handling(s) /\ worker'[s].item = Head(queue[s])
         /\ worker'[s].serial = worker[s].serial /\ worker'[s].from = worker[s].from
         /\ worker'[s].decoder = worker[s].decoder
         /\ \A v \in Streams \ {s} : worker'[v] = worker[v]
         /\ worker' \in [Streams -> Worker]
<1>1. queue[s] # <<>> /\ queue[s] \in Seq(Past(serial))
  BY DEF Pop, IInv, Types, QueueOK
<1>2. Head(queue[s]) \in Past(serial) /\ Head(queue[s]) \in Items
  BY <1>1, TailOf DEF Past
<1>3. Handling(s) \in WorkerSteps
  BY <1>1, <1>2, HandlingType DEF WorkerSteps
<1>4. worker[s] \in Worker /\ worker \in [Streams -> Worker]
  BY DEF IInv, Types, WorkerOK
<1>5. PICK x \in Items, step \in WorkerSteps, v \in Worker :
        x = Head(queue[s]) /\ step = Handling(s) /\ v = worker[s]
  BY <1>2, <1>3, <1>4
<1>6. PICK u : u = [v EXCEPT !.item = x, !.at = step]
  OBVIOUS
<1>7. /\ u \in Worker /\ u.at = step /\ u.item = x
      /\ u.serial = v.serial /\ u.from = v.from /\ u.decoder = v.decoder
  BY <1>6 DEF Worker
<1>8. worker' = [worker EXCEPT ![s] = u]
  BY <1>4, <1>5, <1>6, Zenon DEF Pop
<1>9. worker'[s] = u /\ worker' \in [Streams -> Worker] /\ \A z \in Streams \ {s} : worker'[z] = worker[z]
  BY <1>4, <1>7, <1>8
<1> QED
  BY <1>1, <1>2, <1>5, <1>7, <1>9 DEF Pop

LEMMA IdleStep ==
  ASSUME IInv, Idle
  PROVE  IInv'
<1>1. /\ SoundOK' /\ QueueOK' /\ DoneOK' /\ WorkerOK' /\ BudgetOK' /\ HistoryOK'
      /\ DeviceInv' /\ GenerationInv' /\ DecodingInv'
  BY Unchanged DEF Idle, Stopped
<1>2. EngineOK'
  BY LimitsAssumption DEF Idle, IInv, Types, EngineOK, Status!States
<1>3. FramesOK'
  BY LimitsAssumption DEF Idle, Stopped, FramesOK
<1>4. ScreenOK'
  BY LimitsAssumption DEF Idle, Stopped, IInv, Types, ScreenOK
<1>5. DemuxOK'
  BY Blanks DEF Idle, DemuxOK
<1>6. RequestOK'
  BY LimitsAssumption DEF Idle, Stopped, IInv, Types, RequestOK
<1>7. StatusInv'
  BY LimitsAssumption DEF Idle, Stopped, NoDemux, history, IInv, Types, StatusInv, Demuxing,
     Over, Status!StateAgrees, Status!States, Status!Running, DemuxOK, WorkerOK, Worker,
     WorkerSteps, DemuxSteps, EngineOK, Streams, None
<1> QED
  BY <1>1, <1>2, <1>3, <1>4, <1>5, <1>6, <1>7 DEF IInv, Types

LEMMA FrameAtStep ==
  ASSUME IInv, FrameAt
  PROVE  IInv'
<1>1. /\ EngineOK' /\ SoundOK' /\ DemuxOK' /\ QueueOK' /\ DoneOK' /\ WorkerOK'
      /\ RequestOK' /\ BudgetOK' /\ HistoryOK' /\ StatusInv' /\ DeviceInv' /\ GenerationInv'
      /\ DecodingInv'
  BY Unchanged DEF FrameAt, engine, session, requests
<1>2. FramesOK'
  BY LimitsAssumption DEF FrameAt, engine, IInv, Types, FramesOK
<1>3. ScreenOK'
  <2>1. Head(frames) \in Current(serial, target)
    BY TailOf DEF FrameAt, IInv, Types, FramesOK
  <2>2. <<Head(frames)>> \in Seq(Unit)
    BY <2>1, OneItem DEF Current
  <2> QED
    BY <2>2 DEF FrameAt, IInv, Types, ScreenOK
<1> QED
  BY <1>1, <1>2, <1>3 DEF IInv, Types

LEMMA TickStep ==
  ASSUME IInv, Tick
  PROVE  IInv'
<1>1. /\ SoundOK' /\ FramesOK' /\ ScreenOK' /\ DemuxOK' /\ QueueOK' /\ DoneOK'
      /\ WorkerOK' /\ RequestOK' /\ BudgetOK' /\ HistoryOK' /\ StatusInv' /\ DeviceInv'
      /\ GenerationInv' /\ DecodingInv'
  BY Unchanged DEF Tick, output, session, requests
<1>2. EngineOK'
  <2>1. clock + 1 \in 0..Last
    BY FileType, LimitsAssumption DEF Tick, IInv, Types, EngineOK
  <2> QED
    BY <2>1 DEF Tick, IInv, Types, EngineOK
<1> QED
  BY <1>1, <1>2 DEF IInv, Types

LEMMA DevicePlaysStep ==
  ASSUME IInv, DevicePlays
  PROVE  IInv'
<1>1. /\ EngineOK' /\ FramesOK' /\ ScreenOK' /\ DemuxOK' /\ QueueOK' /\ DoneOK'
      /\ WorkerOK' /\ RequestOK' /\ BudgetOK' /\ HistoryOK' /\ StatusInv' /\ GenerationInv'
      /\ DecodingInv'
  BY Unchanged DEF DevicePlays, engine, session, requests
<1>2. SoundOK'
  BY LimitsAssumption DEF DevicePlays, engine, IInv, Types, SoundOK
<1>3. DeviceInv'
  BY LimitsAssumption DEF DevicePlays, engine, session, IInv, DeviceInv, DeviceFollowsPause
<1> QED
  BY <1>1, <1>2, <1>3 DEF IInv, Types

LEMMA DemuxOpenStep ==
  ASSUME IInv, DemuxOpen
  PROVE  IInv'
<1>1. /\ SoundOK' /\ FramesOK' /\ ScreenOK' /\ RequestOK' /\ BudgetOK' /\ HistoryOK'
  BY Unchanged DEF DemuxOpen, output, requests
<1>2. EngineOK'
  <2>1. Status!Running \in Status!States
    BY DEF Status!Running, Status!States
  <2> QED
    BY <2>1, FileType DEF DemuxOpen, IInv, Types, EngineOK
<1>3. DemuxOK'
  BY LimitsAssumption DEF DemuxOpen, Demux, Marker, NoWorker, output, requests, history,
     Status!Running, End, IInv, Types, DemuxOK, DemuxSteps, Streams, None
<1>4. QueueOK'
  <2>1. serial \in Nat
    BY DEF IInv, Types, EngineOK
  <2>2. <<Marker(serial)>> \in Seq(Past(serial)) /\ <<>> \in Seq(Past(serial))
    BY <2>1, NewItems, OneItem, NoItems
  <2>3. queue' \in [Streams -> Seq(Past(serial))]
    BY <2>2 DEF DemuxOpen
  <2> QED
    BY <2>3 DEF DemuxOpen, QueueOK
<1>5. DoneOK'
  BY LimitsAssumption DEF DemuxOpen, DoneOK
<1>6. WorkerOK'
  BY Blanks DEF DemuxOpen, WorkerOK
<1>7. StatusInv'
  BY LimitsAssumption DEF DemuxOpen, Demux, Marker, NoWorker, output, requests, history,
     Status!Running, End, IInv, Types, StatusInv, Demuxing, Over, Status!StateAgrees,
     Status!States, DemuxOK, WorkerOK, Worker, WorkerSteps, DemuxSteps, EngineOK, Streams, None
<1>8. DeviceInv'
  <2>1. worker["audio"].at \in Over
    BY DEF DemuxOpen, Demux, IInv, StatusInv, Streams
  <2>2. ~device /\ sound = <<>>
    BY <2>1 DEF IInv, DeviceInv
  <2> QED
    BY <2>2 DEF DemuxOpen, output, DeviceInv, DeviceFollowsPause
<1>9. GenerationInv'
  <2>1. ASSUME NEW s \in Streams
        PROVE  /\ worker'[s].item.serial = 0 /\ worker'[s].serial = 0 /\ worker'[s].from = 0
               /\ worker'[s].at \in {"none", "pop"}
    BY DEF DemuxOpen, NoWorker, End
  <2> QED
    BY <2>1 DEF DemuxOpen, IInv, Types, EngineOK, GenerationInv
<1>10. DecodingInv'
  BY LimitsAssumption DEF DemuxOpen, NoWorker, DecodingInv, Streams
<1> QED
  BY <1>1, <1>2, <1>3, <1>4, <1>5, <1>6, <1>7, <1>8, <1>9, <1>10 DEF IInv, Types

LEMMA DemuxOpenFailsStep ==
  ASSUME IInv, DemuxOpenFails
  PROVE  IInv'
<1>1. /\ SoundOK' /\ FramesOK' /\ ScreenOK' /\ QueueOK' /\ DoneOK' /\ WorkerOK'
      /\ RequestOK' /\ HistoryOK' /\ DeviceInv' /\ GenerationInv' /\ DecodingInv'
  BY Unchanged DEF DemuxOpenFails, output
<1>2. EngineOK'
  BY LimitsAssumption DEF DemuxOpenFails, IInv, Types, EngineOK, Status!States
<1>3. DemuxOK'
  BY LimitsAssumption DEF DemuxOpenFails, Fault, Sane, Demux, output, history, IInv, Types,
     DemuxOK, DemuxSteps, Streams, None
<1>4. BudgetOK'
  BY LimitsAssumption DEF DemuxOpenFails, Fault, Sane, IInv, Types, BudgetOK
<1>5. StatusInv'
  BY LimitsAssumption DEF DemuxOpenFails, Fault, Sane, Demux, output, history, IInv, Types,
     StatusInv, Demuxing, Over, Status!StateAgrees, Status!States, Status!Running, DemuxOK,
     WorkerOK, Worker, WorkerSteps, DemuxSteps, EngineOK, Streams, None
<1> QED
  BY <1>1, <1>2, <1>3, <1>4, <1>5 DEF IInv, Types

LEMMA DemuxLoopStep ==
  ASSUME IInv, DemuxLoop
  PROVE  IInv'
<1>1. /\ EngineOK' /\ SoundOK' /\ FramesOK' /\ ScreenOK' /\ QueueOK' /\ DoneOK'
      /\ WorkerOK' /\ RequestOK' /\ BudgetOK' /\ HistoryOK' /\ DeviceInv' /\ GenerationInv'
      /\ DecodingInv'
  BY Unchanged DEF DemuxLoop, engine, output, requests
<1>2. DemuxOK'
  BY LimitsAssumption DEF DemuxLoop, Demux, Onward, engine, output, requests, history, IInv,
     Types, DemuxOK, DemuxSteps, Streams, None
<1>3. StatusInv'
  BY LimitsAssumption DEF DemuxLoop, Demux, Onward, engine, output, requests, history, IInv,
     Types, StatusInv, Demuxing, Over, Status!StateAgrees, Status!States, Status!Running,
     DemuxOK, WorkerOK, Worker, WorkerSteps, DemuxSteps, EngineOK, Streams, None
<1> QED
  BY <1>1, <1>2, <1>3 DEF IInv, Types

LEMMA DemuxCheckStep ==
  ASSUME IInv, DemuxCheck
  PROVE  IInv'
<1>1. /\ EngineOK' /\ SoundOK' /\ FramesOK' /\ ScreenOK' /\ QueueOK' /\ DoneOK'
      /\ WorkerOK' /\ RequestOK' /\ BudgetOK' /\ HistoryOK' /\ DeviceInv' /\ GenerationInv'
      /\ DecodingInv'
  BY Unchanged DEF DemuxCheck, engine, output, requests
<1>2. DemuxOK'
  BY LimitsAssumption DEF DemuxCheck, Demux, Onward, engine, output, requests, history, IInv,
     Types, DemuxOK, DemuxSteps, Streams, None
<1>3. StatusInv'
  BY LimitsAssumption DEF DemuxCheck, Demux, Onward, engine, output, requests, history, IInv,
     Types, StatusInv, Demuxing, Over, Status!StateAgrees, Status!States, Status!Running,
     DemuxOK, WorkerOK, Worker, WorkerSteps, DemuxSteps, EngineOK, Streams, None
<1> QED
  BY <1>1, <1>2, <1>3 DEF IInv, Types

LEMMA TakeCommandsStep ==
  ASSUME IInv, TakeCommands
  PROVE  IInv'
<1>1. /\ EngineOK' /\ SoundOK' /\ FramesOK' /\ ScreenOK' /\ QueueOK' /\ DoneOK'
      /\ WorkerOK' /\ BudgetOK' /\ HistoryOK' /\ DeviceInv' /\ GenerationInv' /\ DecodingInv'
  BY Unchanged DEF TakeCommands, engine, output
<1>2. DemuxOK'
  <2>1. (IF asked.seek THEN asked.to ELSE clock) \in 0..Last
    BY DEF IInv, Types, EngineOK, RequestOK
  <2> QED
    BY <2>1 DEF TakeCommands, IInv, Types, DemuxOK, DemuxSteps
<1>3. RequestOK'
  BY Blanks DEF TakeCommands, IInv, Types, RequestOK
<1>4. StatusInv'
  BY LimitsAssumption DEF TakeCommands, NoRequest, engine, output, history, IInv, Types,
     StatusInv, Demuxing, Over, Status!StateAgrees, Status!States, Status!Running, DemuxOK,
     WorkerOK, Worker, WorkerSteps, DemuxSteps, EngineOK, Streams, None
<1> QED
  BY <1>1, <1>2, <1>3, <1>4 DEF IInv, Types

LEMMA SeekFailsStep ==
  ASSUME IInv, SeekFails
  PROVE  IInv'
<1>1. /\ EngineOK' /\ SoundOK' /\ FramesOK' /\ ScreenOK' /\ QueueOK' /\ DoneOK'
      /\ WorkerOK' /\ RequestOK' /\ HistoryOK' /\ DeviceInv' /\ GenerationInv' /\ DecodingInv'
  BY Unchanged DEF SeekFails, engine, output
<1>2. DemuxOK'
  BY LimitsAssumption DEF SeekFails, Fault, Sane, Demux, engine, output, history, IInv, Types,
     DemuxOK, DemuxSteps, Streams, None
<1>3. BudgetOK'
  BY LimitsAssumption DEF SeekFails, Fault, Sane, IInv, Types, BudgetOK
<1>4. StatusInv'
  BY LimitsAssumption DEF SeekFails, Fault, Sane, Demux, engine, output, history, IInv, Types,
     StatusInv, Demuxing, Over, Status!StateAgrees, Status!States, Status!Running, DemuxOK,
     WorkerOK, Worker, WorkerSteps, DemuxSteps, EngineOK, Streams, None
<1> QED
  BY <1>1, <1>2, <1>3, <1>4 DEF IInv, Types

LEMMA SetFlagsStep ==
  ASSUME IInv, SetFlags
  PROVE  IInv'
<1>1. /\ EngineOK' /\ SoundOK' /\ FramesOK' /\ ScreenOK' /\ QueueOK' /\ WorkerOK'
      /\ RequestOK' /\ BudgetOK' /\ HistoryOK' /\ DeviceInv' /\ GenerationInv' /\ DecodingInv'
  BY Unchanged DEF SetFlags, engine, output, requests
<1>2. DemuxOK'
  BY LimitsAssumption DEF SetFlags, engine, output, requests, history, IInv, Types, DemuxOK,
     DemuxSteps, Streams, None
<1>3. DoneOK'
  BY LimitsAssumption DEF SetFlags, DoneOK
<1>4. StatusInv'
  BY LimitsAssumption DEF SetFlags, engine, output, requests, history, IInv, Types, StatusInv,
     Demuxing, Over, Status!StateAgrees, Status!States, Status!Running, DemuxOK, WorkerOK,
     Worker, WorkerSteps, DemuxSteps, EngineOK, Streams, None
<1> QED
  BY <1>1, <1>2, <1>3, <1>4 DEF IInv, Types

LEMMA ReadPacketStep ==
  ASSUME IInv, ReadPacket
  PROVE  IInv'
<1>1. /\ EngineOK' /\ SoundOK' /\ FramesOK' /\ ScreenOK' /\ DoneOK' /\ WorkerOK'
      /\ RequestOK' /\ BudgetOK' /\ DeviceInv' /\ GenerationInv' /\ DecodingInv'
  BY Unchanged DEF ReadPacket, engine, output, requests
<1>2. DemuxOK'
  <2>1. demux.next + 1 \in Nat \ {0}
    BY DEF IInv, Types, DemuxOK
  <2> QED
    BY <2>1 DEF ReadPacket, IInv, Types, DemuxOK, DemuxSteps
<1>3. QueueOK'
  <2>1. serial \in Nat /\ serial' = serial
    BY DEF ReadPacket, engine, IInv, Types, EngineOK
  <2>2. /\ Stream(demux.next) \in Streams
        /\ Data(serial, Position(demux.next)) \in Past(serial)
    BY <2>1, PositionType, NewItems DEF ReadPacket, IInv, Types
  <2> QED
    BY <2>1, <2>2, PushType DEF ReadPacket, IInv, Types
<1>4. HistoryOK'
  BY LimitsAssumption DEF ReadPacket, Size, Push, Stream, Position, Data, engine, output,
     requests, IInv, Types, HistoryOK, Streams, None
<1>5. StatusInv'
  BY LimitsAssumption DEF ReadPacket, Size, Push, Stream, Position, Data, engine, output,
     requests, IInv, Types, StatusInv, Demuxing, Over, Status!StateAgrees, Status!States,
     Status!Running, DemuxOK, WorkerOK, Worker, WorkerSteps, DemuxSteps, EngineOK, Streams, None
<1> QED
  BY <1>1, <1>2, <1>3, <1>4, <1>5 DEF IInv, Types

LEMMA ReadFailsStep ==
  ASSUME IInv, ReadFails
  PROVE  IInv'
<1>1. /\ SoundOK' /\ FramesOK' /\ ScreenOK' /\ QueueOK' /\ DoneOK' /\ WorkerOK'
      /\ RequestOK' /\ HistoryOK' /\ DeviceInv' /\ GenerationInv' /\ DecodingInv'
  BY Unchanged DEF ReadFails, output
<1>2. EngineOK'
  BY LimitsAssumption DEF ReadFails, IInv, Types, EngineOK, Status!States
<1>3. DemuxOK'
  BY LimitsAssumption DEF ReadFails, Fault, Sane, Demux, output, history, IInv, Types, DemuxOK,
     DemuxSteps, Streams, None
<1>4. BudgetOK'
  BY LimitsAssumption DEF ReadFails, Fault, Sane, IInv, Types, BudgetOK
<1>5. StatusInv'
  BY LimitsAssumption DEF ReadFails, Fault, Sane, Demux, output, history, IInv, Types, StatusInv,
     Demuxing, Over, Status!StateAgrees, Status!States, Status!Running, DemuxOK, WorkerOK,
     Worker, WorkerSteps, DemuxSteps, EngineOK, Streams, None
<1> QED
  BY <1>1, <1>2, <1>3, <1>4, <1>5 DEF IInv, Types

LEMMA ReadEndStep ==
  ASSUME IInv, ReadEnd
  PROVE  IInv'
<1>1. /\ EngineOK' /\ SoundOK' /\ FramesOK' /\ ScreenOK' /\ DoneOK' /\ WorkerOK'
      /\ RequestOK' /\ BudgetOK' /\ DeviceInv' /\ GenerationInv' /\ DecodingInv'
  BY Unchanged DEF ReadEnd, engine, output, requests
<1>2. DemuxOK'
  BY LimitsAssumption DEF ReadEnd, Demux, Size, Push, End, engine, output, requests, IInv, Types,
     DemuxOK, DemuxSteps, Streams, None
<1>3. QueueOK'
  <2>1. serial \in Nat /\ serial' = serial
    BY DEF ReadEnd, engine, IInv, Types, EngineOK
  <2>2. "audio" \in Streams /\ End(serial) \in Past(serial)
    BY <2>1, NewItems DEF Streams
  <2> QED
    BY <2>1, <2>2, PushType DEF ReadEnd, IInv, Types
<1>4. HistoryOK'
  BY LimitsAssumption DEF ReadEnd, Demux, Size, Push, End, engine, output, requests, IInv, Types,
     HistoryOK, Streams, None
<1>5. StatusInv'
  BY LimitsAssumption DEF ReadEnd, Demux, Size, Push, End, engine, output, requests, IInv, Types,
     StatusInv, Demuxing, Over, Status!StateAgrees, Status!States, Status!Running, DemuxOK,
     WorkerOK, Worker, WorkerSteps, DemuxSteps, EngineOK, Streams, None
<1> QED
  BY <1>1, <1>2, <1>3, <1>4, <1>5 DEF IInv, Types

LEMMA FinishReadingStep ==
  ASSUME IInv, FinishReading
  PROVE  IInv'
<1>1. /\ EngineOK' /\ SoundOK' /\ FramesOK' /\ ScreenOK' /\ DoneOK' /\ WorkerOK'
      /\ RequestOK' /\ BudgetOK' /\ DeviceInv' /\ GenerationInv' /\ DecodingInv'
  BY Unchanged DEF FinishReading, engine, output, requests
<1>2. DemuxOK'
  BY LimitsAssumption DEF FinishReading, Push, End, engine, output, requests, IInv, Types,
     DemuxOK, DemuxSteps, Streams, None
<1>3. QueueOK'
  <2>1. serial \in Nat /\ serial' = serial
    BY DEF FinishReading, engine, IInv, Types, EngineOK
  <2>2. "video" \in Streams /\ End(serial) \in Past(serial)
    BY <2>1, NewItems DEF Streams
  <2> QED
    BY <2>1, <2>2, PushType DEF FinishReading, IInv, Types
<1>4. HistoryOK'
  BY LimitsAssumption DEF FinishReading, Push, End, engine, output, requests, IInv, Types,
     HistoryOK, Streams, None
<1>5. StatusInv'
  BY LimitsAssumption DEF FinishReading, Push, End, engine, output, requests, IInv, Types,
     StatusInv, Demuxing, Over, Status!StateAgrees, Status!States, Status!Running, DemuxOK,
     WorkerOK, Worker, WorkerSteps, DemuxSteps, EngineOK, Streams, None
<1> QED
  BY <1>1, <1>2, <1>3, <1>4, <1>5 DEF IInv, Types

LEMMA DrainStep ==
  ASSUME IInv, Drain
  PROVE  IInv'
<1>1. /\ SoundOK' /\ FramesOK' /\ ScreenOK' /\ QueueOK' /\ DoneOK' /\ WorkerOK'
      /\ RequestOK' /\ BudgetOK' /\ HistoryOK' /\ DeviceInv' /\ GenerationInv' /\ DecodingInv'
  BY Unchanged DEF Drain, output, requests
<1>2. EngineOK'
  BY LimitsAssumption DEF Drain, IInv, Types, EngineOK, Status!States
<1>3. DemuxOK'
  BY LimitsAssumption DEF Drain, Demux, Drained, output, requests, history, IInv, Types, DemuxOK,
     DemuxSteps, Streams, None
<1>4. StatusInv'
  BY LimitsAssumption DEF Drain, Demux, Drained, output, requests, history, IInv, Types,
     StatusInv, Demuxing, Over, Status!StateAgrees, Status!States, Status!Running, DemuxOK,
     WorkerOK, Worker, WorkerSteps, DemuxSteps, EngineOK, Streams, None
<1> QED
  BY <1>1, <1>2, <1>3, <1>4 DEF IInv, Types

LEMMA QuitStep ==
  ASSUME IInv, Quit
  PROVE  IInv'
<1>1. /\ EngineOK' /\ SoundOK' /\ FramesOK' /\ ScreenOK' /\ QueueOK' /\ DoneOK'
      /\ WorkerOK' /\ BudgetOK' /\ HistoryOK' /\ DeviceInv' /\ GenerationInv' /\ DecodingInv'
  BY Unchanged DEF Quit, engine, output
<1>2. DemuxOK'
  BY LimitsAssumption DEF Quit, Demux, engine, output, history, IInv, Types, DemuxOK, DemuxSteps,
     Streams, None
<1>3. RequestOK'
  BY LimitsAssumption DEF Quit, IInv, Types, RequestOK
<1>4. StatusInv'
  BY LimitsAssumption DEF Quit, Demux, engine, output, history, IInv, Types, StatusInv, Demuxing,
     Over, Status!StateAgrees, Status!States, Status!Running, DemuxOK, WorkerOK, Worker,
     WorkerSteps, DemuxSteps, EngineOK, Streams, None
<1> QED
  BY <1>1, <1>2, <1>3, <1>4 DEF IInv, Types

LEMMA JoinStep ==
  ASSUME IInv, Join
  PROVE  IInv'
<1>1. /\ EngineOK' /\ SoundOK' /\ FramesOK' /\ ScreenOK' /\ QueueOK' /\ DoneOK'
      /\ WorkerOK' /\ RequestOK' /\ BudgetOK' /\ HistoryOK' /\ DeviceInv' /\ GenerationInv'
      /\ DecodingInv'
  BY Unchanged DEF Join, engine, output, requests
<1>2. DemuxOK'
  BY LimitsAssumption DEF Join, Demux, engine, output, requests, history, IInv, Types, DemuxOK,
     DemuxSteps, Streams, None
<1>3. StatusInv'
  BY LimitsAssumption DEF Join, Demux, engine, output, requests, history, IInv, Types, StatusInv,
     Demuxing, Over, Status!StateAgrees, Status!States, Status!Running, DemuxOK, WorkerOK,
     Worker, WorkerSteps, DemuxSteps, EngineOK, Streams, None
<1> QED
  BY <1>1, <1>2, <1>3 DEF IInv, Types

LEMMA AgainStep ==
  ASSUME IInv, Again
  PROVE  IInv'
<1>1. /\ EngineOK' /\ SoundOK' /\ FramesOK' /\ ScreenOK' /\ DemuxOK' /\ QueueOK'
      /\ DoneOK' /\ WorkerOK' /\ HistoryOK' /\ StatusInv' /\ DeviceInv' /\ GenerationInv'
      /\ DecodingInv'
  BY Unchanged DEF Again, Request, engine, output, session
<1>2. RequestOK'
  BY LimitsAssumption DEF Again, Request, Ask, engine, output, session, requests, history, IInv,
     Types, RequestOK, Streams, None
<1>3. BudgetOK'
  BY LimitsAssumption DEF Again, Request, Ask, IInv, Types, BudgetOK
<1> QED
  BY <1>1, <1>2, <1>3 DEF IInv, Types

LEMMA SubtitleFileStep ==
  ASSUME IInv, SubtitleFile
  PROVE  IInv'
<1>1. /\ EngineOK' /\ SoundOK' /\ FramesOK' /\ ScreenOK' /\ DemuxOK' /\ QueueOK'
      /\ DoneOK' /\ WorkerOK' /\ HistoryOK' /\ StatusInv' /\ DeviceInv' /\ GenerationInv'
      /\ DecodingInv'
  BY Unchanged DEF SubtitleFile, Request, engine, output, session
<1>2. RequestOK'
  BY LimitsAssumption DEF SubtitleFile, Request, IInv, Types, RequestOK
<1>3. BudgetOK'
  BY LimitsAssumption DEF SubtitleFile, Request, Ask, IInv, Types, BudgetOK
<1> QED
  BY <1>1, <1>2, <1>3 DEF IInv, Types

LEMMA OpenDeviceStep ==
  ASSUME IInv, OpenDevice
  PROVE  IInv'
<1>1. /\ EngineOK' /\ SoundOK' /\ FramesOK' /\ DemuxOK' /\ QueueOK' /\ DoneOK'
      /\ RequestOK' /\ BudgetOK' /\ HistoryOK'
  BY Unchanged DEF OpenDevice, engine, requests
<1>2. ScreenOK'
  <2>1. paused \in BOOLEAN
    BY DEF IInv, Types, EngineOK
  <2> QED
    BY <2>1, Zenon DEF OpenDevice, IInv, Types, ScreenOK
<1>3. WorkerOK'
  BY LimitsAssumption DEF OpenDevice, engine, requests, history, IInv, Types, WorkerOK, Worker,
     WorkerSteps, Streams, None
<1>4. StatusInv'
  BY LimitsAssumption DEF OpenDevice, engine, requests, history, IInv, Types, StatusInv,
     Demuxing, Over, Status!StateAgrees, Status!States, Status!Running, DemuxOK, WorkerOK,
     Worker, WorkerSteps, DemuxSteps, EngineOK, Streams, None
<1>5. DeviceInv'
  BY LimitsAssumption DEF OpenDevice, engine, IInv, Types, DeviceInv, Over, DeviceFollowsPause,
     WorkerOK, Streams
<1>6. GenerationInv'
  BY LimitsAssumption DEF OpenDevice, engine, IInv, Types, GenerationInv, WorkerOK
<1>7. DecodingInv'
  BY LimitsAssumption DEF OpenDevice, engine, IInv, Types, DecodingInv, WorkerOK, Streams
<1> QED
  BY <1>1, <1>2, <1>3, <1>4, <1>5, <1>6, <1>7 DEF IInv, Types

LEMMA OpenDeviceFailsStep ==
  ASSUME IInv, OpenDeviceFails
  PROVE  IInv'
<1>1. /\ SoundOK' /\ FramesOK' /\ ScreenOK' /\ DemuxOK' /\ QueueOK' /\ DoneOK'
      /\ RequestOK' /\ HistoryOK'
  BY Unchanged DEF OpenDeviceFails, output
<1>2. EngineOK'
  BY LimitsAssumption DEF OpenDeviceFails, IInv, Types, EngineOK, Status!States
<1>3. WorkerOK'
  BY LimitsAssumption DEF OpenDeviceFails, At, IInv, Types, WorkerOK, Worker, WorkerSteps,
     Streams
<1>4. BudgetOK'
  BY LimitsAssumption DEF OpenDeviceFails, Fault, IInv, Types, BudgetOK
<1>5. StatusInv'
  BY LimitsAssumption DEF OpenDeviceFails, Fault, At, output, history, IInv, Types, StatusInv,
     Demuxing, Over, Status!StateAgrees, Status!States, Status!Running, DemuxOK, WorkerOK,
     Worker, WorkerSteps, DemuxSteps, EngineOK, Streams, None
<1>6. DeviceInv'
  BY LimitsAssumption DEF OpenDeviceFails, At, output, IInv, DeviceInv, Over, DeviceFollowsPause
<1>7. GenerationInv'
  BY LimitsAssumption DEF OpenDeviceFails, At, IInv, GenerationInv
<1>8. DecodingInv'
  BY LimitsAssumption DEF OpenDeviceFails, At, IInv, DecodingInv
<1> QED
  BY <1>1, <1>2, <1>3, <1>4, <1>5, <1>6, <1>7, <1>8 DEF IInv, Types

LEMMA PutSoundStep ==
  ASSUME IInv, PutSound
  PROVE  IInv'
<1>1. /\ EngineOK' /\ FramesOK' /\ ScreenOK' /\ DemuxOK' /\ QueueOK' /\ DoneOK'
      /\ RequestOK' /\ BudgetOK'
  BY Unchanged DEF PutSound, engine, requests
<1>2. SoundOK'
  <2>1. UNCHANGED <<serial, target>>
    BY DEF PutSound, engine
  <2>2. CASE UNCHANGED sound
    BY <2>1, <2>2, Unchanged
  <2>3. CASE UNCHANGED sound => FALSE
    <3> DEFINE u == [serial |-> worker["audio"].serial, pos |-> worker["audio"].item.pos]
    <3>1. worker["audio"].serial = serial /\ sound' = Append(sound, u) /\ worker["audio"].at = "put"
      BY <2>3 DEF PutSound, At
    <3>2. u \in Current(serial, target)
      BY <3>1, DataWorker DEF Current, Unit, IInv, Types, EngineOK, Streams, GenerationInv,
         DecodingInv
    <3>3. sound' \in Seq(Current(serial, target))
      BY <3>1, <3>2, AppendTo DEF IInv, Types, SoundOK
    <3> QED
      BY <2>1, <3>3 DEF SoundOK, Current
  <2> QED
    BY <2>2, <2>3
<1>3. WorkerOK'
  BY LimitsAssumption DEF PutSound, At, engine, requests, IInv, Types, WorkerOK, Worker,
     WorkerSteps, Streams, None
<1>4. HistoryOK'
  <2>1. worker["audio"].item.pos \in Positions
    BY DataWorker DEF PutSound, At, IInv, Types, DecodingInv, Streams
  <2>2. sent' = sent \/ sent' = [sent EXCEPT !["audio"] = sent["audio"] \cup {worker["audio"].item.pos}]
    BY DEF PutSound
  <2>3. sent' \in [Streams -> SUBSET Positions]
    BY <2>1, <2>2 DEF IInv, Types, HistoryOK
  <2> QED
    BY <2>3 DEF PutSound, IInv, Types, HistoryOK
<1>5. StatusInv'
  BY LimitsAssumption DEF PutSound, At, engine, requests, IInv, Types, StatusInv, Demuxing, Over,
     Status!StateAgrees, Status!States, Status!Running, DemuxOK, WorkerOK, Worker, WorkerSteps,
     DemuxSteps, EngineOK, Streams, None
<1>6. DeviceInv'
  BY LimitsAssumption DEF PutSound, At, engine, IInv, DeviceInv, Over, DeviceFollowsPause
<1>7. GenerationInv'
  BY LimitsAssumption DEF PutSound, At, engine, IInv, GenerationInv
<1>8. DecodingInv'
  BY LimitsAssumption DEF PutSound, At, engine, IInv, DecodingInv
<1> QED
  BY <1>1, <1>2, <1>3, <1>4, <1>5, <1>6, <1>7, <1>8 DEF IInv, Types

LEMMA AdmitFrameStep ==
  ASSUME IInv, AdmitFrame
  PROVE  IInv'
<1>1. /\ EngineOK' /\ SoundOK' /\ FramesOK' /\ ScreenOK' /\ DemuxOK' /\ QueueOK'
      /\ DoneOK' /\ RequestOK' /\ BudgetOK' /\ HistoryOK'
  BY Unchanged DEF AdmitFrame, engine, output, requests
<1>2. WorkerOK'
  BY LimitsAssumption DEF AdmitFrame, At, IInv, Types, WorkerOK, Worker, WorkerSteps, Streams
<1>3. StatusInv'
  BY LimitsAssumption DEF AdmitFrame, At, GenerationCurrent, engine, output, requests, history,
     IInv, Types, StatusInv, Demuxing, Over, Status!StateAgrees, Status!States, Status!Running,
     DemuxOK, WorkerOK, Worker, WorkerSteps, DemuxSteps, EngineOK, Streams, None
<1>4. DeviceInv'
  BY LimitsAssumption DEF AdmitFrame, At, engine, output, IInv, Types, DeviceInv,
     DeviceFollowsPause, WorkerOK, Streams
<1>5. GenerationInv'
  BY LimitsAssumption DEF AdmitFrame, At, GenerationCurrent, engine, IInv, Types, GenerationInv,
     WorkerOK, Worker, Streams
<1>6. DecodingInv'
  <2> DEFINE v == worker["video"]
             to == worker'["video"].at
  <2>1. /\ worker'["audio"] = worker["audio"] /\ to \in {"pop", "show"} /\ v.at = "admit"
        /\ worker'["video"] = [v EXCEPT !.at = to]
    BY DEF AdmitFrame, At, IInv, Types, WorkerOK, Worker, Streams
  <2>2. v.item.kind = "data" /\ UNCHANGED <<serial, target>>
    BY <2>1 DEF AdmitFrame, engine, IInv, DecodingInv
  <2>3. ASSUME to = "show" PROVE v.item.pos >= target
    <3>1. ~(v.item.pos < target) /\ v.item.kind = "data"
      BY <2>2, <2>3 DEF AdmitFrame, At, IInv, Types, WorkerOK, Worker
    <3>2. v.item.pos \in Positions /\ target \in Nat
      BY <3>1, DataWorker, LimitsAssumption DEF IInv, Types, EngineOK, Streams
    <3> QED
      BY <3>1, <3>2 DEF Positions
  <2>4. worker'["video"].item = v.item /\ worker'["video"].serial = v.serial
    BY <2>1 DEF IInv, Types, WorkerOK, Worker, Streams
  <2> QED
    BY <2>1, <2>2, <2>3, <2>4 DEF IInv, DecodingInv
<1> QED
  BY <1>1, <1>2, <1>3, <1>4, <1>5, <1>6 DEF IInv, Types

LEMMA PushFrameStep ==
  ASSUME IInv, PushFrame
  PROVE  IInv'
<1>1. /\ EngineOK' /\ SoundOK' /\ ScreenOK' /\ DemuxOK' /\ QueueOK' /\ DoneOK'
      /\ RequestOK' /\ BudgetOK'
  BY Unchanged DEF PushFrame, engine, requests
<1>2. FramesOK'
  <2>1. UNCHANGED <<serial, target>>
    BY DEF PushFrame, engine
  <2>2. CASE UNCHANGED frames
    BY <2>1, <2>2, Unchanged
  <2>3. CASE UNCHANGED frames => FALSE
    <3> DEFINE u == [serial |-> worker["video"].serial, pos |-> worker["video"].item.pos]
    <3>1. worker["video"].serial = serial /\ frames' = Append(frames, u) /\ worker["video"].at = "show"
      BY <2>3 DEF PushFrame, At
    <3>2. u \in Current(serial, target)
      BY <3>1, DataWorker DEF Current, Unit, IInv, Types, EngineOK, Streams, DecodingInv
    <3>3. frames' \in Seq(Current(serial, target))
      BY <3>1, <3>2, AppendTo DEF IInv, Types, FramesOK
    <3> QED
      BY <2>1, <3>3 DEF FramesOK, Current
  <2> QED
    BY <2>2, <2>3
<1>3. WorkerOK'
  BY LimitsAssumption DEF PushFrame, At, requests, IInv, Types, WorkerOK, Worker, WorkerSteps,
     Streams
<1>4. HistoryOK'
  <2>1. worker["video"].item.pos \in Positions
    BY DataWorker DEF PushFrame, At, IInv, Types, DecodingInv, Streams
  <2>2. sent' = sent \/ sent' = [sent EXCEPT !["video"] = sent["video"] \cup {worker["video"].item.pos}]
    BY DEF PushFrame
  <2>3. sent' \in [Streams -> SUBSET Positions]
    BY <2>1, <2>2 DEF IInv, Types, HistoryOK
  <2> QED
    BY <2>3 DEF PushFrame, IInv, Types, HistoryOK
<1>5. StatusInv'
  BY LimitsAssumption DEF PushFrame, At, engine, requests, IInv, Types, StatusInv, Demuxing,
     Over, Status!StateAgrees, Status!States, Status!Running, DemuxOK, WorkerOK, Worker,
     WorkerSteps, DemuxSteps, EngineOK, Streams, None
<1>6. DeviceInv'
  BY LimitsAssumption DEF PushFrame, At, engine, IInv, DeviceInv, DeviceFollowsPause
<1>7. GenerationInv'
  BY LimitsAssumption DEF PushFrame, At, engine, IInv, GenerationInv
<1>8. DecodingInv'
  BY LimitsAssumption DEF PushFrame, At, engine, IInv, DecodingInv
<1> QED
  BY <1>1, <1>2, <1>3, <1>4, <1>5, <1>6, <1>7, <1>8 DEF IInv, Types

LEMMA ConvertFailsStep ==
  ASSUME IInv, ConvertFails
  PROVE  IInv'
<1>1. /\ SoundOK' /\ FramesOK' /\ ScreenOK' /\ DemuxOK' /\ QueueOK' /\ DoneOK'
      /\ RequestOK' /\ HistoryOK'
  BY Unchanged DEF ConvertFails, output
<1>2. EngineOK'
  BY LimitsAssumption DEF ConvertFails, IInv, Types, EngineOK, Status!States
<1>3. WorkerOK'
  BY LimitsAssumption DEF ConvertFails, At, IInv, Types, WorkerOK, Worker, WorkerSteps, Streams
<1>4. BudgetOK'
  BY LimitsAssumption DEF ConvertFails, Fault, IInv, Types, BudgetOK
<1>5. StatusInv'
  BY LimitsAssumption DEF ConvertFails, Fault, At, output, history, IInv, Types, StatusInv,
     Demuxing, Over, Status!StateAgrees, Status!States, Status!Running, DemuxOK, WorkerOK,
     Worker, WorkerSteps, DemuxSteps, EngineOK, Streams, None
<1>6. DeviceInv'
  BY LimitsAssumption DEF ConvertFails, At, output, IInv, DeviceInv, DeviceFollowsPause
<1>7. GenerationInv'
  BY LimitsAssumption DEF ConvertFails, At, IInv, GenerationInv
<1>8. DecodingInv'
  BY LimitsAssumption DEF ConvertFails, At, IInv, DecodingInv
<1> QED
  BY <1>1, <1>2, <1>3, <1>4, <1>5, <1>6, <1>7, <1>8 DEF IInv, Types

LEMMA StopStep ==
  ASSUME IInv, NEW then \in {"stop", "open"}, Stop(then)
  PROVE  IInv'
<1>1. /\ EngineOK' /\ SoundOK' /\ FramesOK' /\ ScreenOK' /\ DemuxOK' /\ QueueOK'
      /\ DoneOK' /\ WorkerOK' /\ HistoryOK' /\ StatusInv' /\ DeviceInv' /\ GenerationInv'
      /\ DecodingInv'
  BY Unchanged DEF Stop, engine, output, session
<1>2. RequestOK'
  BY LimitsAssumption DEF Stop, IInv, Types, RequestOK
<1>3. BudgetOK'
  BY LimitsAssumption DEF Stop, Ask, IInv, Types, BudgetOK
<1> QED
  BY <1>1, <1>2, <1>3 DEF IInv, Types

LEMMA PauseStep ==
  ASSUME IInv, NEW p \in BOOLEAN, Pause(p)
  PROVE  IInv'
<1>1. /\ SoundOK' /\ FramesOK' /\ DemuxOK' /\ QueueOK' /\ DoneOK' /\ WorkerOK'
      /\ RequestOK' /\ HistoryOK' /\ GenerationInv' /\ DecodingInv'
  BY Unchanged DEF Pause, session
<1>2. EngineOK'
  BY LimitsAssumption DEF Pause, Status!Pause, IInv, Types, EngineOK, Status!States
<1>3. ScreenOK'
  BY LimitsAssumption DEF Pause, IInv, Types, ScreenOK
<1>4. BudgetOK'
  BY LimitsAssumption DEF Pause, Ask, IInv, Types, BudgetOK
<1>5. StatusInv'
  BY LimitsAssumption DEF Pause, Ask, session, requests, history, Status!Pause, IInv, Types,
     StatusInv, Demuxing, Over, Status!StateAgrees, Status!States, Status!Running, DemuxOK,
     WorkerOK, Worker, WorkerSteps, DemuxSteps, EngineOK, Streams, None
<1>6. DeviceInv'
  BY LimitsAssumption DEF Pause, session, Status!Pause, IInv, DeviceInv, DeviceFollowsPause
<1> QED
  BY <1>1, <1>2, <1>3, <1>4, <1>5, <1>6 DEF IInv, Types

LEMMA SeekStep ==
  ASSUME IInv, NEW t \in 0..Last, Seek(t)
  PROVE  IInv'
<1>1. /\ EngineOK' /\ SoundOK' /\ FramesOK' /\ ScreenOK' /\ DemuxOK' /\ QueueOK'
      /\ DoneOK' /\ WorkerOK' /\ HistoryOK' /\ StatusInv' /\ DeviceInv' /\ GenerationInv'
      /\ DecodingInv'
  BY Unchanged DEF Seek, Request, engine, output, session
<1>2. RequestOK'
  BY LimitsAssumption DEF Seek, Request, Ask, engine, output, session, requests, history, IInv,
     Types, RequestOK, Streams, None
<1>3. BudgetOK'
  BY LimitsAssumption DEF Seek, Request, Ask, IInv, Types, BudgetOK
<1> QED
  BY <1>1, <1>2, <1>3 DEF IInv, Types

LEMMA OpenStep ==
  ASSUME IInv, NEW f \in left.files, NEW t \in Starts, NEW p \in BOOLEAN, Open(f, t, p)
  PROVE  IInv'
<1>1. /\ BudgetOK'
  BY Unchanged DEF Open, Stopped
<1>2. EngineOK'
  <2>1. f \in Files /\ t \in 0..Last /\ serial + 1 \in Nat
    BY LimitsAssumption DEF IInv, Types, EngineOK, BudgetOK
  <2>2. "loading" \in Status!States
    BY DEF Status!States
  <2>3. /\ state' = "loading" /\ paused' = p /\ serial' = serial + 1 /\ target' = t /\ clock' = t
        /\ seekable' = FALSE /\ file' = f
    BY DEF Open
  <2> QED
    BY <2>1, <2>2, <2>3, Zenon DEF EngineOK
<1>3. SoundOK'
  <2>1. sound = <<>> /\ sound' = sound
    BY Silent DEF Open, Stopped
  <2> QED
    BY <2>1, NoItems DEF SoundOK
<1>4. FramesOK'
  BY LimitsAssumption DEF Open, Stopped, FramesOK
<1>5. ScreenOK'
  BY LimitsAssumption DEF Open, Stopped, IInv, Types, ScreenOK
<1>6. DemuxOK'
  BY Blanks DEF Open, DemuxOK
<1>7. QueueOK'
  BY LimitsAssumption DEF Open, QueueOK
<1>8. DoneOK'
  BY LimitsAssumption DEF Open, DoneOK
<1>9. WorkerOK'
  BY Blanks DEF Open, WorkerOK
<1>10. RequestOK'
  <2>1. t \in 0..Last /\ (t > 0) \in BOOLEAN
    BY LimitsAssumption
  <2>2. asked' = [seek |-> t > 0, to |-> t, again |-> FALSE]
    BY DEF Open, NoRequest
  <2>3. asked' \in [seek : BOOLEAN, to : 0..Last, again : BOOLEAN]
    BY <2>1, <2>2
  <2>4. commands' = (t > 0) /\ cancel' = FALSE /\ control' = [control EXCEPT !.at = "free"]
    BY DEF Open, Stopped
  <2>5. control' \in [at : {"free", "join"}, then : {"stop", "open"}]
    BY <2>4 DEF IInv, Types, RequestOK
  <2> QED
    BY <2>1, <2>3, <2>4, <2>5, Zenon DEF RequestOK
<1>11. HistoryOK'
  BY LimitsAssumption DEF Open, Stopped, NoRequest, NoWorker, NoDemux, End, IInv, Types,
     HistoryOK, Streams, None
<1>12. StatusInv'
  BY LimitsAssumption DEF Open, Stopped, NoRequest, NoWorker, NoDemux, End, IInv, Types,
     StatusInv, Demuxing, Over, Status!StateAgrees, Status!States, Status!Running, DemuxOK,
     WorkerOK, Worker, WorkerSteps, DemuxSteps, EngineOK, Streams, None
<1>13. DeviceInv'
  <2>1. ~device /\ sound = <<>> /\ UNCHANGED <<device, sound>>
    BY Silent DEF Open, Stopped
  <2> QED
    BY <2>1 DEF DeviceInv, DeviceFollowsPause
<1>14. GenerationInv'
  BY LimitsAssumption DEF Open, NoWorker, End, IInv, Types, GenerationInv, EngineOK
<1>15. DecodingInv'
  BY LimitsAssumption DEF Open, NoWorker, DecodingInv, Streams
<1> QED
  BY <1>1, <1>2, <1>3, <1>4, <1>5, <1>6, <1>7, <1>8, <1>9, <1>10, <1>11, <1>12, <1>13, <1>14,
         <1>15 DEF IInv, Types

LEMMA StartGenerationStep ==
  ASSUME IInv, NEW k \in Positions, StartGeneration(k)
  PROVE  IInv'
<1>1. /\ ScreenOK' /\ DoneOK' /\ WorkerOK' /\ RequestOK' /\ BudgetOK'
  BY Unchanged DEF StartGeneration, requests
<1>2. EngineOK'
  <2>1. demux.to \in 0..Last /\ serial + 1 \in Nat
    BY DEF IInv, Types, EngineOK, DemuxOK
  <2>2. Status!Running \in Status!States
    BY DEF Status!Running, Status!States
  <2> QED
    BY <2>1, <2>2 DEF StartGeneration, IInv, Types, EngineOK
<1>3. SoundOK'
  BY LimitsAssumption DEF StartGeneration, SoundOK
<1>4. FramesOK'
  BY LimitsAssumption DEF StartGeneration, FramesOK
<1>5. DemuxOK'
  <2>1. (k - 1) * Size + 1 \in Nat \ {0}
    <3>1. k - 1 \in Nat /\ Size \in {0, 1, 2}
      BY FewStreams, LimitsAssumption DEF Positions, IInv, Types
    <3> QED
      BY <3>1
  <2> QED
    BY <2>1 DEF StartGeneration, IInv, Types, DemuxOK, DemuxSteps
<1>6. QueueOK'
  <2>1. serial \in Nat /\ serial' = serial + 1 /\ queue' = queue
    BY DEF StartGeneration, IInv, Types, EngineOK
  <2>2. Past(serial) \subseteq Past(serial + 1)
    BY <2>1 DEF Past, Items
  <2>3. queue \in [Streams -> Seq(Past(serial + 1))]
    BY <2>2, SeqOfMore DEF IInv, Types, QueueOK
  <2> QED
    BY <2>1, <2>3 DEF QueueOK, Past
<1>7. HistoryOK'
  BY LimitsAssumption DEF StartGeneration, Size, requests, Status!Running, IInv, Types,
     HistoryOK, Streams, None
<1>8. StatusInv'
  BY LimitsAssumption DEF StartGeneration, Size, requests, Status!Running, IInv, Types,
     StatusInv, Demuxing, Over, Status!StateAgrees, Status!States, DemuxOK, WorkerOK, Worker,
     WorkerSteps, DemuxSteps, EngineOK, Streams, None
<1>9. DeviceInv'
  BY LimitsAssumption DEF StartGeneration, IInv, DeviceInv, DeviceFollowsPause
<1>10. GenerationInv'
  <2>1. serial \in Nat /\ serial' = serial + 1 /\ worker' = worker
    BY DEF StartGeneration, IInv, Types, EngineOK
  <2>2. \A s \in Streams : worker[s].item.serial \in Nat /\ worker[s].serial \in Nat
    BY DEF IInv, Types, WorkerOK, Worker, Items
  <2> QED
    BY <2>1, <2>2 DEF IInv, GenerationInv
<1>11. DecodingInv'
  BY LimitsAssumption DEF StartGeneration, IInv, Types, DecodingInv, GenerationInv, EngineOK,
     Streams
<1> QED
  BY <1>1, <1>2, <1>3, <1>4, <1>5, <1>6, <1>7, <1>8, <1>9, <1>10, <1>11 DEF IInv, Types

LEMMA ClearQueueStep ==
  ASSUME IInv, NEW s \in Streams, NEW from \in {"clear audio", "clear video"},
         NEW to \in {"clear video", "flags"}, ClearQueue(s, from, to)
  PROVE  IInv'
<1>1. /\ EngineOK' /\ SoundOK' /\ FramesOK' /\ ScreenOK' /\ DoneOK' /\ WorkerOK'
      /\ RequestOK' /\ BudgetOK' /\ HistoryOK' /\ DeviceInv' /\ GenerationInv' /\ DecodingInv'
  BY Unchanged DEF ClearQueue, Demux, engine, output, requests, history
<1>2. DemuxOK'
  BY LimitsAssumption DEF ClearQueue, Demux, Marker, engine, output, requests, history, IInv,
     Types, DemuxOK, DemuxSteps, Streams, None
<1>3. QueueOK'
  <2>1. serial \in Nat /\ serial' = serial
    BY DEF ClearQueue, engine, IInv, Types, EngineOK
  <2>2. <<Marker(serial)>> \in Seq(Past(serial))
    BY <2>1, NewItems, OneItem
  <2>3. queue' = queue \/ queue' = [queue EXCEPT ![s] = <<Marker(serial)>>]
    BY DEF ClearQueue
  <2>4. queue' \in [Streams -> Seq(Past(serial))]
    BY <2>2, <2>3 DEF IInv, Types, QueueOK
  <2> QED
    BY <2>1, <2>4 DEF QueueOK, Past
<1>4. StatusInv'
  BY LimitsAssumption DEF ClearQueue, Demux, Marker, engine, output, requests, history, IInv,
     Types, StatusInv, Demuxing, Over, Status!StateAgrees, Status!States, Status!Running,
     DemuxOK, WorkerOK, Worker, WorkerSteps, DemuxSteps, EngineOK, Streams, None
<1> QED
  BY <1>1, <1>2, <1>3, <1>4 DEF IInv, Types

LEMMA PopStep ==
  ASSUME IInv, NEW s \in Streams, Pop(s)
  PROVE  IInv'
<1>1. /\ EngineOK' /\ SoundOK' /\ FramesOK' /\ ScreenOK' /\ DemuxOK' /\ RequestOK'
      /\ BudgetOK' /\ HistoryOK'
  BY Unchanged DEF Pop, engine, output, requests
<1>2. QueueOK'
  <2>1. serial' = serial /\ queue' = [queue EXCEPT ![s] = Tail(queue[s])]
    BY DEF Pop, engine
  <2>2. queue[s] \in Seq(Past(serial)) /\ Tail(queue[s]) \in Seq(Past(serial))
    BY Popped, TailOf DEF IInv, Types, QueueOK
  <2>3. queue' \in [Streams -> Seq(Past(serial))]
    BY <2>1, <2>2 DEF IInv, Types, QueueOK
  <2> QED
    BY <2>1, <2>3 DEF QueueOK, Past
<1>3. DoneOK'
  BY LimitsAssumption DEF Pop, IInv, Types, DoneOK
<1>4. WorkerOK'
  BY Popped DEF WorkerOK
<1>5. StatusInv'
  BY LimitsAssumption DEF Pop, Decodable, Handling, engine, output, requests, history,
     GenerationCurrent, IInv, Types, StatusInv, Demuxing, Over, Status!StateAgrees,
     Status!States, Status!Running, DemuxOK, WorkerOK, Worker, WorkerSteps, DemuxSteps, EngineOK,
     Streams, None
<1>6. DeviceInv'
  <2>1. worker'["audio"].at \in Over => worker["audio"].at \in Over
    BY Popped, HandlingType DEF Over, Streams
  <2> QED
    BY <2>1 DEF Pop, engine, output, IInv, DeviceInv, DeviceFollowsPause
<1>7. GenerationInv'
  <2>1. UNCHANGED <<serial, target>>
    BY DEF Pop, engine
  <2> QED
    BY <2>1, Popped DEF IInv, GenerationInv, Past
<1>8. DecodingInv'
  <2>1. UNCHANGED <<serial, target>>
    BY DEF Pop, engine
  <2> QED
    <3> DEFINE x == Head(queue[s])
    <3>1. x.kind = "data" => x.pos \in Nat
      BY Popped, LimitsAssumption DEF Items, Positions
    <3>2. worker[s].from \in Nat
      BY LimitsAssumption DEF IInv, Types, WorkerOK, Worker
    <3>3. worker'[s].at = "open" => s = "audio" /\ x.kind = "data" /\ x.pos >= worker[s].from
      BY <3>1, <3>2, Popped, HandlingType
    <3>4. worker'[s].at = "admit" => s # "audio" /\ x.kind = "data"
      BY Popped, HandlingType
    <3>5. worker'[s].at \notin {"put", "show"} /\ worker'[s].item = x /\ worker'[s].from = worker[s].from
      BY Popped, HandlingType
    <3> QED
      BY <2>1, <3>3, <3>4, <3>5, Popped DEF IInv, DecodingInv, Streams
<1> QED
  BY <1>1, <1>2, <1>3, <1>4, <1>5, <1>6, <1>7, <1>8 DEF IInv, Types

LEMMA ExitStep ==
  ASSUME IInv, NEW s \in Streams, Exit(s)
  PROVE  IInv'
<1>1. /\ EngineOK' /\ FramesOK' /\ DemuxOK' /\ QueueOK' /\ DoneOK' /\ RequestOK'
      /\ BudgetOK' /\ HistoryOK'
  BY Unchanged DEF Exit, engine, requests
<1>2. SoundOK'
  <2>1. UNCHANGED <<serial, target>> /\ (sound' = <<>> \/ sound' = sound)
    BY DEF Exit, engine, CloseDevice
  <2> QED
    BY <2>1, NoItems DEF IInv, Types, SoundOK, Current
<1>3. ScreenOK'
  BY LimitsAssumption DEF Exit, At, CloseDevice, engine, requests, history, IInv, Types,
     ScreenOK, Streams, None
<1>4. WorkerOK'
  BY LimitsAssumption DEF Exit, At, IInv, Types, WorkerOK, Worker, WorkerSteps
<1>5. StatusInv'
  BY LimitsAssumption DEF Exit, At, CloseDevice, engine, requests, history, IInv, Types,
     StatusInv, Demuxing, Over, Status!StateAgrees, Status!States, Status!Running, DemuxOK,
     WorkerOK, Worker, WorkerSteps, DemuxSteps, EngineOK, Streams, None
<1>6. DeviceInv'
  BY LimitsAssumption DEF Exit, At, CloseDevice, engine, IInv, DeviceInv, DeviceFollowsPause
<1>7. GenerationInv'
  BY LimitsAssumption DEF Exit, At, engine, IInv, GenerationInv
<1>8. DecodingInv'
  BY LimitsAssumption DEF Exit, At, engine, IInv, DecodingInv
<1> QED
  BY <1>1, <1>2, <1>3, <1>4, <1>5, <1>6, <1>7, <1>8 DEF IInv, Types

LEMMA StreamDoneStep ==
  ASSUME IInv, NEW s \in Streams, StreamDone(s)
  PROVE  IInv'
<1>1. /\ EngineOK' /\ SoundOK' /\ FramesOK' /\ ScreenOK' /\ DemuxOK' /\ QueueOK'
      /\ RequestOK' /\ BudgetOK' /\ HistoryOK'
  BY Unchanged DEF StreamDone, engine, output, requests
<1>2. DoneOK'
  BY LimitsAssumption DEF StreamDone, IInv, Types, DoneOK
<1>3. WorkerOK'
  BY LimitsAssumption DEF StreamDone, At, IInv, Types, WorkerOK, Worker, WorkerSteps
<1>4. StatusInv'
  BY LimitsAssumption DEF StreamDone, At, engine, output, requests, history, IInv, Types,
     StatusInv, Demuxing, Over, Status!StateAgrees, Status!States, Status!Running, DemuxOK,
     WorkerOK, Worker, WorkerSteps, DemuxSteps, EngineOK, Streams, None
<1>5. DeviceInv'
  BY LimitsAssumption DEF StreamDone, At, engine, output, IInv, DeviceInv, Over,
     DeviceFollowsPause
<1>6. GenerationInv'
  BY LimitsAssumption DEF StreamDone, At, engine, IInv, GenerationInv
<1>7. DecodingInv'
  BY LimitsAssumption DEF StreamDone, At, engine, IInv, DecodingInv
<1> QED
  BY <1>1, <1>2, <1>3, <1>4, <1>5, <1>6, <1>7 DEF IInv, Types

LEMMA ReopenStep ==
  ASSUME IInv, NEW s \in Streams, NEW works \in BOOLEAN, Reopen(s, works)
  PROVE  IInv'
<1>1. /\ FramesOK' /\ DemuxOK' /\ QueueOK' /\ RequestOK' /\ HistoryOK'
  BY Unchanged DEF Reopen
<1>2. EngineOK'
  BY LimitsAssumption DEF Reopen, IInv, Types, EngineOK, Status!States
<1>3. SoundOK'
  <2>1. UNCHANGED <<serial, target>> /\ (sound' = <<>> \/ sound' = sound)
    BY DEF Reopen, CloseDevice
  <2> QED
    BY <2>1, NoItems DEF IInv, Types, SoundOK, Current
<1>4. ScreenOK'
  BY LimitsAssumption DEF Reopen, Fault, Sane, CloseDevice, history, IInv, Types, ScreenOK,
     Streams, None
<1>5. DoneOK'
  BY LimitsAssumption DEF Reopen, IInv, Types, DoneOK
<1>6. WorkerOK'
  <2> DEFINE v == [worker[s] EXCEPT !.at = "pop", !.serial = worker[s].item.serial,
                                   !.from = target, !.decoder = works, !.graph = FALSE]
  <2>1. worker[s] \in Worker /\ worker[s].item \in Items /\ target \in 0..Last
    BY DEF IInv, Types, WorkerOK, Worker, EngineOK
  <2>2. worker[s].item.serial \in Nat
    BY <2>1 DEF Items
  <2>4. v \in Worker
    BY <2>1, <2>2, Restarted
  <2>5. worker' = [worker EXCEPT ![s] = v]
    BY DEF Reopen
  <2> QED
    BY <2>4, <2>5 DEF IInv, Types, WorkerOK
<1>7. BudgetOK'
  BY LimitsAssumption DEF Reopen, Fault, Sane, IInv, Types, BudgetOK
<1>8. StatusInv'
  BY LimitsAssumption DEF Reopen, Fault, Sane, CloseDevice, history, IInv, Types, StatusInv,
     Demuxing, Over, Status!StateAgrees, Status!States, Status!Running, DemuxOK, WorkerOK,
     Worker, WorkerSteps, DemuxSteps, EngineOK, Streams, None
<1>9. DeviceInv'
  BY LimitsAssumption DEF Reopen, CloseDevice, IInv, DeviceInv, DeviceFollowsPause
<1>10. GenerationInv'
  BY LimitsAssumption DEF Reopen, IInv, GenerationInv
<1>11. DecodingInv'
  BY LimitsAssumption DEF Reopen, IInv, DecodingInv
<1> QED
  BY <1>1, <1>2, <1>3, <1>4, <1>5, <1>6, <1>7, <1>8, <1>9, <1>10, <1>11 DEF IInv, Types

-----------------------------------------------------------------------------
(* The invariant, and what follows from it.                                 *)

LEMMA InitInv == Init => IInv
<1> SUFFICES ASSUME Init PROVE IInv
  OBVIOUS
<1>1. EngineOK
  <2>1. 0 \in 0..Last /\ 0 \in Nat /\ "idle" \in Status!States /\ FALSE \in BOOLEAN
    BY LimitsAssumption DEF Status!States
  <2> QED
    BY <2>1, Zenon DEF Init, EngineOK
<1>2. SoundOK /\ FramesOK /\ ScreenOK
  BY NoItems DEF Init, SoundOK, FramesOK, ScreenOK
<1>3. DemuxOK /\ DoneOK /\ WorkerOK
  BY Blanks DEF Init, DemuxOK, DoneOK, WorkerOK
<1>4. QueueOK
  BY NoItems DEF Init, QueueOK
<1>5. RequestOK /\ HistoryOK
  BY Blanks DEF Init, RequestOK, HistoryOK
<1>6. BudgetOK
  BY LimitsAssumption DEF Init, BudgetOK
<1>7. \A s \in Streams : /\ worker[s].at = "none" /\ worker[s].serial = 0 /\ worker[s].from = 0
                         /\ worker[s].item.serial = 0
  BY DEF Init, NoWorker, End
<1>8. StatusInv
  BY <1>7 DEF Init, StatusInv, Status!StateAgrees, Status!States, NoDemux, Demuxing, Over
<1>9. DeviceInv /\ GenerationInv /\ DecodingInv
  BY <1>7 DEF Init, DeviceInv, DeviceFollowsPause, GenerationInv, DecodingInv, Streams
<1> QED
  BY <1>1, <1>2, <1>3, <1>4, <1>5, <1>6, <1>8, <1>9 DEF IInv, Types

LEMMA Stutter == IInv /\ UNCHANGED vars => IInv'
BY Unchanged DEF vars, engine, output, session, requests, IInv, Types

LEMMA NextInv == IInv /\ [Next]_vars => IInv'
<1> SUFFICES ASSUME IInv, [Next]_vars PROVE IInv'
  OBVIOUS
<1>1. CASE UserNext
  BY <1>1, StopStep, PauseStep, SeekStep, AgainStep, SubtitleFileStep DEF UserNext
<1>2. CASE ControlNext
  BY <1>2, IdleStep, OpenStep DEF ControlNext
<1>3. CASE FrameAt \/ Tick \/ DevicePlays
  BY <1>3, FrameAtStep, TickStep, DevicePlaysStep
<1>4. CASE DemuxNext
  <2>1. CASE DemuxOpen \/ DemuxOpenFails \/ DemuxLoop \/ DemuxCheck \/ TakeCommands \/ SeekFails \/ SetFlags
    BY <2>1, DemuxOpenStep, DemuxOpenFailsStep, DemuxLoopStep, DemuxCheckStep, TakeCommandsStep,
       SeekFailsStep, SetFlagsStep
  <2>2. CASE ReadPacket \/ ReadFails \/ ReadEnd \/ FinishReading \/ Drain \/ Quit \/ Join
    BY <2>2, ReadPacketStep, ReadFailsStep, ReadEndStep, FinishReadingStep, DrainStep,
       QuitStep, JoinStep
  <2>3. CASE \E k \in Positions : StartGeneration(k)
    BY <2>3, StartGenerationStep
  <2>4. CASE ClearQueue("audio", "clear audio", "clear video") \/ ClearQueue("video", "clear video", "flags")
    BY <2>4, ClearQueueStep DEF Streams
  <2> QED
    BY <1>4, <2>1, <2>2, <2>3, <2>4 DEF DemuxNext
<1>5. ASSUME NEW s \in Streams, WorkerNext(s) PROVE IInv'
  BY <1>5, PopStep, ExitStep, StreamDoneStep, ReopenStep DEF WorkerNext
<1>6. CASE AudioNext
  BY <1>5, <1>6, OpenDeviceStep, OpenDeviceFailsStep, PutSoundStep DEF AudioNext, Streams
<1>7. CASE VideoNext
  BY <1>5, <1>7, AdmitFrameStep, PushFrameStep, ConvertFailsStep DEF VideoNext, Streams
<1> QED
  BY <1>1, <1>2, <1>3, <1>4, <1>6, <1>7, Stutter DEF Next

(* The invariant that the theorems below rest on: the status fits where the *)
(* threads of simpleplay-engine.c are, no packet and no decoder is ahead of *)
(* the generation, and a decoder of the current one knows where it begins.  *)
THEOREM Invariant == Spec => []IInv
BY InitInv, NextInv, PTL DEF Spec

(* Every variable keeps its type, for files, queues and budgets of any size. *)
THEOREM TypeCorrect == Spec => []TypeOK
<1>1. IInv => TypeOK
  <2> SUFFICES ASSUME IInv PROVE TypeOK
    OBVIOUS
  <2>1. Current(serial, target) \subseteq Unit /\ Past(serial) \subseteq Items
    BY DEF Current, Past
  <2>2. sound \in Seq(Unit) /\ frames \in Seq(Unit)
    BY <2>1, SeqOfMore DEF IInv, Types, SoundOK, FramesOK
  <2>3. queue \in [Streams -> Seq(Items)]
    BY <2>1, SeqOfMore DEF IInv, Types, QueueOK
  <2> QED
    BY <2>2, <2>3, Zenon DEF TypeOK, IInv, Types, EngineOK, ScreenOK, DemuxOK, DemuxSteps,
       DoneOK, WorkerOK,
       Worker, WorkerSteps, RequestOK, BudgetOK, HistoryOK
<1> QED
  BY <1>1, Invariant, PTL

(* However a seek (handle_commands) falls among the packets, pictures and   *)
(* sound under way, what waits to be shown or heard is of the current       *)
(* generation and not before the position asked for.                        *)
THEOREM CurrentOnly == Spec => []OutputIsCurrent
<1>1. IInv => OutputIsCurrent
  <2> SUFFICES ASSUME IInv,
                      NEW u \in {frames[i] : i \in 1..Len(frames)} \cup {sound[i] : i \in 1..Len(sound)}
               PROVE  u.serial = serial /\ u.pos >= target
    BY DEF OutputIsCurrent
  <2>1. \A i \in 1..Len(frames) : frames[i] \in Current(serial, target)
    BY DEF IInv, Types, FramesOK
  <2>2. \A i \in 1..Len(sound) : sound[i] \in Current(serial, target)
    BY DEF IInv, Types, SoundOK
  <2> QED
    BY <2>1, <2>2 DEF Current
<1> QED
  BY <1>1, Invariant, PTL

(* A pause is never lost to a device that is being opened (audio_open).     *)
THEOREM DeviceAgrees == Spec => []DeviceFollowsPause
<1>1. IInv => DeviceFollowsPause
  BY DEF IInv, DeviceInv
<1> QED
  BY <1>1, Invariant, PTL

(* The engine is an implementation of what its users were promised: each     *)
(* step of its threads is, for them, one of PlayStatus's or none.            *)
THEOREM Implements == Spec => StatusSpec
<1>1. Init => Status!Init
  BY DEF Init, Status!Init
<1>2. IInv /\ [Next]_vars => [Status!Next]_(Status!vars)
  <2> SUFFICES ASSUME IInv, [Next]_vars PROVE [Status!Next]_(Status!vars)
    OBVIOUS
  <2> USE DEF Status!vars
  <2>1. paused \in BOOLEAN /\ state \in Status!States
    BY DEF IInv, Types, EngineOK
  <2>2. CASE UserNext
    BY <2>2 DEF UserNext, Stop, Pause, Seek, Again, SubtitleFile, Request, Ask, engine,
       Status!Next
  <2>3. CASE ControlNext
    BY <2>3 DEF ControlNext, Idle, Open, Status!Next, Status!Stop, Status!Open
  <2>4. CASE FrameAt \/ Tick \/ DevicePlays
    BY <2>4 DEF FrameAt, Tick, DevicePlays, engine
  <2>5. CASE DemuxNext
    <3>1. CASE DemuxOpen
      BY <3>1 DEF DemuxOpen, Demux, IInv, StatusInv, Status!Next, Status!Begin
    <3>2. CASE DemuxOpenFails \/ ReadFails
      BY <3>2 DEF DemuxOpenFails, ReadFails, Demux, IInv, StatusInv, Demuxing, Status!Next,
         Status!Fail
    <3>3. CASE Drain
      BY <3>3 DEF Drain, Demux, IInv, StatusInv, Demuxing, Status!StateAgrees, Status!Next,
         Status!Finish
    <3>4. CASE \E k \in Positions : StartGeneration(k)
      BY <3>4 DEF StartGeneration, IInv, StatusInv, Demuxing, Status!Next, Status!Restart
    <3>5. CASE DemuxLoop \/ DemuxCheck \/ TakeCommands \/ SeekFails \/ SetFlags \/ ReadPacket
               \/ ReadEnd \/ FinishReading \/ Quit \/ Join
      BY <3>5 DEF DemuxLoop, DemuxCheck, TakeCommands, SeekFails, SetFlags, ReadPacket, ReadEnd,
         FinishReading, Quit, Join, engine
    <3>6. CASE \/ ClearQueue("audio", "clear audio", "clear video")
               \/ ClearQueue("video", "clear video", "flags")
      BY <3>6 DEF ClearQueue, engine
    <3> QED
      BY <2>5, <3>1, <3>2, <3>3, <3>4, <3>5, <3>6 DEF DemuxNext
  <2>6. ASSUME NEW s \in Streams, worker[s].at \notin Over, state' = "error", UNCHANGED paused
        PROVE  Status!Next
    BY <2>6 DEF IInv, StatusInv, Over, Status!Next, Status!Fail
  <2>7. ASSUME NEW s \in Streams, WorkerNext(s) PROVE [Status!Next]_(Status!vars)
    <3>1. CASE Pop(s) \/ Exit(s) \/ StreamDone(s)
      BY <3>1 DEF Pop, Exit, StreamDone, engine
    <3>2. ASSUME NEW works \in BOOLEAN, Reopen(s, works) PROVE [Status!Next]_(Status!vars)
      BY <2>6, <3>2 DEF Reopen, Over
    <3> QED
      BY <2>7, <3>1, <3>2 DEF WorkerNext
  <2>8. CASE AudioNext
    <3>1. CASE OpenDevice \/ PutSound
      BY <3>1 DEF OpenDevice, PutSound, engine
    <3>2. CASE OpenDeviceFails
      BY <2>6, <3>2 DEF OpenDeviceFails, At, Over, Streams
    <3> QED
      BY <2>7, <2>8, <3>1, <3>2 DEF AudioNext, Streams
  <2>9. CASE VideoNext
    <3>1. CASE AdmitFrame \/ PushFrame
      BY <3>1 DEF AdmitFrame, PushFrame, engine
    <3>2. CASE ConvertFails
      BY <2>6, <3>2 DEF ConvertFails, At, Over, Streams
    <3> QED
      BY <2>7, <2>9, <3>1, <3>2 DEF VideoNext, Streams
  <2>10. CASE UNCHANGED vars
    BY <2>10 DEF vars, engine
  <2> QED
    BY <2>2, <2>3, <2>4, <2>5, <2>8, <2>9, <2>10 DEF Next
<1> QED
  BY <1>1, <1>2, Invariant, PTL DEF Spec, StatusSpec, Status!Spec

-----------------------------------------------------------------------------
(* A file that has ended was put out whole.                                 *)

(* A file that is neither over nor failed, with no packet dropped.          *)
Good == state \in {"playing", "paused"} /\ ~refused

Caught(s) == worker[s].serial = serial

(* The positions of a stream that this generation has to put out.           *)
Due(p) == p >= target /\ p >= 1 /\ p <= file.last

(* The generation has begun, and this queue is still that of the last one.  *)
Uncleared(s) == \/ demux.at = "clear audio"
                \/ demux.at = "clear video" /\ s = "video"

(* Where a position can be before it is put out.                            *)
Unread(s, p) == \E i \in demux.next..(file.last * Size) : Stream(i) = s /\ Position(i) = p
Queued(s, p) == \E j \in 1..Len(queue[s]) : queue[s][j] = Data(serial, p)
Holding(s) == worker[s].at \in {"open", "put", "admit", "show"} /\ Caught(s)
Held(s, p) == Holding(s) /\ worker[s].item.pos = p

(* The queue is of one generation, and its marker reaches the decoder first. *)
MarkerInHand(s) == worker[s].at = "reset" /\ worker[s].item = Marker(serial)
MarkerFirst(s) == queue[s] # <<>> /\ Head(queue[s]) = Marker(serial)
MarkerInv(s) ==
  /\ Uncleared(s) => /\ ~Caught(s) /\ worker[s].item.serial # serial
                     /\ \A j \in 1..Len(queue[s]) : queue[s][j].serial # serial
  /\ Good /\ ~Uncleared(s) =>
       /\ \A j \in 1..Len(queue[s]) : queue[s][j].serial = serial
       /\ Caught(s) \/ MarkerInHand(s) \/ MarkerFirst(s)
  /\ Good /\ Caught(s) =>
       /\ worker[s].decoder
       /\ worker[s].at = "reset" => worker[s].item.serial = serial

(* Nothing is lost: what is not out yet is held, or queued, or still to be  *)
(* read.  A stop has the rest dropped.                                      *)
WholeInv(s) ==
  Good /\ ~cancel => \A p \in Positions : Due(p) =>
    p \in sent[s] \/ Unread(s, p) \/ Queued(s, p) \/ Held(s, p)

(* The end follows the last packet.                                         *)
LastInv(s) ==
  Good => \A j \in 1..Len(queue[s]) : queue[s][j].kind = "end" /\ queue[s][j].serial = serial =>
    /\ demux.next > file.last * Size
    /\ \A i \in j..Len(queue[s]) : queue[s][i].kind # "data"

(* Who has met the end has put out everything.                              *)
DoneInv(s) ==
  Good /\ Caught(s) /\ (done[s] \/ worker[s].at = "finish") =>
    \A p \in Positions : Due(p) => p \in sent[s]

(* Nothing else is put out.                                                 *)
SentInv(s) ==
  /\ \A j \in 1..Len(queue[s]) :
       queue[s][j].kind = "data" /\ queue[s][j].serial = serial => queue[s][j].pos <= file.last
  /\ Holding(s) => worker[s].item.pos <= file.last
  /\ \A p \in sent[s] : Due(p)

StreamInv(s) == MarkerInv(s) /\ WholeInv(s) /\ LastInv(s) /\ DoneInv(s) /\ SentInv(s)
(* Without a device there is no sound, and sound is put into the device.    *)
SilenceInv == /\ ~device => sound = <<>>
              /\ worker["audio"].at = "put" => worker["audio"].graph
              /\ worker["audio"].graph /\ worker["audio"].at \notin Over => device
(* Where the demuxer is in the file when it begins and when it has read it. *)
OpenedInv == /\ demux.at = "open" => serial # 0 /\ demux.next = 1
             /\ demux.at = "end" => demux.next > file.last * Size

CInv == SilenceInv /\ OpenedInv /\ \A s \in file.streams : StreamInv(s)

-----------------------------------------------------------------------------
(* What the steps keep of it.                                               *)

(* What is still to be read depends on the file and on where the demuxer is. *)
LEMMA SameReading ==
  ASSUME file' = file
  PROVE  /\ Size' = Size
         /\ \A p : Due(p)' <=> (p >= target' /\ p >= 1 /\ p <= file.last)
         /\ \A s, p : Unread(s, p)' <=>
              \E i \in (demux.next)'..(file.last * Size) : Stream(i) = s /\ Position(i) = p
<1>1. Size' = Size
  BY DEF Size
<1>2. \A i : Stream(i)' = Stream(i) /\ Position(i)' = Position(i)
  BY <1>1 DEF Stream, Position, Size
<1>3. \A p : Due(p)' <=> (p >= target' /\ p >= 1 /\ p <= file.last)
  BY DEF Due
<1>4. \A s, p : Unread(s, p)' <=>
              \E i \in (demux.next)'..(file.last * Size) : Stream(i) = s /\ Position(i) = p
  BY <1>1, <1>2 DEF Unread
<1> QED
  BY <1>1, <1>3, <1>4

(* A step that leaves a stream alone keeps what holds of it.                *)
LEMMA Beside ==
  ASSUME NEW s \in Streams, StreamInv(s),
         UNCHANGED <<serial, target, file, worker[s], queue[s], sent[s], demux.next>>,
         (demux.next)' = demux.next,
         done'[s] => done[s],
         Uncleared(s)' <=> Uncleared(s), Good' => Good, cancel => cancel'
  PROVE  StreamInv(s)'
<1>1. /\ worker'[s] = worker[s] /\ queue'[s] = queue[s] /\ sent'[s] = sent[s]
      /\ serial' = serial /\ target' = target /\ file' = file
  OBVIOUS
<1>2. /\ Caught(s)' <=> Caught(s)
      /\ Holding(s)' <=> Holding(s)
      /\ MarkerInHand(s)' <=> MarkerInHand(s)
      /\ MarkerFirst(s)' <=> MarkerFirst(s)
  BY <1>1 DEF Caught, Holding, MarkerInHand, MarkerFirst, Marker
<1>3. /\ \A p : Queued(s, p)' <=> Queued(s, p)
      /\ \A p : Held(s, p)' <=> Held(s, p)
      /\ \A p : Unread(s, p)' <=> Unread(s, p)
      /\ \A p : Due(p)' <=> Due(p)
      /\ Size' = Size
  BY <1>1, <1>2, SameReading DEF Queued, Held, Data, Unread, Due
<1>4. MarkerInv(s)'
  BY <1>1, <1>2 DEF StreamInv, MarkerInv
<1>5. WholeInv(s)'
  BY <1>1, <1>3 DEF StreamInv, WholeInv
<1>6. LastInv(s)'
  BY <1>1, <1>3 DEF StreamInv, LastInv
<1>7. DoneInv(s)'
  BY <1>1, <1>2, <1>3 DEF StreamInv, DoneInv
<1>8. SentInv(s)'
  BY <1>1, <1>2, <1>3 DEF StreamInv, SentInv
<1> QED
  BY <1>4, <1>5, <1>6, <1>7, <1>8 DEF StreamInv

LEMMA FewFinite ==
  ASSUME NEW S, S \subseteq Streams
  PROVE  IsFiniteSet(S)
<1>1. IsFiniteSet({"audio"}) /\ IsFiniteSet({"audio"} \cup {"video"})
  BY FS_Singleton, FS_AddElement
<1>2. Streams = {"audio"} \cup {"video"}
  BY DEF Streams
<1> QED
  BY <1>1, <1>2, FS_Subset

(* Each position of each stream is read from the key frame on.              *)
LEMMA AllAreRead ==
  ASSUME EngineOK, NEW s \in file.streams, NEW k \in Nat \ {0}, NEW p \in Nat,
         p >= k, p <= file.last
  PROVE  \E i \in ((k - 1) * Size + 1)..(file.last * Size) : Stream(i) = s /\ Position(i) = p
<1>1. file.last \in Nat /\ file.streams \subseteq Streams /\ Size \in {0, 1, 2}
  BY FileType, FewStreams, LimitsAssumption
<1>2. CASE Size = 0
  <2>1. IsFiniteSet(file.streams)
    BY <1>1, FewFinite
  <2>2. file.streams = {}
    BY <1>2, <2>1, FS_EmptySet DEF Size
  <2> QED
    BY <2>2
<1>3. CASE Size = 1
  <2>1. PICK z : file.streams = {z}
    BY <1>1, <1>3, FewFinite, FS_Singleton DEF Size
  <2>2. \A i : Stream(i) = s
    BY <1>3, <2>1 DEF Stream
  <2>3. p \in ((k - 1) * 1 + 1)..(file.last * 1) /\ Position(p) = p
    BY <1>1, <1>3 DEF Position
  <2> QED
    BY <1>3, <2>2, <2>3
<1>4. CASE Size = 2
  <2>1. CASE s = "video"
    <3>1. /\ 2 * p - 1 \in ((k - 1) * 2 + 1)..(file.last * 2)
          /\ (2 * p - 1) % 2 = 1 /\ ((2 * p - 1 - 1) \div 2) + 1 = p
      BY <1>1
    <3> QED
      BY <1>4, <2>1, <3>1 DEF Stream, Position
  <2>2. CASE s = "audio"
    <3>1. /\ 2 * p \in ((k - 1) * 2 + 1)..(file.last * 2)
          /\ (2 * p) % 2 = 0 /\ ((2 * p - 1) \div 2) + 1 = p
      BY <1>1
    <3> QED
      BY <1>4, <2>2, <3>1 DEF Stream, Position
  <2> QED
    BY <1>1, <2>1, <2>2 DEF Streams
<1> QED
  BY <1>1, <1>2, <1>3, <1>4

Clearing == {"clear audio", "clear video"}
StreamsInv == \A s \in file.streams : StreamInv(s)

(* Most steps leave every stream alone.                                     *)
LEMMA Quiet ==
  ASSUME IInv, CInv,
         UNCHANGED <<serial, target, file, queue, worker, done, sent>>,
         (demux.next)' = demux.next,
         (demux.at)' = demux.at \/ (demux.at \notin Clearing /\ (demux.at)' \notin Clearing),
         Good' => Good, cancel => cancel'
  PROVE  StreamsInv'
<1> SUFFICES ASSUME NEW s \in file.streams PROVE StreamInv(s)'
  BY DEF StreamsInv
<1>1. s \in Streams /\ StreamInv(s)
  BY FileType DEF IInv, Types, CInv
<1>2. Uncleared(s)' <=> Uncleared(s)
  BY DEF Uncleared, Clearing
<1> QED
  BY <1>1, <1>2, Beside

(* A step of the demuxer that only moves it.                                *)
LEMMA MovedDemux ==
  ASSUME DemuxOK, NEW a, NEW b, Demux(a, b)
  PROVE  /\ demux.at = a /\ (demux.at)' = b /\ (demux.next)' = demux.next
         /\ (demux.eof)' = demux.eof
BY DEF DemuxOK, Demux

LEMMA DemuxerKeeps ==
  ASSUME IInv, CInv, NEW a, NEW b, Demux(a, b), a \notin Clearing, b \notin Clearing,
         UNCHANGED <<serial, target, file, queue, worker, done, sent>>,
         Good' => Good, cancel => cancel'
  PROVE  StreamsInv'
<1>1. demux.at = a /\ (demux.at)' = b /\ (demux.next)' = demux.next
  BY MovedDemux DEF IInv, Types
<1> QED
  BY <1>1, Quiet

LEMMA UserKeeps ==
  ASSUME IInv, CInv, UserNext
  PROVE  StreamsInv'
<1>1. ASSUME NEW then \in {"stop", "open"}, Stop(then) PROVE StreamsInv'
  BY <1>1, Quiet DEF Stop, engine, output, session, history, Good
<1>2. ASSUME NEW p \in BOOLEAN, Pause(p) PROVE StreamsInv'
  BY <1>2, Quiet DEF Pause, Status!Pause, session, history, Good
<1>3. ASSUME NEW r, Request(r) PROVE StreamsInv'
  BY <1>3, Quiet DEF Request, engine, output, session, history, Good
<1> QED
  BY <1>1, <1>2, <1>3 DEF UserNext, Seek, Again, SubtitleFile

LEMMA OutsideKeeps ==
  ASSUME IInv, CInv, FrameAt \/ Tick \/ DevicePlays \/ UNCHANGED vars
  PROVE  StreamsInv'
BY Quiet DEF FrameAt, Tick, DevicePlays, vars, engine, output, session, requests, history, Good

LEMMA DemuxKeeps ==
  ASSUME IInv, CInv,
         \/ DemuxOpenFails \/ DemuxLoop \/ DemuxCheck \/ TakeCommands
         \/ SeekFails \/ ReadFails \/ Drain \/ Quit \/ Join
  PROVE  StreamsInv'
<1>1. DemuxOK /\ Onward \notin Clearing
  BY DEF IInv, Types, Onward, Clearing
<1>2. CASE DemuxOpenFails
  <2>1. Demux("open", "quit")
    BY <1>2 DEF DemuxOpenFails
  <2>2. /\ UNCHANGED <<serial, target, file, queue, worker, done, sent>>
        /\ Good' => Good
        /\ cancel => cancel'
    BY <1>2 DEF DemuxOpenFails, output, history, Good
  <2> QED
    BY <1>1, <2>1, <2>2, DemuxerKeeps DEF Clearing
<1>3. CASE DemuxLoop
  <2>1. Demux("loop", "quit") \/ Demux("loop", Onward)
    BY <1>3 DEF DemuxLoop
  <2>2. /\ UNCHANGED <<serial, target, file, queue, worker, done, sent>>
        /\ Good' => Good
        /\ cancel => cancel'
    BY <1>3 DEF DemuxLoop, engine, requests, history, Good
  <2> QED
    BY <1>1, <2>1, <2>2, DemuxerKeeps DEF Clearing
<1>4. CASE DemuxCheck
  <2>1. Demux("check", Onward)
    BY <1>4 DEF DemuxCheck
  <2>2. /\ UNCHANGED <<serial, target, file, queue, worker, done, sent>>
        /\ Good' => Good
        /\ cancel => cancel'
    BY <1>4 DEF DemuxCheck, engine, requests, history, Good
  <2> QED
    BY <1>1, <2>1, <2>2, DemuxerKeeps DEF Clearing
<1>5. CASE TakeCommands
  <2>1. (demux.next)' = demux.next /\ (demux.at)' \in {"seek", "check"} /\ demux.at = "loop"
    BY <1>1, <1>5 DEF TakeCommands, DemuxOK
  <2> QED
    BY <1>5, <2>1, Quiet DEF TakeCommands, Clearing, engine, history, Good
<1>6. CASE SeekFails
  <2>1. Demux("seek", "check")
    BY <1>6 DEF SeekFails
  <2>2. /\ UNCHANGED <<serial, target, file, queue, worker, done, sent>>
        /\ Good' => Good
        /\ cancel => cancel'
    BY <1>6 DEF SeekFails, engine, history, Good
  <2> QED
    BY <1>1, <2>1, <2>2, DemuxerKeeps DEF Clearing
<1>7. CASE ReadFails
  <2>1. Demux("read", "quit")
    BY <1>7 DEF ReadFails
  <2>2. /\ UNCHANGED <<serial, target, file, queue, worker, done, sent>>
        /\ Good' => Good
        /\ cancel => cancel'
    BY <1>7 DEF ReadFails, output, history, Good
  <2> QED
    BY <1>1, <2>1, <2>2, DemuxerKeeps DEF Clearing
<1>8. CASE Drain
  <2>1. Demux("drain", "loop")
    BY <1>8 DEF Drain
  <2>2. /\ UNCHANGED <<serial, target, file, queue, worker, done, sent>>
        /\ Good' => Good
        /\ cancel => cancel'
    BY <1>8 DEF Drain, output, requests, history, Good
  <2> QED
    BY <1>1, <2>1, <2>2, DemuxerKeeps DEF Clearing
<1>9. CASE Quit
  <2>1. Demux("quit", "join")
    BY <1>9 DEF Quit
  <2>2. /\ UNCHANGED <<serial, target, file, queue, worker, done, sent>>
        /\ Good' => Good
        /\ cancel => cancel'
    BY <1>9 DEF Quit, engine, history, Good
  <2> QED
    BY <1>1, <2>1, <2>2, DemuxerKeeps DEF Clearing
<1>10. CASE Join
  <2>1. Demux("join", "exited")
    BY <1>10 DEF Join
  <2>2. /\ UNCHANGED <<serial, target, file, queue, worker, done, sent>>
        /\ Good' => Good
        /\ cancel => cancel'
    BY <1>10 DEF Join, engine, requests, history, Good
  <2> QED
    BY <1>1, <2>1, <2>2, DemuxerKeeps DEF Clearing
<1> QED
  BY <1>2, <1>3, <1>4, <1>5, <1>6, <1>7, <1>8, <1>9, <1>10

LEMMA ControlKeeps ==
  ASSUME IInv, CInv, ControlNext
  PROVE  StreamsInv'
<1>1. CASE Idle
  <2> SUFFICES ASSUME NEW s \in file.streams PROVE StreamInv(s)'
    BY <1>1 DEF Idle, StreamsInv
  <2>1. s \in Streams /\ SentInv(s)
    BY FileType DEF IInv, Types, CInv, StreamInv
  <2>2. ~Good' /\ ~Uncleared(s)'
    BY <1>1 DEF Idle, Good, Uncleared, NoDemux
  <2>3. SentInv(s)'
    <3>1. UNCHANGED <<serial, target, file, queue, worker, sent>>
      BY <1>1 DEF Idle, history
    <3> QED
      BY <2>1, <3>1 DEF SentInv, Holding, Caught, Due
  <2> QED
    BY <2>2, <2>3 DEF StreamInv, MarkerInv, WholeInv, LastInv, DoneInv
<1>2. ASSUME NEW f \in left.files, NEW t \in Starts, NEW p \in BOOLEAN, Open(f, t, p)
      PROVE  StreamsInv'
  <2> SUFFICES ASSUME NEW s \in f.streams PROVE StreamInv(s)'
    BY <1>2 DEF Open, StreamsInv
  <2>1. s \in Streams
    BY FilesAssumption DEF IInv, Types, BudgetOK
  <2>2. ~Good' /\ ~Uncleared(s)'
    BY <1>2 DEF Open, Good, Uncleared, NoDemux
  <2>3. /\ queue'[s] = <<>> /\ worker'[s] = NoWorker /\ sent'[s] = {}
    BY <1>2, <2>1 DEF Open
  <2>4. SentInv(s)'
    BY <2>3 DEF SentInv, Holding, NoWorker
  <2> QED
    BY <2>2, <2>4 DEF StreamInv, MarkerInv, WholeInv, LastInv, DoneInv
<1> QED
  BY <1>1, <1>2 DEF ControlNext

(* What the invariant gives of one stream.                                  *)
LEMMA OfStream ==
  ASSUME IInv, CInv, NEW s \in file.streams
  PROVE  /\ s \in Streams /\ StreamInv(s) /\ serial \in Nat /\ target \in 0..Last
         /\ worker[s] \in Worker /\ worker[s].serial <= serial /\ worker[s].item.serial <= serial
         /\ worker[s].item \in Items
         /\ Caught(s) => worker[s].from = target
         /\ queue[s] \in Seq(Past(serial)) /\ queue[s] \in Seq(Items)
         /\ demux.next \in Nat \ {0} /\ file.last \in 1..Last /\ file.last \in Nat
         /\ Size \in Nat
<1>1. s \in Streams /\ file.last \in 1..Last
  BY FileType DEF IInv, Types
<1>2. StreamInv(s)
  BY DEF CInv
<1>3. worker[s] \in Worker /\ worker[s].item \in Items
  BY <1>1 DEF IInv, Types, WorkerOK, Worker
<1>4. queue[s] \in Seq(Past(serial))
  BY <1>1 DEF IInv, Types, QueueOK
<1>5. queue[s] \in Seq(Items)
  BY <1>4, SeqOfMore DEF Past
<1>6. Size \in Nat
  BY FewStreams DEF IInv, Types
<1>7. worker[s].serial <= serial /\ worker[s].item.serial <= serial
      /\ (Caught(s) => worker[s].from = target)
  BY <1>1 DEF IInv, GenerationInv, Caught
<1> QED
  BY <1>1, <1>2, <1>3, <1>4, <1>5, <1>6, <1>7, LimitsAssumption
     DEF IInv, Types, EngineOK, DemuxOK

(* The file is open: every position is to be read, after the marker.        *)
LEMMA DemuxOpenKeeps ==
  ASSUME IInv, CInv, DemuxOpen
  PROVE  StreamsInv'
<1> SUFFICES ASSUME NEW s \in file.streams PROVE StreamInv(s)'
  BY DEF DemuxOpen, StreamsInv
<1>1. s \in Streams /\ serial \in Nat /\ file.last \in Nat
  BY OfStream
<1>2. /\ UNCHANGED <<serial, target, file, sent>> /\ serial # 0
      /\ queue'[s] = <<Marker(serial)>> /\ done'[s] = FALSE
      /\ worker'[s] = [NoWorker EXCEPT !.at = "pop"]
      /\ Demux("open", "loop")
  BY <1>1 DEF DemuxOpen, history, Demux, CInv, OpenedInv
<1>3. demux.at = "open" /\ (demux.at)' = "loop" /\ (demux.next)' = demux.next
  BY <1>2, MovedDemux DEF IInv, Types
<1>4. ~Uncleared(s)' /\ ~Caught(s)' /\ ~Holding(s)' /\ MarkerFirst(s)'
  BY <1>2, <1>3 DEF Uncleared, Caught, Holding, MarkerFirst, NoWorker, Marker
<1>5. \A j \in 1..Len(queue'[s]) : queue'[s][j] = Marker(serial)
  BY <1>2
<1>6. MarkerInv(s)'
  BY <1>2, <1>4, <1>5 DEF MarkerInv, Marker
<1>7. WholeInv(s)'
  <2>1. demux.next = 1
    BY <1>3 DEF CInv, OpenedInv
  <2>2. \A p \in Positions : Due(p)' => Unread(s, p)'
    <3> SUFFICES ASSUME NEW p \in Positions, Due(p)' PROVE Unread(s, p)'
      OBVIOUS
    <3>1. p \in Nat /\ p >= 1 /\ p <= file.last
      BY <1>2, LimitsAssumption DEF Due, Positions
    <3>2. \E i \in ((1 - 1) * Size + 1)..(file.last * Size) : Stream(i) = s /\ Position(i) = p
      BY <3>1, AllAreRead DEF IInv, Types
    <3>3. (1 - 1) * Size + 1 = 1
      BY OfStream
    <3> QED
      BY <1>2, <1>3, <2>1, <3>2, <3>3, SameReading
  <2> QED
    BY <2>2 DEF WholeInv
<1>8. LastInv(s)'
  BY <1>5 DEF LastInv, Marker
<1>9. DoneInv(s)'
  BY <1>4 DEF DoneInv
<1>10. SentInv(s)'
  <2>1. \A p \in sent[s] : Due(p)
    BY OfStream DEF StreamInv, SentInv
  <2> QED
    BY <1>2, <1>4, <1>5, <2>1 DEF SentInv, Marker, Due
<1> QED
  BY <1>6, <1>7, <1>8, <1>9, <1>10 DEF StreamInv

(* A new generation: nothing of it is out, and everything from the key      *)
(* frame on is to be read.                                                  *)
LEMMA StartGenerationKeeps ==
  ASSUME IInv, CInv, NEW k \in Positions, StartGeneration(k)
  PROVE  StreamsInv'
<1> SUFFICES ASSUME NEW s \in file.streams PROVE StreamInv(s)'
  BY DEF StartGeneration, StreamsInv
<1>1. s \in Streams /\ serial \in Nat /\ file.last \in Nat /\ k \in Nat \ {0} /\ demux.to \in Nat
  BY OfStream, LimitsAssumption DEF Positions, IInv, Types, DemuxOK
<1>2. /\ serial' = serial + 1 /\ target' = demux.to /\ UNCHANGED <<file, queue, worker, done>>
      /\ sent'[s] = {} /\ (k = 1 \/ k <= demux.to)
  BY <1>1 DEF StartGeneration
<1>3. (demux.at)' = "clear audio" /\ (demux.next)' = (k - 1) * Size + 1
  BY DEF StartGeneration, IInv, Types, DemuxOK
<1>4. Uncleared(s)'
  BY <1>3 DEF Uncleared
<1>5. worker[s].serial # serial + 1 /\ worker[s].item.serial # serial + 1
  BY OfStream DEF Worker, Items
<1>6. \A j \in 1..Len(queue[s]) : queue[s][j].serial # serial + 1
  <2>1. \A j \in 1..Len(queue[s]) : queue[s][j] \in Past(serial)
    BY OfStream
  <2> QED
    BY <1>1, <2>1 DEF Past, Items
<1>7. ~Caught(s)' /\ ~Holding(s)'
  BY <1>2, <1>5 DEF Caught, Holding
<1>8. MarkerInv(s)'
  BY <1>2, <1>4, <1>5, <1>6, <1>7 DEF MarkerInv
<1>9. WholeInv(s)'
  <2> SUFFICES ASSUME NEW p \in Positions, Due(p)' PROVE Unread(s, p)'
    BY DEF WholeInv
  <2>1. p \in Nat /\ p >= demux.to /\ p >= 1 /\ p <= file.last
    BY <1>2, LimitsAssumption DEF Due, Positions
  <2>2. p >= k
    BY <1>1, <1>2, <2>1
  <2>3. \E i \in ((k - 1) * Size + 1)..(file.last * Size) : Stream(i) = s /\ Position(i) = p
    BY <1>1, <2>1, <2>2, AllAreRead DEF IInv, Types
  <2> QED
    BY <1>2, <1>3, <2>3, SameReading
<1>10. LastInv(s)' /\ DoneInv(s)' /\ SentInv(s)'
  BY <1>2, <1>6, <1>7 DEF LastInv, DoneInv, SentInv
<1> QED
  BY <1>8, <1>9, <1>10 DEF StreamInv

(* A cleared queue holds the marker of the generation.                      *)
LEMMA Cleared ==
  ASSUME IInv, CInv, NEW s \in file.streams, Uncleared(s), ~Uncleared(s)',
         UNCHANGED <<serial, target, file, done, worker, sent, refused, state, cancel>>,
         (demux.next)' = demux.next, queue'[s] = <<Marker(serial)>>
  PROVE  StreamInv(s)'
<1>1. StreamInv(s)
  BY OfStream
<1>2. \A p : /\ Unread(s, p)' <=> Unread(s, p)
             /\ Due(p)' <=> Due(p)
  BY SameReading DEF Unread, Due
<1>3. Good' <=> Good
  BY DEF Good
<1>4. ~Caught(s)' /\ ~Holding(s)' /\ ~Caught(s) /\ ~Holding(s)
  BY <1>1 DEF Caught, Holding, StreamInv, MarkerInv
<1>5. MarkerFirst(s)'
  BY DEF MarkerFirst, Marker
<1>6. \A j \in 1..Len(queue'[s]) : queue'[s][j].kind = "marker" /\ queue'[s][j].serial = serial'
  BY DEF Marker
<1>7. MarkerInv(s)'
  BY <1>4, <1>5, <1>6 DEF MarkerInv
<1>8. WholeInv(s)'
  <2> SUFFICES ASSUME Good, ~cancel, NEW p \in Positions, Due(p)
               PROVE  p \in sent'[s] \/ Unread(s, p)
    BY <1>2, <1>3 DEF WholeInv
  <2>1. p \in sent[s] \/ Unread(s, p) \/ Queued(s, p) \/ Held(s, p)
    BY <1>1 DEF StreamInv, WholeInv
  <2>2. ~Queued(s, p) /\ ~Held(s, p)
    <3>1. \A j \in 1..Len(queue[s]) : queue[s][j].serial # serial
      BY <1>1 DEF StreamInv, MarkerInv
    <3>2. Data(serial, p).serial = serial
      BY DEF Data
    <3> QED
      BY <1>4, <3>1, <3>2 DEF Queued, Held
  <2> QED
    BY <2>1, <2>2
<1>9. LastInv(s)' /\ DoneInv(s)'
  BY <1>4, <1>6 DEF LastInv, DoneInv
<1>10. SentInv(s)'
  BY <1>1, <1>2, <1>4, <1>6 DEF StreamInv, SentInv
<1> QED
  BY <1>7, <1>8, <1>9, <1>10 DEF StreamInv

LEMMA ClearQueueKeeps ==
  ASSUME IInv, CInv, NEW v, NEW a, NEW b, ClearQueue(v, a, b),
         \/ v = "audio" /\ a = "clear audio" /\ b = "clear video"
         \/ v = "video" /\ a = "clear video" /\ b = "flags"
  PROVE  StreamsInv'
<1>1. Demux(a, b)
  BY DEF ClearQueue
<1>2. UNCHANGED <<serial, target, file, done, worker, sent, refused, state, cancel>>
  BY DEF ClearQueue, engine, requests, history
<1>3. /\ v \in file.streams => queue' = [queue EXCEPT ![v] = <<Marker(serial)>>]
      /\ v \notin file.streams => queue' = queue
  BY DEF ClearQueue
<1>4. demux.at = a /\ (demux.at)' = b /\ (demux.next)' = demux.next
  BY <1>1, MovedDemux DEF IInv, Types
<1> SUFFICES ASSUME NEW s \in file.streams PROVE StreamInv(s)'
  BY <1>2 DEF StreamsInv
<1>5. s \in {"audio", "video"} /\ StreamInv(s)
  BY OfStream DEF Streams
<1>6. queue \in [Streams -> Seq(Past(serial))]
  BY DEF IInv, Types, QueueOK
<1>7. Good' => Good
  BY <1>2 DEF Good
<1>8. CASE s # v
  <2>1. queue'[s] = queue[s]
    BY <1>3, <1>5, <1>6, <1>8 DEF Streams
  <2>2. CASE v = "audio"
    <3>1. Uncleared(s)' <=> Uncleared(s)
      BY <1>4, <1>5, <1>8, <2>2 DEF Uncleared
    <3> QED
      BY <1>2, <1>4, <1>5, <1>7, <2>1, <3>1, Beside DEF Streams
  <2>3. CASE v = "video"
    <3>1. Uncleared(s)' <=> Uncleared(s)
      BY <1>4, <1>5, <1>8, <2>3 DEF Uncleared
    <3> QED
      BY <1>2, <1>4, <1>5, <1>7, <2>1, <3>1, Beside DEF Streams
  <2> QED
    BY <2>2, <2>3
<1>9. CASE s = v
  <2>1. queue'[s] = <<Marker(serial)>>
    BY <1>3, <1>5, <1>6, <1>9 DEF Streams
  <2>2. Uncleared(s) /\ ~Uncleared(s)'
    BY <1>4, <1>9 DEF Uncleared
  <2> QED
    BY <1>2, <1>4, <2>1, <2>2, Cleared
<1> QED
  BY <1>8, <1>9

LEMMA SetFlagsKeeps ==
  ASSUME IInv, CInv, SetFlags
  PROVE  StreamsInv'
<1> SUFFICES ASSUME NEW s \in file.streams PROVE StreamInv(s)'
  BY DEF SetFlags, engine, StreamsInv
<1>1. demux.at = "flags" /\ (demux.at)' = "check" /\ (demux.next)' = demux.next
  BY DEF SetFlags, IInv, Types, DemuxOK
<1>2. /\ UNCHANGED <<serial, target, file, worker, queue, sent, state, refused, cancel>>
      /\ ~done'[s]
  BY OfStream DEF SetFlags, engine, requests, history
<1>3. Good' => Good
  BY <1>2 DEF Good
<1>4. Uncleared(s)' <=> Uncleared(s)
  BY <1>1 DEF Uncleared
<1> QED
  BY <1>1, <1>2, <1>3, <1>4, OfStream, Beside

LEMMA PositionBound ==
  ASSUME EngineOK, DemuxOK, demux.next <= file.last * Size
  PROVE  Position(demux.next) \in Positions /\ Position(demux.next) <= file.last
<1>1. demux.next \in Nat \ {0} /\ file.last \in Nat
  BY FileType, LimitsAssumption DEF DemuxOK
<1>2. Size \in {0, 1, 2}
  BY FewStreams
<1>3. Size \in {1, 2}
  BY <1>1, <1>2
<1>4. Position(demux.next) <= file.last
  <2>1. CASE Size = 1
    BY <1>1, <2>1 DEF Position
  <2>2. CASE Size = 2
    BY <1>1, <2>2 DEF Position
  <2> QED
    BY <1>3, <2>1, <2>2
<1> QED
  BY <1>4, PositionType

(* After a dropped packet nothing is promised until the next generation.    *)
LEMMA Refused ==
  ASSUME NEW s \in Streams, StreamInv(s), ~Good', ~Uncleared(s)',
         UNCHANGED <<serial, target, file, worker, sent>>, queue'[s] = queue[s]
  PROVE  StreamInv(s)'
<1>1. SentInv(s)'
  BY DEF StreamInv, SentInv, Holding, Caught, Due
<1> QED
  BY <1>1 DEF StreamInv, MarkerInv, WholeInv, LastInv, DoneInv

(* A packet of another stream is read.                                      *)
LEMMA ReadBeside ==
  ASSUME IInv, CInv, NEW s \in file.streams, ~Uncleared(s), ~Uncleared(s)', Good' => Good,
         UNCHANGED <<serial, target, file, worker, done, sent, cancel>>, queue'[s] = queue[s],
         (demux.next)' = demux.next + 1, Stream(demux.next) # s
  PROVE  StreamInv(s)'
<1>1. StreamInv(s) /\ demux.next \in Nat /\ file.last * Size \in Nat
  BY OfStream
<1>2. /\ Caught(s)' <=> Caught(s)
      /\ Holding(s)' <=> Holding(s)
      /\ MarkerInHand(s)' <=> MarkerInHand(s)
      /\ MarkerFirst(s)' <=> MarkerFirst(s)
  BY DEF Caught, Holding, MarkerInHand, MarkerFirst, Marker
<1>3. /\ \A p : Queued(s, p)' <=> Queued(s, p)
      /\ \A p : Held(s, p)' <=> Held(s, p)
      /\ \A p : Due(p)' <=> Due(p)
      /\ Size' = Size
  BY <1>2, SameReading DEF Queued, Held, Data, Due
<1>4. \A p : Unread(s, p) => Unread(s, p)'
  <2> SUFFICES ASSUME NEW p, Unread(s, p) PROVE Unread(s, p)'
    OBVIOUS
  <2>1. PICK i \in demux.next..(file.last * Size) : Stream(i) = s /\ Position(i) = p
    BY DEF Unread
  <2>2. i \in (demux.next + 1)..(file.last * Size)
    BY <1>1, <2>1
  <2> QED
    BY <2>1, <2>2, SameReading
<1>5. MarkerInv(s)'
  BY <1>1, <1>2 DEF StreamInv, MarkerInv
<1>6. WholeInv(s)'
  BY <1>1, <1>3, <1>4 DEF StreamInv, WholeInv
<1>7. LastInv(s)'
  <2> SUFFICES ASSUME Good, NEW j \in 1..Len(queue[s]),
                      queue[s][j].kind = "end", queue[s][j].serial = serial
               PROVE  /\ demux.next + 1 > file.last * Size
                      /\ \A i \in j..Len(queue[s]) : queue[s][i].kind # "data"
    BY <1>3 DEF LastInv
  <2>1. /\ demux.next > file.last * Size
        /\ \A i \in j..Len(queue[s]) : queue[s][i].kind # "data"
    BY <1>1 DEF StreamInv, LastInv
  <2> QED
    BY <1>1, <2>1
<1>8. DoneInv(s)'
  BY <1>1, <1>2, <1>3 DEF StreamInv, DoneInv
<1>9. SentInv(s)'
  BY <1>1, <1>2, <1>3 DEF StreamInv, SentInv
<1> QED
  BY <1>5, <1>6, <1>7, <1>8, <1>9 DEF StreamInv

(* What a queue holds when an item was added to it.                         *)
LEMMA AppendedItems ==
  ASSUME NEW S, NEW q \in Seq(S), NEW x \in S, NEW r, r = Append(q, x)
  PROVE  /\ Len(r) = Len(q) + 1 /\ Len(q) \in Nat /\ r # <<>>
         /\ \A j \in 1..Len(q) : r[j] = q[j]
         /\ r[Len(q) + 1] = x
         /\ q # <<>> => Head(r) = Head(q)
OBVIOUS

(* A packet of this stream, or its end, is put into the queue.              *)
LEMMA Appended ==
  ASSUME IInv, CInv, NEW s \in file.streams, NEW x \in Items, x.serial = serial,
         ~Uncleared(s), ~Uncleared(s)',
         UNCHANGED <<serial, target, file, worker, done, sent, state, refused, cancel>>,
         queue'[s] = Append(queue[s], x),
         \/ /\ x = End(serial) /\ demux.next > file.last * Size
            /\ (demux.next)' = demux.next
         \/ /\ x = Data(serial, Position(demux.next)) /\ demux.next <= file.last * Size
            /\ (demux.next)' = demux.next + 1
  PROVE  StreamInv(s)'
<1> DEFINE q == queue[s]  r == queue'[s]
<1>1. /\ StreamInv(s) /\ demux.next \in Nat /\ file.last * Size \in Nat /\ file.last \in Nat
      /\ q \in Seq(Items)
  BY OfStream
<1>2. /\ Len(r) = Len(q) + 1 /\ Len(q) \in Nat /\ r # <<>>
      /\ \A j \in 1..Len(q) : r[j] = q[j]
      /\ r[Len(q) + 1] = x
      /\ q # <<>> => Head(r) = Head(q)
  BY <1>1, AppendedItems
<1>3. \A j \in 1..Len(r) : j \in 1..Len(q) \/ (j = Len(q) + 1 /\ r[j] = x)
  BY <1>2
<1>4. /\ Caught(s)' <=> Caught(s)
      /\ Holding(s)' <=> Holding(s)
      /\ MarkerInHand(s)' <=> MarkerInHand(s)
      /\ Good' <=> Good
  BY DEF Caught, Holding, MarkerInHand, Marker, Good
<1>5. MarkerFirst(s) => MarkerFirst(s)'
  BY <1>2 DEF MarkerFirst, Marker
<1>6. /\ \A p : Held(s, p)' <=> Held(s, p)
      /\ \A p : Due(p)' <=> Due(p)
      /\ Size' = Size
  BY <1>4, SameReading DEF Held, Due
<1>7. MarkerInv(s)'
  <2>1. Good => \A j \in 1..Len(r) : r[j].serial = serial
    BY <1>1, <1>2, <1>3 DEF StreamInv, MarkerInv
  <2> QED
    BY <1>1, <1>4, <1>5, <2>1 DEF StreamInv, MarkerInv
<1>8. WholeInv(s)'
  <2> SUFFICES ASSUME Good, ~cancel, NEW p \in Positions, Due(p)
               PROVE  p \in sent[s] \/ Unread(s, p)' \/ Queued(s, p)' \/ Held(s, p)
    BY <1>4, <1>6 DEF WholeInv
  <2>1. p \in sent[s] \/ Unread(s, p) \/ Queued(s, p) \/ Held(s, p)
    BY <1>1 DEF StreamInv, WholeInv
  <2>2. Queued(s, p) => Queued(s, p)'
    BY <1>2 DEF Queued, Data
  <2>3. CASE Unread(s, p)
    <3>1. PICK i \in demux.next..(file.last * Size) : Stream(i) = s /\ Position(i) = p
      BY <2>3 DEF Unread
    <3>2. CASE i \in (demux.next)'..(file.last * Size)
      BY <3>1, <3>2, SameReading
    <3>3. CASE i \notin (demux.next)'..(file.last * Size)
      <4>1. i = demux.next /\ x = Data(serial, Position(demux.next))
        BY <1>1, <3>1, <3>3
      <4>2. r[Len(q) + 1] = Data(serial, p) /\ Len(q) + 1 \in 1..Len(r)
        BY <1>2, <3>1, <4>1
      <4> QED
        BY <4>2 DEF Queued, Data
    <3> QED
      BY <3>2, <3>3
  <2> QED
    BY <2>1, <2>2, <2>3
<1>9. LastInv(s)'
  <2> SUFFICES ASSUME Good, NEW j \in 1..Len(r), r[j].kind = "end", r[j].serial = serial
               PROVE  /\ (demux.next)' > file.last * Size
                      /\ \A i \in j..Len(r) : r[i].kind # "data"
    BY <1>4, <1>6 DEF LastInv
  <2>1. \A i \in 1..Len(q) : q[i].kind = "end" /\ q[i].serial = serial =>
          /\ demux.next > file.last * Size
          /\ \A n \in i..Len(q) : q[n].kind # "data"
    BY <1>1 DEF StreamInv, LastInv
  <2>2. CASE x = End(serial) /\ demux.next > file.last * Size /\ (demux.next)' = demux.next
    <3>1. x.kind # "data"
      BY <2>2 DEF End
    <3>2. CASE j \in 1..Len(q)
      <4>1. \A n \in j..Len(q) : q[n].kind # "data"
        BY <1>2, <2>1, <3>2
      <4> QED
        BY <1>2, <1>3, <2>2, <3>1, <4>1
    <3>3. CASE j = Len(q) + 1
      BY <1>2, <2>2, <3>1, <3>3
    <3> QED
      BY <1>3, <3>2, <3>3
  <2>3. CASE x = Data(serial, Position(demux.next)) /\ demux.next <= file.last * Size
    <3>1. x.kind # "end"
      BY <2>3 DEF Data
    <3>2. j \in 1..Len(q) /\ q[j].kind = "end" /\ q[j].serial = serial
      BY <1>2, <1>3, <3>1
    <3>3. demux.next > file.last * Size
      BY <2>1, <3>2
    <3> QED
      BY <1>1, <2>3, <3>3
  <2> QED
    BY <2>2, <2>3
<1>10. DoneInv(s)'
  BY <1>1, <1>4, <1>6 DEF StreamInv, DoneInv
<1>11. SentInv(s)'
  <2>1. x.kind = "data" => x.pos <= file.last
    BY PositionBound DEF Data, End, IInv, Types
  <2>2. \A j \in 1..Len(q) : q[j].kind = "data" /\ q[j].serial = serial => q[j].pos <= file.last
    BY <1>1 DEF StreamInv, SentInv
  <2>3. \A j \in 1..Len(r) : r[j].kind = "data" /\ r[j].serial = serial => r[j].pos <= file.last
    BY <1>2, <1>3, <2>1, <2>2
  <2> QED
    BY <1>1, <1>4, <1>6, <2>3 DEF StreamInv, SentInv
<1> QED
  BY <1>7, <1>8, <1>9, <1>10, <1>11 DEF StreamInv

(* queue_push, for the other streams and for the one it is called for.      *)
LEMMA Pushed ==
  ASSUME IInv, CInv, NEW v \in Streams, NEW x \in Items, x.serial = serial, Push(v, x),
         (demux.at)' \notin Clearing, demux.at \notin Clearing,
         UNCHANGED <<serial, target, file, worker, done, sent, state, cancel>>,
         \/ /\ x = End(serial) /\ demux.next > file.last * Size
            /\ (demux.next)' = demux.next
         \/ /\ x = Data(serial, Position(demux.next)) /\ demux.next <= file.last * Size
            /\ (demux.next)' = demux.next + 1 /\ v = Stream(demux.next)
  PROVE  StreamsInv'
<1> SUFFICES ASSUME NEW s \in file.streams PROVE StreamInv(s)'
  BY DEF StreamsInv
<1>1. s \in Streams /\ StreamInv(s) /\ ~Uncleared(s) /\ ~Uncleared(s)'
  BY OfStream DEF Uncleared, Clearing
<1>2. queue \in [Streams -> Seq(Past(serial))]
  BY DEF IInv, Types, QueueOK
<1>3. \/ refused' = TRUE /\ queue' = queue
      \/ refused' = refused /\ queue' = queue /\ v \notin file.streams
      \/ /\ refused' = refused /\ v \in file.streams
         /\ queue' = [queue EXCEPT ![v] = Append(queue[v], x)]
  BY DEF Push
<1>4. CASE refused' = TRUE /\ queue' = queue
  BY <1>1, <1>4, Refused DEF Good
<1>5. CASE refused' = refused /\ (s # v \/ v \notin file.streams)
  <2>1. queue'[s] = queue[s] /\ s # v /\ (Good' => Good)
    BY <1>1, <1>2, <1>3, <1>5 DEF Good
  <2>2. CASE (demux.next)' = demux.next
    BY <1>1, <2>1, <2>2, Beside
  <2>3. CASE (demux.next)' = demux.next + 1 /\ v = Stream(demux.next)
    BY <1>1, <2>1, <2>3, ReadBeside
  <2> QED
    BY <2>2, <2>3
<1>6. CASE refused' = refused /\ s = v /\ v \in file.streams /\ queue' # queue
  <2>1. queue'[s] = Append(queue[s], x)
    BY <1>1, <1>2, <1>3, <1>6
  <2> QED
    BY <1>1, <1>6, <2>1, Appended
<1>7. refused' = refused /\ s = v /\ queue' = queue => refused' = TRUE \/ v \notin file.streams
  <2>1. ASSUME queue' = [queue EXCEPT ![v] = Append(queue[v], x)], queue' = queue
        PROVE  FALSE
    <3>1. queue[v] = Append(queue[v], x) /\ queue[v] \in Seq(Past(serial))
      BY <1>2, <2>1
    <3>2. Len(Append(queue[v], x)) = Len(queue[v]) + 1 /\ Len(queue[v]) \in Nat
      BY <3>1
    <3> QED
      BY <3>1, <3>2
  <2> QED
    BY <1>3, <2>1
<1> QED
  BY <1>3, <1>4, <1>5, <1>6, <1>7

LEMMA ReadKeeps ==
  ASSUME IInv, CInv, ReadPacket \/ ReadEnd \/ FinishReading
  PROVE  StreamsInv'
<1>1. /\ serial \in Nat /\ EngineOK /\ DemuxOK
      /\ demux.next \in Nat /\ file.last * Size \in Nat
  BY FileType, FewStreams, LimitsAssumption DEF IInv, Types, EngineOK, DemuxOK
<1>2. End(serial) \in Items /\ End(serial).serial = serial
  BY <1>1 DEF End, Items
<1>3. CASE ReadPacket
  <2> DEFINE x == Data(serial, Position(demux.next))  v == Stream(demux.next)
  <2>1. demux.at = "read" /\ demux.next <= file.last * Size
    BY <1>3 DEF ReadPacket
  <2>2. v \in Streams /\ Position(demux.next) \in Positions
    BY <1>1, <2>1, PositionType
  <2>3. x \in Items /\ x.serial = serial
    BY <1>1, <2>2 DEF Data, Items
  <2>4. (demux.at)' = "loop" /\ (demux.next)' = demux.next + 1
    BY <1>1, <1>3 DEF ReadPacket, DemuxOK
  <2>5. Push(v, x) /\ UNCHANGED <<serial, target, file, worker, done, sent, state, cancel>>
    BY <1>3 DEF ReadPacket, engine, requests
  <2> QED
    BY <2>1, <2>2, <2>3, <2>4, <2>5, Pushed DEF Clearing
<1>4. CASE ReadEnd
  <2>1. /\ demux.next > file.last * Size /\ Demux("read", "end") /\ Push("audio", End(serial))
        /\ UNCHANGED <<serial, target, file, worker, done, sent, state, cancel>>
    BY <1>4 DEF ReadEnd, engine, requests
  <2>2. demux.at = "read" /\ (demux.at)' = "end" /\ (demux.next)' = demux.next
    BY <1>1, <2>1, MovedDemux
  <2> QED
    BY <1>2, <2>1, <2>2, Pushed DEF Clearing, Streams
<1>5. CASE FinishReading
  <2>1. /\ demux.at = "end" /\ Push("video", End(serial))
        /\ UNCHANGED <<serial, target, file, worker, done, sent, state, cancel>>
    BY <1>5 DEF FinishReading, engine, requests
  <2>2. (demux.at)' = "loop" /\ (demux.next)' = demux.next
    BY <1>1, <1>5 DEF FinishReading, DemuxOK
  <2>3. demux.next > file.last * Size
    BY <2>1 DEF CInv, OpenedInv
  <2> QED
    BY <1>2, <2>1, <2>2, <2>3, Pushed DEF Clearing, Streams
<1> QED
  BY <1>3, <1>4, <1>5

HoldSteps == {"open", "put", "admit", "show"}

(* A decoder that goes on with what it has: it may put it out or drop it,   *)
(* but it drops nothing that is due.                                        *)
LEMMA Worked ==
  ASSUME IInv, CInv, NEW s \in file.streams,
         UNCHANGED <<serial, target, file, cancel, demux>>, queue'[s] = queue[s],
         worker'[s].serial = worker[s].serial, worker'[s].item = worker[s].item,
         worker'[s].decoder = worker[s].decoder, done'[s] = done[s],
         worker[s].at # "reset", worker'[s].at \notin {"reset", "finish"}, Good' => Good,
         worker'[s].at \in HoldSteps => worker[s].at \in HoldSteps,
         sent[s] \subseteq sent'[s],
         \A p \in sent'[s] \ sent[s] : Due(p),
         Good' /\ ~cancel /\ Holding(s) /\ worker'[s].at \notin HoldSteps /\ Due(worker[s].item.pos)
           => worker[s].item.pos \in sent'[s]
  PROVE  StreamInv(s)'
<1>1. StreamInv(s)
  BY OfStream
<1>2. /\ Caught(s)' <=> Caught(s)
      /\ Holding(s)' <=> (Caught(s) /\ worker'[s].at \in HoldSteps)
      /\ Holding(s) <=> (Caught(s) /\ worker[s].at \in HoldSteps)
      /\ ~MarkerInHand(s)
      /\ MarkerFirst(s)' <=> MarkerFirst(s)
      /\ Uncleared(s)' <=> Uncleared(s)
  BY DEF Caught, Holding, MarkerInHand, MarkerFirst, Marker, Uncleared, HoldSteps
<1>3. /\ \A p : Queued(s, p)' <=> Queued(s, p)
      /\ \A p : Held(s, p)' <=> (Holding(s)' /\ worker[s].item.pos = p)
      /\ \A p : Unread(s, p)' <=> Unread(s, p)
      /\ \A p : Due(p)' <=> Due(p)
      /\ Size' = Size
  BY SameReading DEF Queued, Held, Data, Unread, Due
<1>4. MarkerInv(s)'
  BY <1>1, <1>2 DEF StreamInv, MarkerInv
<1>5. WholeInv(s)'
  <2> SUFFICES ASSUME Good', ~cancel, NEW p \in Positions, Due(p)
               PROVE  p \in sent'[s] \/ Unread(s, p) \/ Queued(s, p) \/ Held(s, p)'
    BY <1>3 DEF WholeInv
  <2>1. p \in sent[s] \/ Unread(s, p) \/ Queued(s, p) \/ Held(s, p)
    BY <1>1 DEF StreamInv, WholeInv
  <2>2. Held(s, p) => p \in sent'[s] \/ Held(s, p)'
    BY <1>2, <1>3 DEF Held
  <2> QED
    BY <2>1, <2>2
<1>6. LastInv(s)'
  BY <1>1, <1>3 DEF StreamInv, LastInv
<1>7. DoneInv(s)'
  BY <1>1, <1>2, <1>3 DEF StreamInv, DoneInv
<1>8. SentInv(s)'
  BY <1>1, <1>2, <1>3 DEF StreamInv, SentInv
<1> QED
  BY <1>4, <1>5, <1>6, <1>7, <1>8 DEF StreamInv

(* What a decoder does leaves the other stream alone.                       *)
LEMMA OneDecoder ==
  ASSUME IInv, CInv, NEW w \in Streams,
         UNCHANGED <<serial, target, file, cancel, demux>>, Good' => Good,
         \A s \in Streams \ {w} : /\ worker'[s] = worker[s] /\ queue'[s] = queue[s]
                                  /\ done'[s] = done[s] /\ sent'[s] = sent[s],
         w \in file.streams => StreamInv(w)'
  PROVE  StreamsInv'
<1> SUFFICES ASSUME NEW s \in file.streams PROVE StreamInv(s)'
  BY DEF StreamsInv
<1>1. s \in Streams /\ StreamInv(s)
  BY OfStream
<1>2. CASE s = w
  BY <1>2
<1>3. CASE s # w
  <2>1. Uncleared(s)' <=> Uncleared(s)
    BY DEF Uncleared
  <2> QED
    BY <1>1, <1>3, <2>1, Beside
<1> QED
  BY <1>2, <1>3

LEMMA MovedWorker ==
  ASSUME WorkerOK, NEW s \in Streams, NEW a, NEW b, At(s, a, b)
  PROVE  /\ worker[s].at = a /\ worker'[s].at = b
         /\ worker'[s].serial = worker[s].serial /\ worker'[s].item = worker[s].item
         /\ worker'[s].decoder = worker[s].decoder /\ worker'[s].graph = worker[s].graph
         /\ \A v \in Streams \ {s} : worker'[v] = worker[v]
BY DEF WorkerOK, Worker, At

LEMMA ExitKeeps ==
  ASSUME IInv, CInv, NEW s \in Streams, Exit(s)
  PROVE  StreamsInv'
<1>1. /\ At(s, "pop", "exited")
      /\ UNCHANGED <<serial, target, file, cancel, demux, queue, done, sent, state, refused>>
  BY DEF Exit, engine, requests, history
<1>2. /\ worker[s].at = "pop" /\ worker'[s].at = "exited"
      /\ worker'[s].serial = worker[s].serial /\ worker'[s].item = worker[s].item
      /\ worker'[s].decoder = worker[s].decoder
      /\ \A v \in Streams \ {s} : worker'[v] = worker[v]
  BY <1>1, MovedWorker DEF IInv, Types
<1>3. Good' => Good
  BY <1>1 DEF Good
<1>4. s \in file.streams => StreamInv(s)'
  BY <1>1, <1>2, <1>3, Worked DEF Holding, HoldSteps
<1> QED
  BY <1>1, <1>2, <1>3, <1>4, OneDecoder

(* A failed device or conversion ends the file.                             *)
LEMMA FailureKeeps ==
  ASSUME IInv, CInv, OpenDeviceFails \/ ConvertFails
  PROVE  StreamsInv'
<1>1. PICK s \in Streams : At(s, "open", "pop") \/ At(s, "show", "pop")
  BY DEF OpenDeviceFails, ConvertFails, Streams
<1>2. /\ UNCHANGED <<serial, target, file, cancel, demux, queue, done, sent>>
      /\ state' = "error"
  BY DEF OpenDeviceFails, ConvertFails, output, history
<1>3. /\ worker[s].at \in HoldSteps /\ worker'[s].at = "pop"
      /\ worker'[s].serial = worker[s].serial /\ worker'[s].item = worker[s].item
      /\ worker'[s].decoder = worker[s].decoder
      /\ \A v \in Streams \ {s} : worker'[v] = worker[v]
  BY <1>1, MovedWorker DEF IInv, Types, HoldSteps
<1>4. ~Good'
  BY <1>2 DEF Good
<1>5. s \in file.streams => StreamInv(s)'
  BY <1>2, <1>3, <1>4, Worked DEF HoldSteps
<1> QED
  BY <1>2, <1>3, <1>4, <1>5, OneDecoder

LEMMA OpenDeviceKeeps ==
  ASSUME IInv, CInv, OpenDevice
  PROVE  StreamsInv'
<1>1. UNCHANGED <<serial, target, file, cancel, demux, queue, done, sent, state, refused>>
  BY DEF OpenDevice, engine, requests, history
<1>2. /\ worker["audio"].at = "open" /\ worker'["audio"].at = "put"
      /\ worker'["audio"].serial = worker["audio"].serial
      /\ worker'["audio"].item = worker["audio"].item
      /\ worker'["audio"].decoder = worker["audio"].decoder
      /\ \A v \in Streams \ {"audio"} : worker'[v] = worker[v]
  BY DEF OpenDevice, IInv, Types, WorkerOK, Worker, Streams
<1>3. Good' => Good
  BY <1>1 DEF Good
<1>4. "audio" \in file.streams => StreamInv("audio")'
  BY <1>1, <1>2, <1>3, Worked DEF HoldSteps
<1> QED
  BY <1>1, <1>2, <1>3, <1>4, OneDecoder DEF Streams

LEMMA PutSoundKeeps ==
  ASSUME IInv, CInv, PutSound
  PROVE  StreamsInv'
<1> DEFINE w == worker["audio"]
<1>1. /\ At("audio", "put", "pop")
      /\ UNCHANGED <<serial, target, file, cancel, demux, queue, done, state, refused>>
      /\ \/ sent' = sent /\ (cancel \/ w.serial # serial)
         \/ w.serial = serial /\ sent' = [sent EXCEPT !["audio"] = sent["audio"] \cup {w.item.pos}]
  BY DEF PutSound, engine, requests
<1>2. /\ w.at = "put" /\ worker'["audio"].at = "pop"
      /\ worker'["audio"].serial = w.serial /\ worker'["audio"].item = w.item
      /\ worker'["audio"].decoder = w.decoder
      /\ \A v \in Streams \ {"audio"} : worker'[v] = worker[v]
  BY <1>1, MovedWorker DEF IInv, Types, Streams
<1>3. sent \in [Streams -> SUBSET Positions]
  BY DEF IInv, Types, HistoryOK
<1>4. Good' => Good
  BY <1>1 DEF Good
<1>5. \A v \in Streams \ {"audio"} : sent'[v] = sent[v]
  BY <1>1, <1>3
<1>6. ASSUME "audio" \in file.streams PROVE StreamInv("audio")'
  <2>1. CASE sent' = sent /\ (cancel \/ w.serial # serial)
    BY <1>1, <1>2, <1>4, <1>6, <2>1, Worked DEF HoldSteps, Holding, Caught
  <2>2. CASE w.serial = serial /\ sent' = [sent EXCEPT !["audio"] = sent["audio"] \cup {w.item.pos}]
    <3>1. sent'["audio"] = sent["audio"] \cup {w.item.pos}
      BY <1>3, <2>2 DEF Streams
    <3>2. Due(w.item.pos)
      <4>1. w.item.pos <= file.last
        BY <1>2, <1>6, <2>2, OfStream DEF StreamInv, SentInv, Holding, Caught
      <4>2. w.item.pos >= target
        BY <1>2, <1>6, <2>2, OfStream DEF IInv, DecodingInv, Caught
      <4>3. w.item.pos \in Positions
        BY <1>2, DataWorker DEF IInv, Types, DecodingInv, Streams
      <4> QED
        BY <4>1, <4>2, <4>3, LimitsAssumption DEF Due, Positions
    <3> QED
      BY <1>1, <1>2, <1>4, <1>6, <3>1, <3>2, Worked DEF HoldSteps
  <2> QED
    BY <1>1, <2>1, <2>2
<1> QED
  BY <1>1, <1>2, <1>4, <1>5, <1>6, OneDecoder DEF Streams

LEMMA AdmitFrameKeeps ==
  ASSUME IInv, CInv, AdmitFrame
  PROVE  StreamsInv'
<1> DEFINE w == worker["video"]
<1>1. /\ \/ At("video", "admit", "show")
         \/ At("video", "admit", "pop") /\ (w.item.pos < target \/ w.serial # serial \/ cancel)
      /\ UNCHANGED <<serial, target, file, cancel, demux, queue, done, sent, state, refused>>
  BY DEF AdmitFrame, GenerationCurrent, engine, requests, history
<1>2. /\ w.at = "admit" /\ worker'["video"].at \in {"show", "pop"}
      /\ worker'["video"].at = "pop" => w.item.pos < target \/ w.serial # serial \/ cancel
      /\ worker'["video"].serial = w.serial /\ worker'["video"].item = w.item
      /\ worker'["video"].decoder = w.decoder
      /\ \A v \in Streams \ {"video"} : worker'[v] = worker[v]
  BY <1>1, MovedWorker DEF IInv, Types, Streams
<1>3. Good' => Good
  BY <1>1 DEF Good
<1>4. ASSUME "video" \in file.streams PROVE StreamInv("video")'
  <2>1. w.item.pos \in Nat /\ target \in Nat
    <3>1. w.item.pos \in Positions
      BY <1>2, DataWorker DEF IInv, Types, DecodingInv, Streams
    <3> QED
      BY <3>1, LimitsAssumption DEF Positions, IInv, Types, EngineOK
  <2>2. Holding("video") /\ ~cancel /\ Due(w.item.pos) => worker'["video"].at \in HoldSteps
    BY <1>2, <2>1 DEF Holding, Caught, Due, HoldSteps
  <2> QED
    BY <1>1, <1>2, <1>3, <1>4, <2>2, Worked DEF HoldSteps
<1> QED
  BY <1>1, <1>2, <1>3, <1>4, OneDecoder DEF Streams

LEMMA PushFrameKeeps ==
  ASSUME IInv, CInv, PushFrame
  PROVE  StreamsInv'
<1> DEFINE w == worker["video"]
<1>1. /\ At("video", "show", "pop")
      /\ UNCHANGED <<serial, target, file, cancel, demux, queue, done, state, refused>>
      /\ \/ sent' = sent /\ w.serial # serial
         \/ w.serial = serial /\ sent' = [sent EXCEPT !["video"] = sent["video"] \cup {w.item.pos}]
  BY DEF PushFrame, engine, requests
<1>2. /\ w.at = "show" /\ worker'["video"].at = "pop"
      /\ worker'["video"].serial = w.serial /\ worker'["video"].item = w.item
      /\ worker'["video"].decoder = w.decoder
      /\ \A v \in Streams \ {"video"} : worker'[v] = worker[v]
  BY <1>1, MovedWorker DEF IInv, Types, Streams
<1>3. sent \in [Streams -> SUBSET Positions]
  BY DEF IInv, Types, HistoryOK
<1>4. Good' => Good
  BY <1>1 DEF Good
<1>5. \A v \in Streams \ {"video"} : sent'[v] = sent[v]
  BY <1>1, <1>3
<1>6. ASSUME "video" \in file.streams PROVE StreamInv("video")'
  <2>1. CASE sent' = sent /\ w.serial # serial
    BY <1>1, <1>2, <1>4, <1>6, <2>1, Worked DEF HoldSteps, Holding, Caught
  <2>2. CASE w.serial = serial /\ sent' = [sent EXCEPT !["video"] = sent["video"] \cup {w.item.pos}]
    <3>1. sent'["video"] = sent["video"] \cup {w.item.pos}
      BY <1>3, <2>2 DEF Streams
    <3>2. Due(w.item.pos)
      <4>1. w.item.pos <= file.last
        BY <1>2, <1>6, <2>2, OfStream DEF StreamInv, SentInv, Holding, Caught
      <4>2. w.item.pos >= target
        BY <1>2, <2>2 DEF IInv, DecodingInv
      <4>3. w.item.pos \in Positions
        BY <1>2, DataWorker DEF IInv, Types, DecodingInv, Streams
      <4> QED
        BY <4>1, <4>2, <4>3, LimitsAssumption DEF Due, Positions
    <3> QED
      BY <1>1, <1>2, <1>4, <1>6, <3>1, <3>2, Worked DEF HoldSteps
  <2> QED
    BY <1>1, <2>1, <2>2
<1> QED
  BY <1>1, <1>2, <1>4, <1>5, <1>6, OneDecoder DEF Streams

(* A decoder that has met the end: everything is out.                       *)
LEMMA StreamDoneKeeps ==
  ASSUME IInv, CInv, NEW w \in Streams, StreamDone(w)
  PROVE  StreamsInv'
<1>1. /\ At(w, "finish", "pop") /\ done' = [done EXCEPT ![w] = TRUE]
      /\ UNCHANGED <<serial, target, file, cancel, demux, queue, sent, state, refused>>
  BY DEF StreamDone, engine, output, requests, history
<1>2. /\ worker[w].at = "finish" /\ worker'[w].at = "pop"
      /\ worker'[w].serial = worker[w].serial /\ worker'[w].item = worker[w].item
      /\ worker'[w].decoder = worker[w].decoder
      /\ \A v \in Streams \ {w} : worker'[v] = worker[v]
  BY <1>1, MovedWorker DEF IInv, Types
<1>3. Good' <=> Good
  BY <1>1 DEF Good
<1>4. ASSUME w \in file.streams PROVE StreamInv(w)'
  <2>1. StreamInv(w)
    BY <1>4, OfStream
  <2>2. /\ Caught(w)' <=> Caught(w)
        /\ ~Holding(w)' /\ ~Holding(w)
        /\ ~MarkerInHand(w)
        /\ MarkerFirst(w)' <=> MarkerFirst(w)
        /\ Uncleared(w)' <=> Uncleared(w)
    BY <1>1, <1>2 DEF Caught, Holding, MarkerInHand, MarkerFirst, Marker, Uncleared
  <2>3. /\ \A p : Queued(w, p)' <=> Queued(w, p)
        /\ \A p : ~Held(w, p)
        /\ \A p : Unread(w, p)' <=> Unread(w, p)
        /\ \A p : Due(p)' <=> Due(p)
        /\ Size' = Size
    BY <1>1, <2>2, SameReading DEF Queued, Held, Data, Unread, Due
  <2>4. MarkerInv(w)'
    BY <1>1, <1>2, <1>3, <2>1, <2>2 DEF StreamInv, MarkerInv
  <2>5. WholeInv(w)'
    BY <1>1, <1>3, <2>1, <2>3 DEF StreamInv, WholeInv
  <2>6. LastInv(w)'
    BY <1>1, <1>3, <2>1, <2>3 DEF StreamInv, LastInv
  <2>7. DoneInv(w)'
    BY <1>1, <1>2, <1>3, <2>1, <2>2, <2>3 DEF StreamInv, DoneInv
  <2>8. SentInv(w)'
    BY <1>1, <2>1, <2>2, <2>3 DEF StreamInv, SentInv
  <2> QED
    BY <2>4, <2>5, <2>6, <2>7, <2>8 DEF StreamInv
<1>5. \A s \in Streams \ {w} : done'[s] = done[s]
  BY <1>1 DEF IInv, Types, DoneOK
<1> QED
  BY <1>1, <1>2, <1>3, <1>4, <1>5, OneDecoder

(* A decoder that starts afresh is of the generation of its marker.         *)
LEMMA ReopenKeeps ==
  ASSUME IInv, CInv, NEW w \in Streams, NEW works \in BOOLEAN, Reopen(w, works)
  PROVE  StreamsInv'
<1>1. /\ worker[w].at = "reset" /\ done' = [done EXCEPT ![w] = FALSE]
      /\ UNCHANGED <<serial, target, file, cancel, demux, queue, sent, refused>>
      /\ works => state' = state
      /\ ~works => state' = "error"
  BY DEF Reopen, history
<1>2. /\ worker'[w].at = "pop" /\ worker'[w].serial = worker[w].item.serial
      /\ worker'[w].item = worker[w].item /\ worker'[w].decoder = works
      /\ \A v \in Streams \ {w} : worker'[v] = worker[v]
  BY DEF Reopen, IInv, Types, WorkerOK, Worker
<1>3. Good' => Good /\ works
  BY <1>1 DEF Good
<1>4. done'[w] = FALSE /\ \A s \in Streams \ {w} : done'[s] = done[s]
  BY <1>1 DEF IInv, Types, DoneOK
<1>5. ASSUME w \in file.streams PROVE StreamInv(w)'
  <2>1. StreamInv(w)
    BY <1>5, OfStream
  <2>2. /\ Caught(w)' <=> worker[w].item.serial = serial
        /\ ~Holding(w)' /\ ~Holding(w)
        /\ MarkerInHand(w) => Caught(w)'
        /\ MarkerFirst(w)' <=> MarkerFirst(w)
        /\ Uncleared(w)' <=> Uncleared(w)
    BY <1>1, <1>2 DEF Caught, Holding, MarkerInHand, MarkerFirst, Marker, Uncleared
  <2>3. /\ \A p : Queued(w, p)' <=> Queued(w, p)
        /\ \A p : ~Held(w, p)
        /\ \A p : Unread(w, p)' <=> Unread(w, p)
        /\ \A p : Due(p)' <=> Due(p)
        /\ Size' = Size
    BY <1>1, <2>2, SameReading DEF Queued, Held, Data, Unread, Due
  <2>4. MarkerInv(w)'
    BY <1>1, <1>2, <1>3, <2>1, <2>2 DEF StreamInv, MarkerInv
  <2>5. WholeInv(w)'
    BY <1>1, <1>3, <2>1, <2>3 DEF StreamInv, WholeInv
  <2>6. LastInv(w)'
    BY <1>1, <1>3, <2>1, <2>3 DEF StreamInv, LastInv
  <2>7. DoneInv(w)'
    BY <1>2, <1>4 DEF DoneInv
  <2>8. SentInv(w)'
    BY <1>1, <2>1, <2>2, <2>3 DEF StreamInv, SentInv
  <2> QED
    BY <2>4, <2>5, <2>6, <2>7, <2>8 DEF StreamInv
<1> QED
  BY <1>1, <1>2, <1>3, <1>4, <1>5, OneDecoder

(* What a queue holds when its first item was taken.                        *)
LEMMA RestOf ==
  ASSUME NEW S, NEW q \in Seq(S), q # <<>>, NEW r, r = Tail(q)
  PROVE  /\ r \in Seq(S) /\ Len(q) \in Nat \ {0} /\ Len(r) = Len(q) - 1
         /\ Head(q) = q[1] /\ q[1] \in S
         /\ \A j \in 1..Len(r) : r[j] = q[j + 1] /\ j + 1 \in 1..Len(q)
         /\ \A j \in 1..Len(q) : j = 1 \/ (j - 1 \in 1..Len(r) /\ r[j - 1] = q[j])
OBVIOUS

(* What becomes of a packet.                                                *)
LEMMA HandlingOf ==
  ASSUME NEW s \in Streams, NEW x \in Items, x = Head(queue[s])
  PROVE  /\ Handling(s) \in {"open", "admit"} => x.kind = "data" /\ Decodable(s)
         /\ x.kind = "data" /\ Decodable(s) /\ ~(s = "audio" /\ x.pos < worker[s].from) =>
              Handling(s) \in {"open", "admit"}
         /\ x.kind = "marker" <=> Handling(s) = "reset"
         /\ Handling(s) = "finish" => x.kind = "end"
<1>1. x.kind \in {"marker", "end", "data"}
  BY DEF Items
<1>2. CASE x.kind = "marker"
  BY <1>2 DEF Handling
<1>3. CASE x.kind = "end"
  BY <1>3 DEF Handling
<1>4. CASE x.kind = "data"
  BY <1>4 DEF Handling
<1> QED
  BY <1>1, <1>2, <1>3, <1>4

(* A packet that is taken from the queue is dropped only if it is stale, or *)
(* before the position that was asked for.                                  *)
LEMMA Taken ==
  ASSUME IInv, CInv, NEW s \in file.streams, Pop(s)
  PROVE  StreamInv(s)'
<1> DEFINE q == queue[s]  r == queue'[s]  x == Head(queue[s])
<1>1. /\ s \in Streams /\ StreamInv(s) /\ q \in Seq(Items) /\ demux.next \in Nat
      /\ file.last * Size \in Nat /\ target \in Nat
      /\ Caught(s) => worker[s].from = target
  BY OfStream, LimitsAssumption
<1>2. /\ ~cancel /\ UNCHANGED <<serial, target, file, cancel, demux, sent, state, refused>>
  BY DEF Pop, engine, requests, history
<1>3. /\ q # <<>> /\ x \in Items /\ worker[s].at = "pop"
      /\ worker'[s].at = Handling(s) /\ worker'[s].item = x
      /\ worker'[s].serial = worker[s].serial /\ worker'[s].decoder = worker[s].decoder
  BY <1>1, Popped
<1>4. r = Tail(q)
  BY <1>1 DEF Pop, IInv, Types, QueueOK
<1>5. /\ Len(q) \in Nat \ {0} /\ Len(r) = Len(q) - 1 /\ x = q[1] /\ Len(r) \in Nat
      /\ \A j \in 1..Len(r) : r[j] = q[j + 1] /\ j + 1 \in 1..Len(q)
      /\ \A j \in 1..Len(q) : j = 1 \/ (j - 1 \in 1..Len(r) /\ r[j - 1] = q[j])
  BY <1>1, <1>3, <1>4, RestOf
<1>6. /\ Handling(s) \in {"pop", "reset", "finish", "open", "admit"}
      /\ Handling(s) \in {"open", "admit"} => x.kind = "data" /\ Decodable(s)
      /\ x.kind = "data" /\ Decodable(s) /\ ~(s = "audio" /\ x.pos < worker[s].from) =>
           Handling(s) \in {"open", "admit"}
      /\ x.kind = "marker" <=> Handling(s) = "reset"
      /\ Handling(s) = "finish" => x.kind = "end"
  BY <1>1, <1>3, HandlingType, HandlingOf
<1>7. Decodable(s) <=> (worker[s].decoder /\ x.serial = serial /\ Caught(s))
  BY <1>2 DEF Decodable, GenerationCurrent, Caught
<1>8. /\ Caught(s)' <=> Caught(s)
      /\ Holding(s)' => x.kind = "data" /\ Decodable(s)
      /\ Caught(s) /\ Handling(s) \in {"open", "admit"} => Holding(s)'
      /\ ~Holding(s) /\ ~MarkerInHand(s)
      /\ Uncleared(s)' <=> Uncleared(s)
      /\ Good' <=> Good
  BY <1>2, <1>3, <1>6 DEF Caught, Holding, MarkerInHand, Uncleared, Good
<1>9. MarkerFirst(s) => MarkerInHand(s)'
  BY <1>2, <1>3, <1>6 DEF MarkerFirst, MarkerInHand, Marker
<1>10. /\ \A p : Unread(s, p)' <=> Unread(s, p)
       /\ \A p : Due(p)' <=> Due(p)
       /\ \A p : ~Held(s, p)
       /\ \A p : Held(s, p)' <=> (Holding(s)' /\ x.pos = p)
       /\ Size' = Size
  BY <1>2, <1>3, <1>8, SameReading DEF Unread, Due, Held
<1>11. MarkerInv(s)'
  <2>1. Uncleared(s) => /\ ~Caught(s) /\ x.serial # serial
                        /\ \A j \in 1..Len(r) : r[j].serial # serial
    <3>1. Uncleared(s) => ~Caught(s) /\ \A j \in 1..Len(q) : q[j].serial # serial
      BY <1>1 DEF StreamInv, MarkerInv
    <3>2. 1 \in 1..Len(q)
      BY <1>5
    <3> QED
      BY <1>5, <3>1, <3>2
  <2>2. Good /\ ~Uncleared(s) =>
          /\ x.serial = serial /\ \A j \in 1..Len(r) : r[j].serial = serial
          /\ Caught(s) \/ MarkerFirst(s)
    BY <1>1, <1>5, <1>8 DEF StreamInv, MarkerInv
  <2>3. Good /\ Caught(s) => worker[s].decoder /\ ~Uncleared(s)
    BY <1>1 DEF StreamInv, MarkerInv
  <2>4. Uncleared(s)' => /\ ~Caught(s)' /\ worker'[s].item.serial # serial'
                         /\ \A j \in 1..Len(r) : r[j].serial # serial'
    BY <1>2, <1>3, <1>8, <2>1
  <2>5. Good' /\ ~Uncleared(s)' => /\ \A j \in 1..Len(r) : r[j].serial = serial'
                                   /\ Caught(s)' \/ MarkerInHand(s)'
    BY <1>2, <1>8, <1>9, <2>2
  <2>6. Good' /\ Caught(s)' => worker'[s].decoder /\ worker'[s].item.serial = serial'
    BY <1>2, <1>3, <1>8, <2>2, <2>3
  <2> QED
    BY <2>4, <2>5, <2>6 DEF MarkerInv
<1>12. WholeInv(s)'
  <2> SUFFICES ASSUME Good, NEW p \in Positions, Due(p)
               PROVE  p \in sent[s] \/ Unread(s, p) \/ Queued(s, p)' \/ Held(s, p)'
    BY <1>2, <1>8, <1>10 DEF WholeInv
  <2>1. p \in sent[s] \/ Unread(s, p) \/ Queued(s, p)
    BY <1>1, <1>2, <1>10 DEF StreamInv, WholeInv
  <2>2. CASE Queued(s, p)
    <3>1. PICK j \in 1..Len(q) : q[j] = Data(serial, p)
      BY <2>2 DEF Queued
    <3>2. CASE j # 1
      <4>1. j - 1 \in 1..Len(r) /\ r[j - 1] = Data(serial, p)
        BY <1>5, <3>1, <3>2
      <4> QED
        BY <1>2, <4>1 DEF Queued, Data
    <3>3. CASE j = 1
      <4>1. x.kind = "data" /\ x.serial = serial /\ x.pos = p
        BY <1>5, <3>1, <3>3 DEF Data
      <4>2. ~Uncleared(s)
        BY <1>1, <1>5, <4>1 DEF StreamInv, MarkerInv
      <4>3. ~MarkerFirst(s)
        BY <4>1 DEF MarkerFirst, Marker
      <4>4. Caught(s) /\ worker[s].decoder
        BY <1>1, <1>8, <4>2, <4>3 DEF StreamInv, MarkerInv
      <4>5. ~(x.pos < worker[s].from)
        BY <1>1, <4>1, <4>4, LimitsAssumption DEF Due, Positions
      <4>6. Holding(s)'
        BY <1>6, <1>7, <1>8, <4>1, <4>4, <4>5
      <4> QED
        BY <1>10, <4>1, <4>6
    <3> QED
      BY <3>2, <3>3
  <2> QED
    BY <2>1, <2>2
<1>13. LastInv(s)'
  <2> SUFFICES ASSUME Good, NEW j \in 1..Len(r), r[j].kind = "end", r[j].serial = serial
               PROVE  /\ demux.next > file.last * Size
                      /\ \A i \in j..Len(r) : r[i].kind # "data"
    BY <1>2, <1>8, <1>10 DEF LastInv
  <2>1. j + 1 \in 1..Len(q) /\ q[j + 1].kind = "end" /\ q[j + 1].serial = serial
    BY <1>5
  <2>2. /\ demux.next > file.last * Size
        /\ \A i \in (j + 1)..Len(q) : q[i].kind # "data"
    BY <1>1, <2>1 DEF StreamInv, LastInv
  <2>3. \A i \in j..Len(r) : r[i] = q[i + 1] /\ i + 1 \in (j + 1)..Len(q)
    BY <1>5
  <2> QED
    BY <2>2, <2>3
<1>14. DoneInv(s)'
  <2> SUFFICES ASSUME Good, Caught(s), done'[s] \/ Handling(s) = "finish",
                      NEW p \in Positions, Due(p)
               PROVE  p \in sent[s]
    BY <1>2, <1>3, <1>8, <1>10 DEF DoneInv
  <2>1. done[s] \/ x.kind = "end"
    <3>1. done' = [done EXCEPT ![s] = done[s] \/ (s = "audio" /\ x.kind = "end" /\ ~Decodable(s))]
      BY DEF Pop
    <3>2. done'[s] => done[s] \/ x.kind = "end"
      BY <1>1, <3>1 DEF IInv, Types, DoneOK
    <3> QED
      BY <1>6, <3>2
  <2>2. CASE done[s]
    BY <1>1, <2>2 DEF StreamInv, DoneInv
  <2>3. CASE x.kind = "end"
    <3>1. ~Uncleared(s)
      BY <1>1 DEF StreamInv, MarkerInv
    <3>2. q[1].kind = "end" /\ q[1].serial = serial /\ 1 \in 1..Len(q)
      BY <1>1, <1>5, <2>3, <3>1 DEF StreamInv, MarkerInv
    <3>3. demux.next > file.last * Size /\ \A i \in 1..Len(q) : q[i].kind # "data"
      BY <1>1, <3>2 DEF StreamInv, LastInv
    <3>4. ~Unread(s, p)
      BY <1>1, <3>3 DEF Unread
    <3>5. ~Queued(s, p)
      BY <3>3 DEF Queued, Data
    <3> QED
      BY <1>1, <1>2, <1>10, <3>4, <3>5 DEF StreamInv, WholeInv
  <2> QED
    BY <2>1, <2>2, <2>3
<1>15. SentInv(s)'
  <2>1. \A j \in 1..Len(q) : q[j].kind = "data" /\ q[j].serial = serial => q[j].pos <= file.last
    BY <1>1 DEF StreamInv, SentInv
  <2>2. \A j \in 1..Len(r) : r[j].kind = "data" /\ r[j].serial = serial => r[j].pos <= file.last
    BY <1>5, <2>1
  <2>3. Holding(s)' => x.pos <= file.last
    BY <1>5, <1>7, <1>8, <2>1
  <2> QED
    BY <1>1, <1>2, <1>3, <1>10, <2>2, <2>3 DEF StreamInv, SentInv
<1> QED
  BY <1>11, <1>12, <1>13, <1>14, <1>15 DEF StreamInv

LEMMA PopKeeps ==
  ASSUME IInv, CInv, NEW w \in Streams, Pop(w)
  PROVE  StreamsInv'
<1>1. UNCHANGED <<serial, target, file, cancel, demux, sent, state, refused>>
  BY DEF Pop, engine, requests, history
<1>2. \A s \in Streams \ {w} : worker'[s] = worker[s]
  BY Popped
<1>3. \A s \in Streams \ {w} : queue'[s] = queue[s] /\ done'[s] = done[s]
  BY DEF Pop, IInv, Types, QueueOK, DoneOK
<1>4. Good' => Good
  BY <1>1 DEF Good
<1> QED
  BY <1>1, <1>2, <1>3, <1>4, Taken, OneDecoder

(* The sound device is there while somebody feeds it.                       *)
LEMMA SilenceKeeps ==
  ASSUME IInv, CInv, [Next]_vars
  PROVE  SilenceInv'
<1> DEFINE w == worker["audio"]
<1>1. /\ ~device => sound = <<>>
      /\ w.at = "put" => w.graph
      /\ w.graph /\ w.at \notin Over => device
  BY DEF CInv, SilenceInv
<1>2. ASSUME UNCHANGED <<device, sound, worker>> PROVE SilenceInv'
  BY <1>1, <1>2 DEF SilenceInv
<1>3. ASSUME UNCHANGED <<device, sound>>, worker'["audio"] = w PROVE SilenceInv'
  BY <1>1, <1>3 DEF SilenceInv
<1>4. ASSUME ~device' /\ sound' = <<>>, worker'["audio"].at # "put",
             worker'["audio"].graph = FALSE \/ worker'["audio"].at \in Over
      PROVE  SilenceInv'
  BY <1>4 DEF SilenceInv
<1>5. CASE UserNext
  BY <1>2, <1>5 DEF UserNext, Stop, Pause, Seek, Again, SubtitleFile, Request, output, session
<1>6. CASE ControlNext
  <2>1. CASE Idle
    BY <1>2, <2>1 DEF Idle, Stopped
  <2>2. ASSUME NEW f \in left.files, NEW t \in Starts, NEW p \in BOOLEAN, Open(f, t, p)
        PROVE  SilenceInv'
    <3>1. ~device /\ sound = <<>> /\ UNCHANGED <<device, sound>>
      BY <2>2, Silent DEF Open, Stopped
    <3>2. worker'["audio"] = NoWorker
      BY <2>2 DEF Open, Streams
    <3> QED
      BY <1>4, <3>1, <3>2 DEF NoWorker
  <2> QED
    BY <1>6, <2>1, <2>2 DEF ControlNext
<1>7. CASE FrameAt \/ Tick
  BY <1>2, <1>7 DEF FrameAt, Tick, output, session
<1>8. CASE DevicePlays
  BY <1>1, <1>8 DEF DevicePlays, session, SilenceInv
<1>9. CASE DemuxNext
  <2>1. CASE DemuxOpen
    <3>1. worker'["audio"].graph = FALSE /\ worker'["audio"].at # "put"
      BY <2>1 DEF DemuxOpen, NoWorker, Streams
    <3>2. UNCHANGED <<device, sound>>
      BY <2>1 DEF DemuxOpen, output
    <3> QED
      BY <1>1, <3>1, <3>2 DEF SilenceInv
  <2>2. CASE \E k \in Positions : StartGeneration(k)
    <3>1. UNCHANGED <<device, worker>> /\ sound' = <<>>
      BY <2>2 DEF StartGeneration
    <3> QED
      BY <1>1, <3>1 DEF SilenceInv
  <2>3. CASE DemuxOpenFails \/ DemuxLoop \/ DemuxCheck \/ TakeCommands \/ SeekFails \/ SetFlags
    BY <1>2, <2>3 DEF DemuxOpenFails, DemuxLoop, DemuxCheck, TakeCommands, SeekFails, SetFlags,
       output
  <2>4. CASE ReadPacket \/ ReadFails \/ ReadEnd \/ FinishReading \/ Drain \/ Quit \/ Join
    BY <1>2, <2>4 DEF ReadPacket, ReadFails, ReadEnd, FinishReading, Drain, Quit, Join, output
  <2>5. CASE ClearQueue("audio", "clear audio", "clear video") \/ ClearQueue("video", "clear video", "flags")
    BY <1>2, <2>5 DEF ClearQueue, output
  <2> QED
    BY <1>9, <2>1, <2>2, <2>3, <2>4, <2>5 DEF DemuxNext
<1>10. ASSUME NEW s \in Streams, WorkerNext(s) PROVE SilenceInv'
  <2>1. CASE Pop(s)
    <3>1. UNCHANGED <<device, sound>>
      BY <2>1 DEF Pop, output
    <3>2. CASE s # "audio"
      BY <1>3, <2>1, <3>1, <3>2, Popped DEF Streams
    <3>3. CASE s = "audio"
      <4>1. w.at = "pop" /\ worker'["audio"].at = Handling(s) /\ queue[s] # <<>>
            /\ Head(queue[s]) \in Items
        BY <2>1, <3>3, Popped
      <4>2. worker'["audio"].at # "put"
        BY <4>1, HandlingType
      <4>3. worker'["audio"].graph = w.graph
        BY <2>1, <3>3 DEF Pop, IInv, Types, WorkerOK, Worker, Streams
      <4> QED
        BY <1>1, <3>1, <4>1, <4>2, <4>3 DEF SilenceInv, Over
    <3> QED
      BY <3>2, <3>3
  <2>2. CASE Exit(s)
    <3>1. /\ worker[s].at = "pop" /\ worker'[s].at = "exited"
          /\ \A v \in Streams \ {s} : worker'[v] = worker[v]
      BY <2>2, MovedWorker DEF Exit, IInv, Types
    <3>2. CASE s # "audio"
      BY <1>3, <2>2, <3>1, <3>2 DEF Exit, Streams
    <3>3. CASE s = "audio"
      BY <1>4, <2>2, <3>1, <3>3 DEF Exit, CloseDevice, Over
    <3> QED
      BY <3>2, <3>3
  <2>3. CASE StreamDone(s)
    <3>1. /\ worker[s].at = "finish" /\ worker'[s].at = "pop"
          /\ worker'[s].graph = worker[s].graph
          /\ \A v \in Streams \ {s} : worker'[v] = worker[v]
      BY <2>3, MovedWorker DEF StreamDone, IInv, Types
    <3>2. UNCHANGED <<device, sound>>
      BY <2>3 DEF StreamDone, output
    <3>3. CASE s # "audio"
      BY <1>3, <3>1, <3>2, <3>3 DEF Streams
    <3>4. CASE s = "audio"
      BY <1>1, <3>1, <3>2, <3>4 DEF SilenceInv, Over
    <3> QED
      BY <3>3, <3>4
  <2>4. ASSUME NEW works \in BOOLEAN, Reopen(s, works) PROVE SilenceInv'
    <3>1. CASE s # "audio"
      BY <1>3, <2>4, <3>1 DEF Reopen, IInv, Types, WorkerOK, Streams
    <3>2. CASE s = "audio"
      <4>1. worker'["audio"].at = "pop" /\ worker'["audio"].graph = FALSE
        BY <2>4, <3>2 DEF Reopen, IInv, Types, WorkerOK, Worker, Streams
      <4>2. ~device' /\ sound' = <<>>
        BY <2>4, <3>2 DEF Reopen, CloseDevice
      <4> QED
        BY <1>4, <4>1, <4>2
    <3> QED
      BY <3>1, <3>2
  <2> QED
    BY <1>10, <2>1, <2>2, <2>3, <2>4 DEF WorkerNext
<1>11. CASE AudioNext
  <2>1. CASE OpenDevice
    <3>1. worker'["audio"].at = "put" /\ worker'["audio"].graph = TRUE /\ w.at = "open"
      BY <2>1 DEF OpenDevice, IInv, Types, WorkerOK, Worker, Streams
    <3>2. sound' = sound /\ (device' = TRUE \/ (w.graph /\ device' = device))
      BY <2>1 DEF OpenDevice
    <3> QED
      BY <1>1, <3>1, <3>2 DEF SilenceInv, Over
  <2>2. CASE OpenDeviceFails
    <3>1. /\ w.at = "open" /\ worker'["audio"].at = "pop" /\ worker'["audio"].graph = w.graph
      BY <2>2, MovedWorker DEF OpenDeviceFails, IInv, Types, Streams
    <3>2. UNCHANGED <<device, sound>> /\ ~w.graph
      BY <2>2 DEF OpenDeviceFails, output
    <3> QED
      BY <1>1, <3>1, <3>2 DEF SilenceInv
  <2>3. CASE PutSound
    <3>1. /\ w.at = "put" /\ worker'["audio"].at = "pop" /\ worker'["audio"].graph = w.graph
      BY <2>3, MovedWorker DEF PutSound, IInv, Types, Streams
    <3>2. device' = device
      BY <2>3 DEF PutSound
    <3> QED
      BY <1>1, <3>1, <3>2 DEF SilenceInv, Over
  <2> QED
    BY <1>10, <1>11, <2>1, <2>2, <2>3 DEF AudioNext, Streams
<1>12. CASE VideoNext
  <2>1. ASSUME NEW a, NEW b, At("video", a, b), UNCHANGED <<device, sound>> PROVE SilenceInv'
    <3>1. worker'["audio"] = w
      BY <2>1, MovedWorker DEF IInv, Types, Streams
    <3> QED
      BY <1>3, <2>1, <3>1
  <2>2. CASE AdmitFrame
    BY <2>1, <2>2 DEF AdmitFrame, output
  <2>3. CASE PushFrame
    BY <2>1, <2>3 DEF PushFrame
  <2>4. CASE ConvertFails
    BY <2>1, <2>4 DEF ConvertFails, output
  <2> QED
    BY <1>10, <1>12, <2>2, <2>3, <2>4 DEF VideoNext, Streams
<1>13. CASE UNCHANGED vars
  BY <1>2, <1>13 DEF vars, output, session
<1> QED
  BY <1>5, <1>6, <1>7, <1>8, <1>9, <1>11, <1>12, <1>13 DEF Next

(* The demuxer begins with the first packet, and ends after the last.       *)
LEMMA OpenedKeeps ==
  ASSUME IInv, CInv, [Next]_vars
  PROVE  OpenedInv'
<1>1. /\ demux.at = "open" => serial # 0 /\ demux.next = 1
      /\ demux.at = "end" => demux.next > file.last * Size
  BY DEF CInv, OpenedInv
<1>2. ASSUME UNCHANGED <<demux, serial, file>> PROVE OpenedInv'
  BY <1>1, <1>2 DEF OpenedInv, Size
<1>3. ASSUME (demux.at)' \notin {"open", "end"} PROVE OpenedInv'
  BY <1>3 DEF OpenedInv
<1>4. ASSUME NEW a, NEW b, Demux(a, b), b \notin {"open", "end"} PROVE OpenedInv'
  BY <1>3, <1>4, MovedDemux DEF IInv, Types
<1>5. CASE UserNext \/ FrameAt \/ Tick \/ DevicePlays \/ AudioNext \/ VideoNext
  <2>1. UNCHANGED <<demux, serial, file>>
    BY <1>5 DEF UserNext, Stop, Pause, Seek, Again, SubtitleFile, Request, FrameAt, Tick,
       DevicePlays, AudioNext, VideoNext, WorkerNext, Pop, Exit, StreamDone, Reopen, OpenDevice,
       OpenDeviceFails, PutSound, AdmitFrame, PushFrame, ConvertFails, engine, session
  <2> QED
    BY <1>2, <2>1
<1>6. CASE ControlNext
  <2>1. CASE Idle
    BY <1>3, <2>1 DEF Idle, NoDemux
  <2>2. ASSUME NEW f \in left.files, NEW t \in Starts, NEW p \in BOOLEAN, Open(f, t, p)
        PROVE  OpenedInv'
    <3>1. serial' = serial + 1 /\ serial \in Nat /\ (demux.at)' = "open" /\ (demux.next)' = 1
      BY <2>2 DEF Open, NoDemux, IInv, Types, EngineOK
    <3> QED
      BY <3>1 DEF OpenedInv
  <2> QED
    BY <1>6, <2>1, <2>2 DEF ControlNext
<1>7. CASE DemuxNext
  <2>1. Onward \notin {"open", "end"}
    BY DEF Onward
  <2>2. CASE DemuxOpen \/ DemuxOpenFails \/ DemuxCheck \/ SeekFails \/ ReadFails \/ Drain \/ Quit \/ Join
    BY <1>4, <2>1, <2>2 DEF DemuxOpen, DemuxOpenFails, DemuxCheck, SeekFails, ReadFails, Drain,
       Quit, Join
  <2>3. CASE DemuxLoop
    <3>1. Demux("loop", "quit") \/ Demux("loop", Onward)
      BY <2>3 DEF DemuxLoop
    <3> QED
      BY <1>4, <2>1, <3>1
  <2>4. CASE TakeCommands \/ SetFlags \/ ReadPacket \/ FinishReading
    <3>1. (demux.at)' \in {"seek", "check", "loop"}
      BY <2>4 DEF TakeCommands, SetFlags, ReadPacket, FinishReading, IInv, Types, DemuxOK
    <3> QED
      BY <1>3, <3>1
  <2>5. CASE ReadEnd
    <3>1. Demux("read", "end") /\ demux.next > file.last * Size /\ file' = file
      BY <2>5 DEF ReadEnd, engine
    <3>2. (demux.at)' = "end" /\ (demux.next)' = demux.next
      BY <3>1, MovedDemux DEF IInv, Types
    <3> QED
      BY <3>1, <3>2 DEF OpenedInv, Size
  <2>6. ASSUME NEW k \in Positions, StartGeneration(k) PROVE OpenedInv'
    <3>1. (demux.at)' = "clear audio"
      BY <2>6 DEF StartGeneration, IInv, Types, DemuxOK
    <3> QED
      BY <1>3, <3>1
  <2>7. CASE ClearQueue("audio", "clear audio", "clear video") \/ ClearQueue("video", "clear video", "flags")
    BY <1>4, <2>7 DEF ClearQueue
  <2> QED
    BY <1>7, <2>2, <2>3, <2>4, <2>5, <2>6, <2>7 DEF DemuxNext
<1>8. CASE UNCHANGED vars
  BY <1>2, <1>8 DEF vars, engine, session
<1> QED
  BY <1>5, <1>6, <1>7, <1>8 DEF Next

LEMMA StreamsKeep ==
  ASSUME IInv, CInv, [Next]_vars
  PROVE  StreamsInv'
<1>1. CASE UserNext
  BY <1>1, UserKeeps
<1>2. CASE ControlNext
  BY <1>2, ControlKeeps
<1>3. CASE FrameAt \/ Tick \/ DevicePlays \/ UNCHANGED vars
  BY <1>3, OutsideKeeps
<1>4. CASE DemuxNext
  <2>1. CASE \/ DemuxOpenFails \/ DemuxLoop \/ DemuxCheck \/ TakeCommands
             \/ SeekFails \/ ReadFails \/ Drain \/ Quit \/ Join
    BY <2>1, DemuxKeeps
  <2>2. CASE DemuxOpen
    BY <2>2, DemuxOpenKeeps
  <2>3. CASE SetFlags
    BY <2>3, SetFlagsKeeps
  <2>4. CASE ReadPacket \/ ReadEnd \/ FinishReading
    BY <2>4, ReadKeeps
  <2>5. CASE \E k \in Positions : StartGeneration(k)
    BY <2>5, StartGenerationKeeps
  <2>6. CASE ClearQueue("audio", "clear audio", "clear video")
    BY <2>6, ClearQueueKeeps
  <2>7. CASE ClearQueue("video", "clear video", "flags")
    BY <2>7, ClearQueueKeeps
  <2> QED
    BY <1>4, <2>1, <2>2, <2>3, <2>4, <2>5, <2>6, <2>7 DEF DemuxNext
<1>5. ASSUME NEW s \in Streams, WorkerNext(s) PROVE StreamsInv'
  BY <1>5, PopKeeps, ExitKeeps, StreamDoneKeeps, ReopenKeeps DEF WorkerNext
<1>6. CASE AudioNext
  BY <1>5, <1>6, OpenDeviceKeeps, FailureKeeps, PutSoundKeeps DEF AudioNext, Streams
<1>7. CASE VideoNext
  BY <1>5, <1>7, AdmitFrameKeeps, PushFrameKeeps, FailureKeeps DEF VideoNext, Streams
<1> QED
  BY <1>1, <1>2, <1>3, <1>4, <1>6, <1>7 DEF Next

LEMMA InitComplete == Init => CInv
<1> SUFFICES ASSUME Init PROVE CInv
  OBVIOUS
<1>1. file.streams = {}
  BY DEF Init, NoFile
<1>2. SilenceInv
  BY DEF Init, SilenceInv, NoWorker, Streams
<1>3. OpenedInv
  BY DEF Init, OpenedInv, NoDemux
<1> QED
  BY <1>1, <1>2, <1>3 DEF CInv

(* From opening to end, whatever the threads, the pauses and the seeks do,  *)
(* each position of each stream from the one asked for on is put out, is in *)
(* a decoder's hands, is queued behind the marker of its generation, or is  *)
(* still to be read; so a file that the demuxer finds drained (the drain of *)
(* decode_main) is complete.                                                *)
THEOREM NothingIsCut == Spec => EndIsComplete
<1>1. IInv /\ CInv /\ [Next]_vars => CInv'
  BY SilenceKeeps, OpenedKeeps, StreamsKeep DEF CInv, StreamsInv
<1>2. Spec => [](IInv /\ CInv)
  BY InitInv, InitComplete, NextInv, <1>1, PTL DEF Spec
<1> DEFINE Ends == state' = "ended" /\ state # "ended" /\ CaughtUp /\ ~refused
           Complete == /\ frames = <<>> /\ sound = <<>>
                       /\ \A s \in file.streams : worker[s].decoder /\ state # "error" =>
                            sent[s] = (IF target = 0 THEN 1 ELSE target)..file.last
<1>3. IInv /\ CInv /\ [Next]_vars => [Ends => Complete]_vars
  <2> SUFFICES ASSUME IInv, CInv, Next, Ends PROVE Complete
    BY DEF vars, engine
  <2>1. Drain
    <3>1. CASE UserNext
      BY <3>1 DEF UserNext, Stop, Pause, Seek, Again, SubtitleFile, Request, engine, Status!Pause
    <3>2. CASE ControlNext
      BY <3>2 DEF ControlNext, Idle, Open
    <3>3. CASE FrameAt \/ Tick \/ DevicePlays
      BY <3>3 DEF FrameAt, Tick, DevicePlays, engine
    <3>4. CASE DemuxNext
      BY <3>4 DEF DemuxNext, DemuxOpen, DemuxOpenFails, DemuxLoop, DemuxCheck, TakeCommands,
         SeekFails, SetFlags, ReadPacket, ReadFails, ReadEnd, FinishReading, Quit, Join,
         StartGeneration, ClearQueue, Status!Running, engine
    <3>5. CASE AudioNext \/ VideoNext
      BY <3>5 DEF AudioNext, VideoNext, WorkerNext, Pop, Exit, StreamDone, Reopen, OpenDevice,
         OpenDeviceFails, PutSound, AdmitFrame, PushFrame, ConvertFails, engine
    <3> QED
      BY <3>1, <3>2, <3>3, <3>4, <3>5 DEF Next
  <2>2. Drained /\ demux.at = "drain"
    BY <2>1 DEF Drain, Demux
  <2>3. frames = <<>> /\ sound = <<>>
    BY <2>2 DEF Drained, CInv, SilenceInv
  <2>4. ASSUME NEW s \in file.streams, state # "error"
        PROVE  sent[s] = (IF target = 0 THEN 1 ELSE target)..file.last
    <3>1. Good /\ Caught(s) /\ done[s]
      BY <2>2, <2>4, OfStream DEF Good, Caught, CaughtUp, Drained, IInv, StatusInv, Demuxing
    <3>2. \A p \in Positions : Due(p) => p \in sent[s]
      BY <3>1, OfStream DEF StreamInv, DoneInv
    <3>3. sent[s] \subseteq Positions /\ \A p \in sent[s] : Due(p)
      BY OfStream DEF StreamInv, SentInv, IInv, Types, HistoryOK
    <3>4. target \in Nat /\ file.last \in 1..Last /\ Last \in Nat
      BY OfStream, LimitsAssumption
    <3>5. \A p : p \in (IF target = 0 THEN 1 ELSE target)..file.last <=> p \in Positions /\ Due(p)
      BY <3>4 DEF Positions, Due
    <3> QED
      BY <3>2, <3>3, <3>5
  <2> QED
    BY <2>3, <2>4
<1>4. [][Ends => Complete]_vars => EndIsComplete
  BY PTL DEF EndIsComplete
<1> QED
  BY <1>2, <1>3, <1>4, PTL DEF Spec

=============================================================================
