# SimpleSuite verification project

TLA+ modules, TLC model checks and TLAPS proofs for SimpleSuite, kept beside the
code.  SimpleSuite is some two dozen programs that share a few headers; most are
interactive front ends.  What is modelled is where several actors change state
that nobody sees as a whole:

- **SimpleServe** (`simpleserved.c`, `simpleserve-common.c`): a root daemon that
  publishes directories over NFS and SMB, discovers peers by mDNS, mounts their
  shares and keeps those mounts alive across outages;
- **SimplePlay** (`simpleplay-engine.c`, `simpleplay-headless.c`): the threads that
  decode and show a file, and the service that plays lists of files for others;
- **SimpleWords** (`simplewords.c`): what is on the disk of a document that windows
  edit, save and leave, or lose in a crash;
- **SimpleMail** (`simplemail-fetch`, `simplemail.c`): mail taken from a server that
  forgets it, and mail sent.

Everything here is checked with

    tlc -workers 2 -config <run>.cfg <module>.tla
    tlapm <module>.tla

## 1. Inventory

### 1.1 SimpleServe

| Part | State | Operations | Hard behaviour |
| --- | --- | --- | --- |
| Mount lifecycle (`perform_mount`, `release_managed_mount`, `perform_unmount`, `reconcile_mounts`, `refresh_remembered_peer_metadata`) | table of managed mounts, the remembered mounts on disk, the kernel's mount table, the mountpoint directories | MOUNT, UNMOUNT, maintenance every two seconds, peer refresh | probes are stale when used, saves and commands fail half way, other programs mount and unmount, files stay open, crashes and reboots |
| Discovery (`avahi_*`, `process_resolve_requests`, manifest worker) | discovered services, remote cache, worker queue, generations | browse and resolve callbacks, manifest fetches, retries, invalidation by the control worker | four threads; results arrive late, for services that have gone, moved or been renamed |
| Control (`daemon_loop`, `handle_control_client`, `control_worker_main`) | one pending request, the busy flag, the status snapshot | accept, hand over, execute, refuse when busy, STATUS from the snapshot, shutdown | a worker stuck in a mount for half a minute, a client waiting, a signal |
| Exports (`share_local`, `unshare_local`, `sync_exports`, `sync_samba`, `sync_mount_persistence`, `start_publisher`) | the share configuration, `/etc/exports`, the Samba include, `/etc/fstab`, the publisher child | SHARE, UNSHARE, CONFIGURE, transport changes | four files and two services updated in a row, each step can fail, each has a rollback of its own |
| Manifest server (`serve_manifest`) | none | answers a peer with the shares it may see | reads the snapshot while the worker writes the tables |
| Client program (`simpleserve.c`) | none | one frame out, one frame in | timeouts |

The daemon has these threads: `main` (accepts control clients and manifest
connections, `daemon_loop`), the *control worker* (runs every request and every
maintenance pass; the only one to touch the mount and share tables), the *Avahi
thread* (discovery callbacks and timers), and the *manifest worker* (blocking
fetches).  They share `control_mutex` (request slot, snapshot) and `remote_mutex`
(services, cache, queue).

### 1.2 SimplePlay, SimpleWords, SimpleMail

| Part | State | Operations | Hard behaviour |
| --- | --- | --- | --- |
| Engine (`simpleplay-engine.c`) | the session with its flags, two packet queues, the frame queue, the sound device, the generation (`serial`) | open, stop, pause, seek, subtitle file, volume and rate; a demuxer and two decoder threads | a seek while packets and pictures of the old position are anywhere; a pause while the device opens; full queues behind a paused device; the end of a file |
| Headless service (`simpleplay-headless.c`) | the playlist and its position, the flags of the file, the clients | loadfile, stop, next, clear, pause, seek, quit, append; a tick every 25 ms | the engine changes between two looks; clients must be able to follow |
| Persistence (`simplewords.c`) | the file, its autosave, the preserved draft, backups, the session file, the workspace and document locks, buffers | start, visit, type, autosave, save, save as, open or discard a draft, kill a buffer, quit, take over | crashes between the files of one save, two windows on one document, other programs that write |
| Receiver (`simplemail-fetch`) | the delivery lock, receipts, the index of local copies, files and their durability | check: list, fetch, save, receipt, move to Trash, expunge | a crash between any two of these; mail that is in several folders at once; other clients; two windows |
| Sending (`simplemail.c`) | the text in `/tmp`, the staged copy in Sent/tmp, the draft | send, publish, save a draft, clean up | the mail program fails, or is accepted and not heard of |

### 1.3 Other programs

| Program | Logic worth a model | Hard behaviour |
| --- | --- | --- |
| SimpleNote store | note files and journal behind a lock file | two processes writing, crash between write and rename |
| SimpleFiles | copy/move/trash jobs, drives, network shares | cancellation, partial copies, unmount under a running job |
| SimpleCal, SimpleClock | reminders and alarms | a reminder firing once over restarts, suspended clocks |
| SimpleBlue, SimpleNet | pairing and connection dialogues over child processes | answers after timeouts, prompts out of order |
| SimpleBrowse | background loads, cancellation, WebKit helper | results of cancelled loads |
| SimpleBurn | device choice and confirmation | device replaced between choice and write |
| Text, HTML, EPUB headers | wrapping, entity decoding, layout | boundary cases of pure algorithms |
| Others | SimpleSave, SimpleFLAC, SimpleRadio, SimplePod, SimpleNews, SimpleVol, SimpleVis, SimpleBright, Simpleterm, SimplePDF, SimpleBook, SimpleSearch, SimpleStats, SimpleVer, SimpleGame, SimpleChange | user interface, device I/O or wrappers of external tools |

`PROJECT.json` lists every one of them with its status, and under `hazards` what
in the modelled code is hard to test, at its line, with the properties for it.

## 2. Plan and modules

| Module | What it models | Uses |
| --- | --- | --- |
| `ServeMounts`, `ServeDiscovery`, `ServeExports` | the three halves of the daemon's work | |
| `PlayStatus` | what a user of the engine may rely on: the abstract specification | |
| `PlayEngine` | the engine's threads | implements `PlayStatus` (property `StatusSpec`) |
| `PlayHeadless` | the service and its clients | `PlayStatus` is the engine it drives |
| `WordsRecovery` | documents, drafts and windows | |
| `MailDelivery` | receiving and sending | |
| `...Proofs` | theorems about the module they are named for | TLAPS |
| `MC...` | constants for TLC | |

`PlayStatus` is where two modules meet: `PlayEngine` is shown to keep to it, and
`PlayHeadless` is checked against every engine that does.

Left for later, in this order: the control thread of SimpleServe (request slot,
busy refusal, snapshot, shutdown) composed with one worker operation; the
SimpleNote store; the jobs of SimpleFiles; reminders; refinements that state
ServeMounts as a ledger of remembered mounts and ServeDiscovery as a peer
directory.

## 3. ServeMounts

### 3.1 State and actions

| Model | Code |
| --- | --- |
| `rec` | `daemon->mounts`: one optional record per (uid, server, share) |
| `disk` | the remembered-mounts file written by `ss_save_mount_config` |
| `cache` | `daemon->remotes`, as `copy_cached_remote` reads it |
| `w` | the control worker: program counter and the locals of `perform_mount`, `release_managed_mount`, `reconcile_mounts` |
| `kernel`, `stacked` | the mount table: the first source it lists for each mountpoint (`ss_linux_mount_lookup`), and where the daemon's own mount lies over that one |
| `leaf`, `busy` | the directory below `~/SimpleServe/PEER/SHARE`, the mounts in use |
| `nfs`, `rpc`, `tsActive` | what the probes of ports 2049 and 111 and the `tailscale` command answer |
| `unsaved`, `made`, `seenDown`, `late`, `intruded`, `ans` | history: last save failed, mounts placed by the daemon, endpoints seen down, writes the emptiness check did not see, foreign mounts placed since the daemon's last look, last answer |

An action runs from one look at the outside world to the next: `Prepare` to
`Commit` are `perform_mount` (4792-5037), cut where it probes, looks at the mount
table, runs a command or saves; `Release`, `Recheck`, `Detach` are
`release_managed_mount`, cut at the normal unmount and at the endpoint probe that
decides about a lazy one; `RequestUnmount` and `Forget` are `perform_unmount`;
`LookHealthy`, `LookAiling`, `Again`, `Released`, `EndReconcile` one turn of
`reconcile_mounts`.  Between any two of them `Environment` moves: an endpoint or
the tailnet goes up or down, discovery rewrites the cache, a user opens a file in
a mount or writes into an unmounted directory, another program mounts or
unmounts, the daemon crashes, the machine reboots.

Abstracted: a record keeps the data that decides a mount (addresses, export path,
filesystem id, flags, misses) and drops ports, host names, access modes and the
target path, which follow from the share.  A filesystem of another program at the
mountpoint is the single value `Foreign`; it comes wherever nothing is mounted, at
any point of an attempt or a release, as no lock of the program covers a mountpoint.
A mount command then covers it (`stacked`), the emptiness check looks into it instead
of the directory, and `rollback_mount` or the lazy detach, which name the mountpoint
and compare no source, may take it away (`RolledBack`, `Detach`).  Order of the records
in the array is not kept: a pass takes them in any order.  The step between
`directory_empty` and the mount command is kept: a user can write in between (`late`).
Within `Release` the look at the mount table and the `umount` it leads to are one step:
a mount that is replaced by another program's between the two is not followed, nor are
files open in a mount that another covers.

### 3.2 Runs

| Run | Question | Bounds |
| --- | --- | --- |
| `mounts_trouble` | types; acknowledged `--remember` is durable; nothing but UNMOUNT forgets; busy mounts are detached only when their endpoint was down; file agrees with memory when the last save succeeded; foreign mounts the daemon has seen survive; files are not hidden; the table keeps its bound | one LAN and one tailnet address, room for one record; one share with four outages, open files, requests or reboots and no faults, or with two moves (crashes, foreign mounts, user writes among them) and two faults; two shares with two outages and one fault |
| `mounts_liveness` | reconnection, release of dead mounts, return to LAN | fairness below, outages and open files |
| `mounts_unmount_retry` | what the README says of UNMOUNT against what the code does: a counterexample, described under *Findings* | the smallest environment that shows it |

Every interesting branch of the attempt needs at most three environment moves
after the mount (an outage, a recovery, an open file), and a failed save with a
failed rollback needs two faults; `Budgets` lists the combinations a run allows, and
a behaviour starts with one and spends it.  The miss counter is kept
at its real limit of three.

No run checks that directories are cleaned up: an attempt that releases a dead mount
itself (`simpleserved.c:4926`) leaves the empty directory below `~/SimpleServe` behind,
where the README has it removed while the share is offline (see *Findings*).

Fairness (`FairSpec`): weak fairness of the worker's own steps and of its restart
by the service manager; strong fairness of starting a maintenance pass, because
the worker's loop runs one after every request or timeout and no request can keep
it out; strong fairness of the LAN retry, which falls due every
`SS_LAN_RETRY_MS`.  Nothing is assumed of endpoints, users or discovery: the
liveness properties speak of shares that stay servable from some time on.

### 3.3 Proofs (`ServeMountsProofs`)

For any finite set of shares and any peers, addresses, exports, capacity and
bounds, every safety property the runs check, from `ConstantsAssumption`,
`NoneAssumption` (the absent value is none of the present ones) and
`ForeignAssumption` (a mount of another program names no source of ours):

| Theorem | Property |
| --- | --- |
| `TypeCorrect`, `TableNeverOverflows` | `TypeOK`, `TableBounded` |
| `FileFollowsTable` | `DiskCurrent` |
| `AckedMountsSurvive` | `AckedMountIsDurable` |
| `RememberedSharesStay` | `SavesKeepRemembered` |
| `BusyMountsStay` | `BusyDetachedOnlyWhenDown` |
| `ForeignMountsStay` | `OnlyManagedReleased` |
| `FilesStayVisible` | `NeverHidesFiles` |

The first two follow from the inductive invariant `IInv`:

- `LocalsOK` ties the program counter to what the locals must hold (a view while
  mounting, an address when recording, a return point while releasing, a record
  of the pass in hand during maintenance).  Without it a `Commit` could store an
  address that is none.
- `RoomKept` says that between the capacity check and the append there is still
  room for the share in hand.  This is why `TableBounded` holds although the check
  and the append are several commands apart.
- the image on disk fits the table, so that `Start` may load it.

The others need `Promises`, inductive relative to `IInv`:

- `FileInv`: the file is its own image (so that `Start` loads a table whose image is
  the file), and while the worker rests, answers a request or refreshes and has
  found nothing new, the file is the image of the table unless the last save
  failed.  During a maintenance pass it need not be: `EndReconcile` saves at
  the end.  This is where an unsaved change of a path would show; `ImageAgrees`
  says which changes of a record never reach the file.
- `AnswerInv`: an answer is forgotten once the worker takes up something else, so no
  later step can undo what it promised.
- `SourceInv`: from the failed unmount to the lazy one, the source in hand is one that
  was recorded, its endpoint is in `seenDown` before the detach, and what is mounted then
  is that source, nothing, or a foreign mount; a foreign mount in the way of the
  attempt or of the detach is always one in `intruded`: every look at the mountpoint
  that finds one ends the attempt.
- `EmptyInv`: files below the mountpoint at the mount command came after the look, or
  were covered by a foreign mount when it looked.

An action property then needs one more step: only `Try`, `Commit`, `Release` and
`Detach` change the kernel's mount table (`KernelSteps`), and a save that drops a
share is one of those `DiskSteps` lists.

The module proves one lemma per action and invariant, each from the parts of the
invariant the action disturbs, over lemmas about the record operators (`FilledType`,
`UpdatedRemembered`, `SavedFields`, ...) and about cardinalities (`Fewer`,
`OneMore`).  The three liveness properties stay with TLC.

## 4. ServeDiscovery

### 4.1 State and actions

| Model | Code |
| --- | --- |
| `gen`, `serverName`, `requested`, `resolving`, `pending` | the array `daemon->services`, field by field: generation (0: not in the table), server name, and the sets of services with each flag |
| `nextGen` | `next_service_generation` |
| `remotes` | `daemon->remotes` with `remote_sources`: address and source generation by server name |
| `jobs`, `contexts` | `manifest_jobs`, the `resolver_contexts` in use |
| `avahi` | client and browser objects and the two restart flags |
| `av`, `worker`, `main` | program counters and locals of the Avahi thread, the manifest worker and the control thread |
| `announced` | what the present browser has reported (external: Avahi reports each appearance and each removal once) |
| `world`, `peer` | what is announced, and which server answers a fetch at an address |
| `dismissed` | history: names dismissed by the control thread and not announced elsewhere since |

An action is one critical section under `remote_mutex`, with what its thread does
before the next one.  The resolver callback has two (`ResolverFound`,
`ResolverDone`), starting a resolver has one, an unlocked call and possibly
another (`StartResolver`, `ResolverStarts`, `ResolverRefused`), the manifest worker
takes a job, fetches unlocked and stores (`WorkerTakes`, `WorkerFetches`,
`WorkerStores`).  `BrowserNew`, `BrowserRemove`, `BrowserFails`, `ClientFails`,
`PollFails`, `ClientRuns`, `RestartClient`, `RestartBrowser` are the callbacks and
the loop of the Avahi thread; `RequestRefresh`, `Invalidate`, `Stop`, `Joined` the
control thread's.

Abstracted: retry and restart times (a delay of any length), the order of the
arrays ("the first" is any), ports, host names and shares of a peer (the manifest
is the name of the server that answers), `avahi_all_for_now` (never read) and the
revision counter (it only brings the next reconciliation forward).  A resolver
reports what is announced when its callback runs.  The macOS build replaces the
Avahi thread by a Bonjour one around the same tables; it is not modelled.

### 4.2 Runs

| Run | Question | Bounds |
| --- | --- | --- |
| `discovery_races` | markers and work agree, nobody forgotten, dismissed addresses stay gone | one server on two links; two moves with one fault or one refresh or dismissal; or one move with two of these (faults, refreshes, dismissals) in any mix |
| `discovery_crowded` | table bounds | tables of one entry, renamed service, one fault (a failing poll included), two moves, one request |
| `discovery_live` | the cache follows the network (peers appear and leave), shutdown completes | one move, and one fault or one request |

The interesting orders need one job in flight, one in the queue and one resolver,
each of an older generation than its service; two services and two requests give
all of them; that a server with three services has idle ones beside the one that
took over is left to the theorem (4.3).  `Budgets` lists the bounds a run combines: a behaviour starts with
one of them and spends it.  The runs other than `discovery_crowded` let a service
identity advertise one server name, as the publisher does (`start_publisher`
derives the instance name from the server name).  Only `discovery_crowded` lets
the poll fail: events the old client delivers in the two seconds before it is
replaced (`simpleserved.c:3719`, `3770`) leave services behind that no browser will
remove, and a service marked as resolving without a resolver, so
`MarkedWorkExists` and `CacheFollows` do not survive that fault.

Fairness: the Avahi thread serves every due request and dispatches every pending
event on each turn of its loop, hence strong fairness per service for starting and
reporting a resolve and for browser events; weak fairness for the manifest worker,
for what the Avahi thread does next in a callback, and for the exits.  Faults,
refreshes, dismissals and moves of the world are never forced.

### 4.3 Proofs

`ServeDiscoveryProofs` assumes what `ConstantsAssumption` and `NoneAssumption` say
(finite sets of services and names, `None` and `NoName` apart from the rest) and
no bound on moves, faults or requests.

- `TypeCorrect`: type correctness, one lemma per action.
- `Invariant` and `DismissedStaysGone`: `DismissedAddressStaysGone` is not
  inductive, because the address comes from a fetch that was queued earlier.
  `IInv` adds what such fetches satisfy: none has a generation above the counter
  (`GenerationsOK`), one that still counts is marked and filed under its service's
  server name (`FetchesMarked`), is the only one of its service (`OneFetchEach`),
  and carries the announced address if its peer was dismissed
  (`DismissedFetchCurrent`).  The step that matters is `Invalidate`: a fetch for the
  dismissed peer belongs to a service filed under that name, hence is renewed with
  the others, and the new generation is above any a fetch can have.
- `NoGhostPeers`: `CachedPeerHasService`, under the assumption `StableNames` that a
  service keeps the server name it advertises.  Without it the code does leave
  ghosts (a renamed service owns two entries and only one goes with it), so the
  assumption is needed; the publisher derives instance names from server names.
- `TablesNeverOverflow`: `TablesBounded`.

- `NoWorkIsLost`: `MarkedWorkExists`, under the assumption that the poll does not
  fail (with that fault it is false, see 4.2).  Added to `IInv`: work belongs to
  services in the table (`WorkKnown`), and while the client is to be replaced the
  table is empty and nothing is reported (`Restarting`), so that freeing all
  resolver contexts strands no service.
- `NobodyIsForgotten`: `NobodyForgotten`, under `StableNames` and with every fault.
  The induction needs three things.  A resolver that leaves a fetch behind no
  longer counts as work once it has queued it (`WorkFor`), since its callback
  clears the mark even when the worker was faster.  Each cached peer is owed to a
  service that goes by its name (`OwnersNamed`), so that the service whose removal
  drops a peer is one of that server, and one of the others takes over.  And a
  fetch never finds the cache full (`CacheHasRoom`): the peers in it belong to
  different services, the fetch's own is yet another, and there are at most
  `MaxServers` of them.  Of several services of one server only one takes over, so
  the others are idle until its fetch is stored; the property says so.

The liveness properties (`CacheFollows`, `StopCompletes`) are model-checked only.

## 5. ServeExports

### 5.1 State and actions

| Model | Code |
| --- | --- |
| `config`, `role`, `tailnet` | `daemon->config.shares` by name (`cur` is `current_path`, `None` when inactive), `daemon->role`, `daemon->tailscale_active` |
| `disk`, `fstab`, `exports`, `smb` | `/etc/simpleserve.conf`, the managed block of `/etc/fstab`, the generated exports file, the Samba include with its registration in `smb.conf` |
| `kernel`, `smbd`, `publisher` | what `exportfs` last took, what `smbd` last read, whether `avahi-publish-service` runs |
| `w` | the control worker: the operation, the stages left (`todo`), whether it is between writing a file and loading it, and the old configuration and files it may return to |
| `mounted`, `tailscale` | where the drives are mounted, whether the tailnet is up |
| `ans`, `behind` | history: the last answer, the surfaces whose last update is due, failed or was skipped |

A stage is one `sync_*` call or save, and a stage that tells a server is two
steps, `WriteExports`/`ReloadExports` and `InstallSamba`/`LoadSamba`, so that
drives move and the daemon dies between the file and the server.  `Rank` is the
order of the calls in the code.  What a failure does depends on the operation
(`Fail`): SHARE and UNSHARE go to `Restore` and then three of the surfaces again
(`share_local` 5230-5246), a maintenance pass stops the publisher, CONFIGURE and
start-up end there, and a roll-back carries on.  `StartPass` and `CheckTailnet` are
the two halves of `maintain_daemon`, `Start` the prelude of `control_worker_main`.

Abstracted: the Linux build only, since FreeBSD and macOS edit shared files by other
rules.  Access mode, permissions and a read-only medium are part of "the drive is
mounted": a share is active when its filesystem is found and usable.  A request the
code refuses before it changes anything is no step.  Every drive has a UUID that may stand
in fstab.  The two Samba files are installed in one step.  A server that
reports failure may or may not have taken the new table.  The tailnet counts as up
or down; a reload for another name or address of it is not modelled.  A reboot
starts both servers from their files; the publisher dies with the daemon
(its service manager ends the children too).

### 5.2 Runs

| Run | Question | Bounds |
| --- | --- | --- |
| `exports_trouble` | the surfaces agree unless an update is due or failed; a share acknowledged is served, a request refused is undone; drives that leave are withdrawn, those present are served | two names, drives, directories and users; two moves (drives, tailnet, a dying publisher), or one move (drives, crash, reboot) with one fault, or two faults |

Requests are not bounded: any sequence of SHARE, UNSHARE and CONFIGURE is explored.
Two drives and two directories let a drive take the place of another; two names
let one filesystem be asked for twice; two faults give a failure whose roll-back
fails.  `MaxShares` is not reached here: `Names` bounds the table already.

Fairness: the worker finishes what it started and is restarted (weak fairness of
`Step` and `Start`); strong fairness of `StartPass`, because every turn of the
worker's loop, after a request or a timeout, ends in `maintain_daemon`.  The code
does not retry an update that failed, so the liveness properties excuse a daemon
that is idle with a surface behind (`GivenUp`).

### 5.3 Proofs (`ServeExportsProofs`)

For any sets of names, drives, directories and users, any table size, and no bound on
moves or faults, from `ConstantsAssumption` and `NoneAssumption`:

- `AlwaysAgree` and `NamesUnique` from the part `Core` of the invariant.
  `SurfacesAgree` alone is not inductive: it says nothing in the middle of an
  operation.  `WorkIsDue` says that work still to do marks its surface as behind, so
  finishing it may clear the mark; `LoadsWritten` that a server about to read a file
  reads what was just rendered; `OldIsKept` that the configuration a roll-back returns
  to is itself one with distinct filesystems; `Phases` that a roll-back has at most its own
  stages left; `DiskIsImage` that the file holds no memory of where drives were.
- `AnswersTrue` (from `AckedShare` and `FailedRequest`) needs `RequestStands` as well: before a roll-back
  nothing is behind that is not still in `todo`, so at the last stage every surface
  agrees, and the share asked for is active; after `Restore` the configuration is the
  old one.  It is an action property of the step that answers.

The module has one lemma per action and part of the invariant.  `DrivesAreFollowed` is a
liveness property and stays with TLC.

## 6. PlayStatus, PlayEngine, PlayHeadless

### 6.1 State and actions

| Model | Code |
| --- | --- |
| `state`, `paused`, `serial`, `target`, `clock` | `SpStatus.state`, `paused`, `serial`, `drop_before`, `position_locked` of `SpEngine` |
| `sound`, `device`, `devicePaused` | the SDL device and its queue |
| `frames`, `current` | the ring of `FRAME_LIMIT` pictures and the one on the screen |
| `asked`, `commands`, `cancel` | `seek_pending` and the other requests; the two atomic flags |
| `demux` | the demuxer: where `demux_worker` or `handle_commands` is, with the read position |
| `queue`, `done`, `worker` | the packet queues, `audio_done` and `video_done`, the decoder threads |
| `control` | the thread of the user: `sp_engine_stop` waits in it for the demuxer |

A step of `PlayEngine` is what a thread does under one hold of a mutex, or one write
of an atomic flag.  A seek is seven steps: the requests are taken, the file is moved,
the generation goes up with the frame queue and the sound (`StartGeneration`, the
section under `e->mutex`), the two packet queues are emptied one after the other, the
flags are set, the loop goes on.  Everything else may happen in between, and it does:
a decoder has a packet of the old generation in hand, the device is being opened while
the user pauses, `generation_current` was true a moment ago.  `queue_push` and
`audio_output` are waits; a request or a stop ends the first, a stop or a new generation the
second.

`PlayHeadless` is the service: one process, so a step is one callback (`command_run` or
`backend_tick`), and between two of them the engine moves as `PlayStatus` allows.  Its
`Open` is `backend_open` with the events sent before it.  The history variable
`orderly` judges every event sent by the one before it.

### 6.2 Runs

| Run | Question | Bounds |
| --- | --- | --- |
| `play_threads` | nothing of an old generation or before the target is waiting to be shown or heard; a pause reaches a device that is being opened; an end is announced only when everything was shown; no wait outlasts a request or a stop; a file ends; the engine implements `PlayStatus` | a song (two positions) with two requests, a clip and a film with one, a film with one failure, a song and a radio station opened one after the other; queues of one |
| `play_service` | events alternate; what plays is announced; the playlist position is that of the open file; a list is played to its end | six runs of the service, five with up to two entries and one with a command line of four, longer than a playlist may get by commands; five commands, room for three entries, one failing file |

Queues of one make every push and every pop meet a full or an empty queue, the case the
code's condition variables are for; a second picture or packet adds no new order.  Two
positions are enough for a seek forward, a seek back, and a key frame before the target.

Fairness: weak fairness of each thread, of the sound device, of time, and of the redraws
that take pictures (`FrameAt`); for the service, that files play on and that its 25 ms
timer fires.  The user does nothing unless he likes.  `FileEnds` and `EndIsComplete`
speak of a generation from which no packet was dropped (`refused`): a request that
starts no generation, such as a subtitle file, makes a waiting push give up, and the
packet is gone.  `EndIsComplete` also leaves out a decoder that has not seen
the marker of the generation yet (`CaughtUp`).  In the service, `resumed` leaves out a
file that the user moves in after its end was announced: it plays again without an event.

### 6.3 Proofs (`PlayEngineProofs`)

The proofs assume what `PlayEngine` assumes of its constants (`FilesAssumption`,
`LimitsAssumption`): files with one stream or two, each with an opening position of its
own, queues of any length of at least one, and any budgets.

`TypeOK`, `OutputIsCurrent`, `DeviceFollowsPause`, `EndIsComplete` and the refinement
`StatusSpec` are proved.  None of them is inductive: a picture is fit to be queued because of the
decoder that makes it, and the decoder because of the packet it took and the marker before
it.  `IInv` adds

- the queues, the sound and the frames typed by generation: `Past(serial)` for packets,
  `Current(serial, target)` for what waits to be shown or heard;
- `StatusInv`: the status fits where the demuxer and the decoders are (no decoder runs
  before the file is open, a demuxer that reads is not idle);
- `DeviceInv`: no device and no sound without the thread that feeds it, and the device
  paused as the user wants;
- `GenerationInv`: no decoder and no packet in hand is ahead of `serial`, and a decoder of
  this generation has the target of this generation;
- `DecodingInv`: what a decoder has ready is data of its own generation, not before its start.

One lemma per action shows that it keeps each part it touches (`Unchanged` gives the
rest).  The refinement needs `StatusInv`: a demuxer that fails or drains is one whose status
allows `Fail` or `Finish`.

`EndIsComplete` (`NothingIsCut`) needs more: at the moment the demuxer finds everything
drained, nothing in the state says what was put out before.  `CInv` follows every position
that is due, for each stream of a file that is neither failed nor ended and from which no
packet was dropped (`Good`):

- `WholeInv`: a due position is out, in the decoder's hands, in the queue, or among the
  packets still to be read, until a stop has the rest dropped;
- `MarkerInv`: between a seek and the clearing of a queue everything in it is of an older
  generation; after it everything is of this one, and its marker is met before any packet,
  so a decoder that drops packets has not caught up and loses none;
- `LastInv`: the end is queued only when all packets were read, and behind all of them;
- `DoneInv`: a decoder that has met the end has put out all that is due, also when the user
  stops between the packet and the flag;
- `SentInv`: nothing else is put out, so that the positions are exactly those asked for;
- `SilenceInv`: there is no sound without a device, which makes the demuxer's look at the
  device (`Drained`) enough.

That the packets of a file with one stream or two number every position once is arithmetic
(`AllAreRead`).  TLC checked `CInv` on `play_threads` before it was proved.

### 6.4 Proofs (`PlayHeadlessProofs`)

`TypeOK`, `EventsAlternate`, `PlayingIsAnnounced` and `CurrentIsOpen` are proved for any
files, command lines, limits and numbers of commands (`SourcesAssumption`, `BoundsAssumption`,
`OptionsAssumption`).  The events alternate because the last one that was sent can be told
from what the service knows of the file, which is what `IInv` adds: `SilentInv` (nothing was sent
yet), `ToldInv` (a file is loading, playing or said to have ended), `OverInv` (a file said to
have ended is one the engine is done with) and `IdleInv` (an engine without a file).  The
engine is `PlayStatus` here, so that what is proved of the service holds for every engine
that implements it, and `PlayEngine` does (6.3).  `ListEnds` is a liveness property.
## 7. WordsRecovery

### 7.1 State and actions

| Model | Code |
| --- | --- |
| `file`, `auto`, `newer`, `kept`, `backups` | the document, its autosave (and which of the two is newer), the `.recovery` copy, the backups |
| `session`, `owner` | the workspace session file and the process that holds the workspace lock |
| `buf` | the buffers of each window: text, `dirty`, `autosave_needed`, the disk revision, the pending recovery, the document lock |
| `at` | how far a load, an autosave or a save has come |
| `saved`, `dropped`, `missed`, `shared` | history: edits that reached the disk, those a user or another program did away with, those the program no longer offers, whether two buffers have had one document open |

A text is the set of the edits it contains, so that "nothing is lost" can be said: every
edit ever written is in some text a user can still come to.  Documents, autosaves and the
session file are replaced by rename; backups and preserved drafts are plain copies without
a flush (`copy_file_for_migration`, `5426-5469`), complete before the step that relies on
them.  A step writes one of these, and the end of a process or another window may come between
any two: between the backup and the write, the write and the removal of
the autosave, the autosave and the session file.  `Crash` is a process that is killed;
what it has written survives it.  A machine that stops, which may take away unflushed
copies, is not modelled.  `Start` restores the buffers of the
session file; `Visit` and `FinishLoad` are the two halves of `visit_file_in_buffer`,
cut between the read and the `stat` that remembers the revision.  `BeginSave`,
`WriteFile`, `FinishSave` are `save_document_to_path`, for any buffer and any path: the Buffer List
takes keys before the prompt of a draft on offer does (`11331`), so that a buffer may be
saved with its draft still on offer, and Save As asks for any path.  A save to the own path
keeps the offer, one to another path forgets it (`7665-7684`).

### 7.2 Runs

| Run | Question | Bounds |
| --- | --- | --- |
| `words_editing` | no edit that was once on disk becomes unreachable; two windows never both have unsaved edits of one file; a save over a file the buffer has not seen is refused | two edits, and one of these budgets: one window at a time with a file, three ends (quit or kill) and a write or deletion by another program, or with a draft as well and either two ends or no other program; a file and two windows side by side with one end; two paths and one window, which saves one under the name of the other, with one end |
| `words_offered` | the same without what the program is known to lose: a counterexample, see *Findings* | one window, a file, two ends |

Two edits are enough to tell a text from an older and from a concurrent one; three ends let a
session be left, restored, left and restored again, which is what the preserved
draft and the session file exist for.  The budgets are kept apart because
their product, two windows with three ends and two paths, is out of reach.

What the invariants leave out, and why:

- `missed`: an autosave older than its file is passed over at a load; Save As leaves the
  autosave of the old path, or removes one of the new path; a Save As to another path forgets the
  draft on offer for the old one; what is written to a file between the backup and the
  rename of a save is in neither; a window that is not the
  owner of the workspace writes drafts no session lists; an answer to the recovery prompt
  that is still due when the window ends is asked for nowhere else (the finding).
- `shared`: once two buffers have had one document open, the autosave of either
  replaces that of the other.  The code does not look at other buffers when a Save As
  names a path that is open elsewhere; where it is open in the same window, the model follows
  one of the two buffers from there on.
- `OneEditor` is about typed edits.  A recovered draft that is opened and not edited is in its
  buffer without a lock.
- `NoBlindSave` is about the check; what another program writes between the check and the
  rename is replaced unseen, and counts as `missed`.
- `raced`, and a revision never seen: the file may change between a read and the `stat`
  after it, and a file that appears where there was none is saved over.

No fairness is assumed and no liveness is stated: everything here happens at a key.


### 7.3 Proofs (`WordsRecoveryProofs`)

All four properties of `words_editing` are proved, for any windows, files, drafts and edits and
from `NamesAssumption` and `BoundsAssumption` only.  None of the four is inductive: an edit is
safe during a save because of what the autosave, the backup and the file had when each
was replaced.  `IInv` adds

- `AutoInv`: an autosave has nothing its buffer lacks, so that replacing or removing it
  loses nothing; between the two halves of a load this does not hold yet (`Loading`);
- `OfferInv`: while a draft is on offer its document has no autosave and the buffer needs
  none, whatever is saved meanwhile, and once it is opened its text is in the buffer;
- `BackedInv`: between the backup and the write, the backup has the text of the file, but for
  what slipped in; `WrittenInv`: after the write the text stays where it can be found, until
  `FinishSave` removes the autosave and the draft;
- `SharedInv`: as long as `shared` is false no two windows have a document in common, so
  the parts above, each about one window, are not disturbed by another;
- `OwnerInv`: the session file of an owner lists what it has open, so that writing it drops
  no draft from the list;
- `LockInv`: edits are typed under the lock of the document and one window has it;
- `SeenInv`: a disk revision that is current is that of the file the buffer last read or
  wrote, or `raced` says that it is not;
- `IdleInv` and `AtInv`: a process that is gone has no buffers, the document a handler works
  on stays open, one that is being loaded has nothing on offer yet, and a save goes to a path.

`FoundInv` is `NoEditLost` edit by edit; `FoundFollows` reduces it to the three kinds of place
an action may empty.  `SharedInv` also shows that the proviso `shared` is needed in
`NoEditLost` only: `OneEditor` and `NoBlindSave` hold without it.
## 8. MailDelivery

### 8.1 State and actions

| Model | Code |
| --- | --- |
| `place`, `marked`, `read` | the server: in which folder a message is, and which have `\Deleted` and `\Seen` |
| `copies`, `durable` | the files of a message in the Maildir, and those that survive a power cut |
| `receipts`, `lock` | the delivery receipts and `.simplemail-receive.lock` |
| `rcv` | a receiver: folders to do, UIDs listed (`live`), those without receipt (`pending`) and the names their files will have (`path`), the message in hand, the index of copies |
| `out` | a sending: its text in `/tmp`, the staged copy, the draft |
| `deleted`, `touched` | history: what the user deleted, and messages changed before their receipt was written |

A check is cut wherever another process can act: `List` (SEARCH), `Fetch`, then for each
message `Take`, `Place` (the link), `Sync` (the flush of file and directory), `WriteReceipt`; then
`MoveToTrash`, or in Trash `Mark` and `Expunge`.  All Mail shows what Inbox and Sent
show, so that one message is met several times under different UIDs.  The name of a file has the
local folder in it and `cur` or `new` (`Path`: `simplemail-fetch:254-266`), both as the listing
gave them; a message without Message-ID is recognised by this name only.  Other clients
move mail, mark it read and flag it deleted on the server, the user moves and deletes local files, and every
receiver may fail or be killed; `PowerCut` ends all processes and keeps what is durable,
and possibly the rest.  Sending stages a copy, hands the mail over, and publishes the
copy or writes a draft.

### 8.2 Run

`mail`: two receivers, one message received and one sent, and two disturbances (failures,
kills, power cuts, moves and deletions here, moves and flags there) at any step.  What the server no
longer has is durable here or was deleted here (`RemovedIsKept`); no duplicates
(`OneCopy`); a local decision is final (`DecisionsStick`); what was sent is somewhere
(`SentIsKept`, which follows the text: the draft written after a failed send has no attachment,
`simplemail.c:7636-7682`); all mail is delivered (`Delivered`).  Two disturbances are a failure during
the repair of a failure; two messages, one of each kind, are what the index, the
receipts and Gmail's own copy of a sent message can confuse.

Fairness: weak fairness of a check that has begun, and of beginning one, since a window
checks every ten seconds and reconnects after an error.

Left out by the properties: messages that are `touched` before their receipt, which can come
twice: files the user moves, or a sender publishes, behind an index that has been read; and, for a
message without Message-ID that has a file or is listed, a move or a read flag by another client,
after which its file would have another name.  Without that exception TLC shows the second
copy in two disturbances, a kill before the receipt and the move.  Left out are also a message whose draft cannot be
written, or whose draft and text are lost in a power cut before it was accepted (`excused`).

### 8.3 Proofs (`MailDeliveryProofs`)

The proofs assume `MessagesAssumption` (received and sent messages are different),
`KeyedAssumption` (what SimpleMail sends has a Message-ID, `simplemail.c:7524`) and
`EventLimitAssumption` (the limit is a number, any number): they hold for any receivers,
any messages, and any number of failures.

`TypeOK`, `RemovedIsKept`, `SentIsKept`, `DecisionsStick` and `OneCopy` are proved.  `RemovedIsKept`
looks only at the end of a chain that `IInv` follows step by step:

- `LockOK` and the lemma `Others`: all receivers but the owner of the lock are at rest, so
  what a receiver has read in a check is changed by nobody's check but its own;
- `WorkInv`: what a receiver has listed is where it was listed, and all of it but what is
  `pending` has a receipt; so what it moves to Trash, marks and expunges has one, although a
  mark may be another client's;
- `FlushedInv`: the file a receipt is about to be written for, if it is still there, is
  durable.  A file of that name could only come from a move in the meantime or
  from the publication of a sent copy, which `CopiesInv` and `NamesInv` exclude: fresh names
  are new, and the name of a sent copy is known to nobody before the copy is published;
- `KeptInv`: a receipt stands for a message with a durable file, one the user has deleted, or one
  whose staged copy is in Sent/tmp;
- `UnsentInv`, `SeenInv`: no receiver has met a message that is not on the server yet, so a
  sending that fails never takes away a staged copy a receipt stands for;
- `BodyInv`: the text is in `/tmp` until the message is elsewhere, from where the expunge
  takes it only with a receipt.

`OneCopy` (`NoSecondCopy`) rests on `OneInv` beside `IInv`, which has three parts:

- `AtMostInv`: an untouched message has at most one file;
- `ShownInv`: without a fingerprint and a receipt, a file has the name that the server's folder and
  flag give it now, and so has the one a receiver is about to make;
- `IndexInv`: with a fingerprint, an index that has been read names the file there is, or there
  is none, or it is the one its receiver has just made.

`Place` then meets the file there is or adds one where there is none, a `Delete` leaves none, and
what `touched` sets aside is a `Move` or `Publish` behind an index and, without a fingerprint,
a change of the folder or flag while there is a file or a listing.  A receiver's own move to Trash
changes the folder too, but only of messages that have a receipt (`WorkInv`).  `KeyedAssumption` is
needed: a sent copy without a fingerprint would be delivered a second time.

One lemma per action, as above.  `Delivered` is liveness and stays with TLC.

## Findings

Two places where the documentation promises what the code does not do, each a run that
TLC refutes:

- **`mounts_unmount_retry`**: UNMOUNT drops the record from memory, then saves
  (`simpleserved.c:5089`, `5125`).  If the save fails the client is told so; the
  retry finds nothing mounted and no record, saves nothing and succeeds.  The file
  still holds the share and a restart mounts it again.
- **`words_offered`**: a newer autosave is moved to the recovery directory when its file is
  loaded, and only the buffer in memory remembers that (`simplewords.c:5754`).  A window
  that ends before the prompt is answered leaves a copy that no later start offers.  A Save
  As to another path forgets the draft in the same way (`7665`, `7676`, `7684`), and the Buffer
  List, where the prompt does not come first (`11331`), allows it while the draft is on offer
  (`11415-11421`).

Others were met while the models were written and are kept out of the properties instead of
having a run:

- a newly announced export path overwrites the one of a mount in place
  (`simpleserved.c:4324`); the daemon no longer recognises its mount and refuses to
  unmount it;
- a reconnection whose save and whose rollback both fail clears `remembered` (`5025`), and
  the next save drops the share from the file although nobody unmounted it;
- `rollback_mount` (`4667-4683`) unmounts whatever lies at the mountpoint and compares no
  source, unlike `release_managed_mount`: an NFS mount that another program places there
  while the mount command runs (up to 30 s, `4969`, `4982`) or while the record is saved
  (`5018`) is taken away; so is one that comes between the endpoint probe and the
  lazy detach (`4771`).  `OnlyManagedReleased` names these steps;
- when the service that fed a cache entry goes, only the first other service of that
  server is resolved (`3033`); if it never answers, a third that would is never tried;
- `sync_exports` reloads only if it wrote the file or has something to export (`1207`): a
  daemon that dies between writing the empty file and `exportfs` leaves the kernel
  exporting;
- an attempt that releases a dead mount itself leaves its empty directory behind (`4926`);
- a mount without `--remember` that another program unmounts stays in the table (`5902`);
- a Save As to a path that another buffer has open is not checked: the two buffers then share one
  autosave (`simplewords.c:7634-7651` looks at the buffer's own path only);
- backups and preserved drafts are written without a flush (`copy_file_for_migration`,
  `simplewords.c:5426-5469`) before what they protect is replaced;
- a message without Message-ID whose file was linked, but whose receipt was not written, is
  linked a second time under another name if another client moves it or marks it read before the
  next check (`simplemail-fetch:254-265`, `279`).

## Limits, and what is not modelled

- Liveness under fairness is checked by TLC only; it is outside the prover's reach.  So are
  the instances: TLC's runs bound the moves of the environment and the number of faults
  (`Budgets`, `EventLimit`, `Commands`, `Faults`) and use one or two of everything; the
  proofs need no bound.
- Every invariant and every action property of the passing runs has a theorem.  What TLC
  alone shows is what must eventually happen: `RememberedReconnects`, `OfflineReleased`,
  `LanRestored`, `CacheFollows`, `StopCompletes`, `DrivesAreFollowed`, `NothingHangs`,
  `FileEnds`, `ListEnds` and `Delivered`.
- Parsers, message texts, command lines and file formats are not modelled.
- SimpleServe: retry and restart delays of the discovery are any length; the Bonjour build
  is not modelled, nor are the FreeBSD and macOS steps of exporting.  `run_command` gives up
  after 30 s, and a mount that the kernel completes after that is not modelled.  Another program
  mounts only where nothing is mounted; what it places between the look and the `umount`
  of one release is not modelled (section 3).
- SimplePlay: contents, subtitles, volume, the deinterlacer's look-ahead, streams that
  change their format; a failure that an end overtakes (a decoder may fail between the
  demuxer's last look at the state and its `ended`) is in the model and allowed by it.
- SimpleWords: undo, layouts, pruning of backups, a recovery copy that cannot be written, a
  machine that stops (processes are killed in the model, and what they wrote is there), two
  buffers of one path in one window.
- SimpleMail: flags in file names but that of read mail (a flag set by another client renames
  the file of the next listing as the read flag does), mail that changes after its delivery, downloads that
  leave mail on the server, the batches of 50 and 25, the folders Drafts and Spam, and
  two drafts within one second, which have one name.
- Not modelled at all, as `PROJECT.json` says for each: programs that are a front end
  around one library or command, where the behaviour is that of the library.
