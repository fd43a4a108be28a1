---------------------------- MODULE ServeExports ----------------------------
(***************************************************************************)
(* The publishing side of SimpleServe on Linux: how simpleserved keeps its *)
(* configuration, the managed part of /etc/fstab, the NFS exports, the     *)
(* Samba include and the mDNS publisher in step while shares are added and *)
(* removed and drives come and go (src/simpleserved.c).                    *)
(*                                                                         *)
(* SHARE and UNSHARE are transactions over five surfaces: each brings them *)
(* up to date in a fixed order and, when one fails, restores the old       *)
(* configuration and brings four of them back.  Maintenance, CONFIGURE and *)
(* start-up bring up to date what a change of drives or of the tailnet     *)
(* makes stale.  All of this is one thread, whose work at hand is w.todo;  *)
(* drives, the tailnet, failing commands and crashes interleave with it.   *)
(***************************************************************************)
EXTENDS Naturals, FiniteSets

CONSTANTS
  Names,      \* share names
  Drives,     \* filesystems, by their UUID
  Paths,      \* mount directories
  Users,      \* who may ask for shares
  Root,       \* uid 0
  None,       \* absent share, path, file or answer
  MaxShares,  \* SS_MAX_SHARES
  Roles,      \* roles the role file may hold when the daemon starts
  Worlds,     \* where drives are mounted at first
  Budgets     \* bound: kinds and number of moves, number of faults

MoveKinds == {"drives", "tailscale", "publisher", "crash", "reboot"}
Surfaces  == {"config", "fstab", "exports", "samba", "publish"}
Stages    == Surfaces \cup {"restore", "stop"}

Opt(S) == S \cup {None}

Share   == [fs : Drives, path : Paths, owner : Users, cur : Opt(Paths)]
Config  == [Names -> Opt(Share)]
Line    == [path : Paths, owner : Users]
Export  == [lines : SUBSET Line, ts : BOOLEAN]
Section == [name : Names, path : Paths, owner : Users]
Samba   == [exists : BOOLEAN, include : SUBSET Section, registered : BOOLEAN]
Entry   == [fs : Drives, path : Paths]
Budget  == [kinds : SUBSET MoveKinds, moves : Nat, faults : Nat]
World   == [Drives -> Opt(Paths)]

ASSUME ConstantsAssumption ==
  /\ Roles \subseteq {"server", "client"}
  /\ MaxShares \in Nat /\ IsFiniteSet(Names)
  /\ Budgets \subseteq Budget
  /\ Worlds \subseteq World

ASSUME NoneAssumption == None \notin Share \cup Paths \cup Export \cup Samba

VARIABLES
  role,       \* daemon->role
  config,     \* daemon->config.shares, by name; cur is None when inactive
  tailnet,    \* daemon->tailscale_active
  w,          \* the worker: what it does and what is left to do
  disk,       \* /etc/simpleserve.conf
  fstab,      \* the managed block of /etc/fstab
  exports,    \* the generated exports file
  smb,        \* the generated include, and its registration in smb.conf
  kernel,     \* what the kernel exports
  smbd,       \* what the Samba server serves
  publisher,  \* the mDNS publisher is running
  mounted,    \* where each drive is mounted
  tailscale,  \* the tailnet is up
  ans,        \* history: the last answer to a SHARE or UNSHARE
  behind,     \* history: surfaces whose last update is due, failed or was skipped
  budget      \* moves and faults left

memory == <<role, config, tailnet>>
files  == <<disk, fstab, exports, smb>>
served == <<kernel, smbd, publisher>>
world  == <<mounted, tailscale>>
vars   == <<memory, w, files, served, world, ans, behind, budget>>

-----------------------------------------------------------------------------
(* What each surface should hold.                                           *)

Active(c) == {n \in Names : c[n] # None /\ c[n].cur # None}

Nothing == [lines |-> {}, ts |-> FALSE]

Lines(c) == {[path |-> c[n].cur, owner |-> c[n].owner] : n \in Active(c)}

Rendered == IF Active(config) = {} THEN Nothing
            ELSE [lines |-> Lines(config), ts |-> tailnet]

Sections(c) == {[name |-> n, path |-> c[n].cur, owner |-> c[n].owner] : n \in Active(c)}

Installed == [exists |-> TRUE, include |-> Sections(config), registered |-> TRUE]

(* Samba is left alone until there is something to serve.                   *)
Unneeded == Active(config) = {} /\ ~smb.exists /\ ~smb.registered

View(s) == IF s.registered THEN s.include ELSE {}

MountedAtBoot ==
  IF role # "server" THEN {}
  ELSE {[fs |-> config[n].fs, path |-> config[n].path] :
          n \in {m \in Names : config[m] # None}}

(* The file keeps everything but whether and where the drive is present.    *)
Image(c) == [n \in Names |-> IF c[n] = None THEN None ELSE [c[n] EXCEPT !.cur = None]]

(* faulty variant of the next: a drive is not looked for elsewhere *)
RefreshedInPlace(c, r) ==
  [n \in Names |-> IF c[n] = None THEN None
                   ELSE [c[n] EXCEPT !.cur = IF r = "server" /\ mounted[c[n].fs] = c[n].path
                                             THEN c[n].path ELSE None]]

(* A share is active where its filesystem is mounted now.                   *)
Refreshed(c, r) ==
  [n \in Names |-> IF c[n] = None THEN None
                   ELSE [c[n] EXCEPT !.cur = IF r = "server" THEN mounted[c[n].fs]
                                             ELSE None]]

-----------------------------------------------------------------------------
(* Control.                                                                 *)

Ops    == {"down", "idle", "share", "unshare", "pass", "watch", "configure",
           "tailscale", "startup"}
Answer == [op : {"share", "unshare"}, name : Names, ok : BOOLEAN]
Worker == [op : Ops, name : Opt(Names), todo : SUBSET Stages, loading : BOOLEAN,
           undo : BOOLEAN, old : Opt(Config), before : Opt(Export), samba : Opt(Samba)]

Idle == [op |-> "idle", name |-> None, todo |-> {}, loading |-> FALSE,
         undo |-> FALSE, old |-> None, before |-> None, samba |-> None]
Down == [Idle EXCEPT !.op = "down"]

Free      == w.op = "idle"
Changing  == w.op \in {"share", "unshare"}

(* The order of the calls: what is left to do is done lowest first.         *)
Rank == [s \in Stages |-> CASE s = "restore" -> 0 [] s = "config"  -> 1
                            [] s = "fstab"   -> 2 [] s = "exports" -> 3
                            [] s = "samba"   -> 4 [] s = "publish" -> 5
                            [] s = "stop"    -> 6]

At(s) == s \in w.todo /\ \A t \in w.todo : Rank[t] >= Rank[s]

(* Work still to do; when there is none left the client is answered.        *)
Continue(rest) ==
  IF rest = {}
    THEN /\ w' = Idle
         /\ ans' = IF Changing THEN [op |-> w.op, name |-> w.name, ok |-> ~w.undo] ELSE ans
    ELSE /\ w' = [w EXCEPT !.todo = rest, !.loading = FALSE, !.before = None, !.samba = None]
         /\ UNCHANGED ans

Do(s) == /\ behind' = behind \ {s}
         /\ Continue(w.todo \ {s})

(* The second half of a surface: a server reads what was written.  What was *)
(* there before is kept if it was replaced.                                 *)
ThenLoad(before, samba) ==
  /\ w' = [w EXCEPT !.loading = TRUE, !.before = before, !.samba = samba]
  /\ UNCHANGED <<ans, behind>>

(* faulty variant of the next: the configuration is not put back *)
RollbackOfServers == {"fstab", "exports", "samba"}

Rollback == {"restore", "fstab", "exports", "samba"}

(* A failure undoes a request, stops the publisher during maintenance, and  *)
(* ends anything else; the roll-back itself goes on regardless.             *)
Turn(todo, undo) ==
  /\ w' = [w EXCEPT !.undo = undo, !.todo = todo, !.loading = FALSE,
                    !.before = None, !.samba = None]
  /\ UNCHANGED ans

Fail(s) ==
  /\ UNCHANGED behind
  /\ IF w.undo THEN Continue(w.todo \ {s})
     ELSE IF Changing THEN Turn(Rollback, TRUE)
     ELSE IF w.op = "pass" THEN Turn({"stop"}, FALSE)
     ELSE w' = Idle /\ UNCHANGED ans

Begin(op, name, old, todo) ==
  w' = [Idle EXCEPT !.op = op, !.name = name, !.old = old, !.todo = todo]

NoFault   == UNCHANGED budget
Fault(k)  == /\ budget.faults >= k
             /\ budget' = [budget EXCEPT !.faults = @ - k]

-----------------------------------------------------------------------------
(* The steps that bring one surface up to date.                             *)

SaveConfig ==
  /\ At("config")
  /\ \/ disk' = Image(config) /\ Do("config") /\ NoFault
     \/ Fault(1) /\ Fail("config") /\ UNCHANGED disk
  /\ UNCHANGED <<memory, fstab, exports, smb, served, world>>

(* The roll-back: the old configuration comes back, in memory and on disk,  *)
(* with the drives as they are now.  Nothing waits for the save to succeed. *)
Restore ==
  /\ At("restore")
  /\ config' = Refreshed(w.old, role)
  /\ \/ /\ disk' = Image(w.old) /\ NoFault
        /\ behind' = (behind \ {"config"}) \cup {"fstab", "exports", "samba"}
     \/ /\ Fault(1) /\ UNCHANGED disk
        /\ behind' = behind \cup {"config", "fstab", "exports", "samba"}
  /\ Continue(w.todo \ {"restore"})
  /\ UNCHANGED <<role, tailnet, fstab, exports, smb, served, world>>

SyncFstab ==
  /\ At("fstab")
  /\ \/ fstab' = MountedAtBoot /\ Do("fstab") /\ NoFault
     \/ Fault(1) /\ Fail("fstab") /\ UNCHANGED fstab
  /\ UNCHANGED <<memory, disk, exports, smb, served, world>>

(* The file is written only if it differs, and reloaded if it was written   *)
(* or there is anything to export.                                          *)
ReloadNeeded == exports # Rendered \/ Active(config) # {}

WriteExports ==
  /\ At("exports") /\ ~w.loading
  /\ \/ /\ exports' = Rendered /\ NoFault
        /\ IF ReloadNeeded
             THEN ThenLoad(IF exports = Rendered THEN None ELSE exports, None)
             ELSE Do("exports")
     \/ Fault(1) /\ Fail("exports") /\ UNCHANGED exports
  /\ UNCHANGED <<memory, disk, fstab, smb, served, world>>

(* The server is started if need be and reads the file again.  When that    *)
(* fails the old file is put back, if it was replaced, and read again; a    *)
(* server that reports failure may have taken the new file or not.          *)
ReloadExports ==
  /\ At("exports") /\ w.loading
  /\ \/ kernel' = exports /\ Do("exports") /\ NoFault /\ UNCHANGED exports
     \/ /\ Fault(1) /\ Fail("exports")
        /\ IF w.before = None
             THEN kernel' \in {kernel, exports} /\ UNCHANGED exports
             ELSE kernel' = w.before /\ exports' = w.before
     \/ /\ w.before # None /\ Fault(2) /\ Fail("exports")
        /\ exports' \in {exports, w.before}
        /\ kernel' \in {kernel, exports, exports'}
  /\ UNCHANGED <<memory, disk, fstab, smb, smbd, publisher, world>>

(* What a failed roll-back of the two Samba files may leave.                *)
Mixed(a, b) ==
  {[exists |-> f.exists, include |-> f.include, registered |-> m.registered] :
     f \in {a, b}, m \in {a, b}}

LoadNeeded == smb # Installed \/ Active(config) # {}

(* Candidates are validated before either file is replaced.                 *)
InstallSamba ==
  /\ At("samba") /\ ~w.loading
  /\ \/ Unneeded /\ Do("samba") /\ NoFault /\ UNCHANGED <<smb, smbd>>
     \/ /\ ~Unneeded /\ NoFault /\ UNCHANGED smbd
        /\ smb' = Installed
        /\ IF LoadNeeded
             THEN ThenLoad(None, IF smb = Installed THEN None ELSE smb)
             ELSE Do("samba")
     \/ ~Unneeded /\ Fault(1) /\ Fail("samba") /\ UNCHANGED smb /\ smbd' \in {smbd, View(smb)}
     \/ /\ ~Unneeded /\ smb # Installed /\ Fault(2) /\ Fail("samba")
        /\ smb' \in Mixed(smb, Installed) /\ UNCHANGED smbd
  /\ UNCHANGED <<memory, disk, fstab, exports, kernel, publisher, world>>

(* The server is started if need be and told to read its files again.       *)
LoadSamba ==
  /\ At("samba") /\ w.loading
  /\ \/ smbd' = View(smb) /\ Do("samba") /\ NoFault /\ UNCHANGED smb
     \/ /\ Fault(1) /\ Fail("samba")
        /\ IF w.samba = None
             THEN smbd' \in {smbd, View(smb)} /\ UNCHANGED smb
             ELSE smb' = w.samba /\ smbd' = View(w.samba)
     \/ /\ w.samba # None /\ Fault(2) /\ Fail("samba")
        /\ smb' \in Mixed(w.samba, smb)
        /\ smbd' \in {smbd, View(smb), View(w.samba)}
  /\ UNCHANGED <<memory, disk, fstab, exports, kernel, publisher, world>>

Publishable == role = "server" /\ Active(config) # {}

Publish ==
  /\ At("publish")
  /\ \/ publisher' = Publishable /\ Do("publish") /\ NoFault
     \/ /\ Publishable /\ ~publisher /\ Fault(1) /\ Fail("publish")
        /\ UNCHANGED publisher
  /\ UNCHANGED <<memory, files, kernel, smbd, world>>

StopPublisher ==
  /\ At("stop")
  /\ publisher' = FALSE
  /\ w' = Idle
  /\ UNCHANGED <<memory, files, kernel, smbd, world, ans, behind, budget>>

Step == \/ SaveConfig \/ Restore \/ SyncFstab \/ WriteExports \/ ReloadExports
        \/ InstallSamba \/ LoadSamba \/ Publish \/ StopPublisher

-----------------------------------------------------------------------------
(* What starts them.                                                        *)

Due(surfaces) == behind' = behind \cup surfaces

Unshared(n, d) == \A m \in Names \ {n} : config[m] # None => config[m].fs # d

(* A drive that is mounted, under a name of one's own, and one name only.   *)
RequestShare(u, n, d) ==
  /\ Free /\ role = "server"
  /\ mounted[d] # None /\ Unshared(n, d)
  /\ IF config[n] = None
       THEN Cardinality({m \in Names : config[m] # None}) < MaxShares
       ELSE u \in {config[n].owner, Root}
  /\ config' = [config EXCEPT ![n] = [fs |-> d, path |-> mounted[d], owner |-> u,
                                      cur |-> mounted[d]]]
  /\ Begin("share", n, config, Surfaces) /\ Due(Surfaces)
  /\ ans' = None
  /\ UNCHANGED <<role, tailnet, files, served, world, budget>>

RequestUnshare(u, n) ==
  /\ Free /\ role = "server"
  /\ config[n] # None
  /\ u \in {config[n].owner, Root}
  /\ config' = [config EXCEPT ![n] = None]
  /\ Begin("unshare", n, config, Surfaces) /\ Due(Surfaces)
  /\ ans' = None
  /\ UNCHANGED <<role, tailnet, files, served, world, budget>>

(* faulty variants of the next: a drive that moved, that left is not noticed *)
ActiveChanged(c) == Active(c) # Active(config)

Changed(c) == c # config

(* One turn of maintenance: look for the drives; if any came, went or moved *)
(* update what is served, else see that the publisher still runs.           *)
StartPass ==
  /\ Free
  /\ LET now == Refreshed(config, role) IN
     /\ config' = now
     /\ IF Changed(now)
          THEN /\ Begin("pass", None, None, {"exports", "samba", "publish"})
               /\ Due({"exports", "samba", "publish"})
          ELSE /\ Active(now) # {}
               /\ Begin("watch", None, None, {"publish"})
               /\ UNCHANGED behind
  /\ UNCHANGED <<role, tailnet, files, served, world, ans, budget>>

(* Now and then, and before SHARE, LIST, DISCOVER and MOUNT.                *)
CheckTailnet ==
  /\ Free /\ tailnet # tailscale
  /\ tailnet' = tailscale
  /\ IF Active(config) # {}
       THEN Begin("tailscale", None, None, {"exports"}) /\ Due({"exports"})
       ELSE UNCHANGED <<w, behind>>
  /\ UNCHANGED <<role, config, files, served, world, ans, budget>>

Configure ==
  /\ Free
  /\ tailnet' = tailscale
  /\ LET now  == Refreshed(config, role)
         todo == IF Changed(now) THEN {"exports", "samba", "publish"} ELSE {"exports"}
     IN  /\ config' = now
         /\ Begin("configure", None, None, todo)
         /\ Due(todo)
  /\ UNCHANGED <<role, files, served, world, ans, budget>>

Start ==
  /\ w.op = "down"
  /\ role' \in Roles
  /\ tailnet' = tailscale
  /\ config' = Refreshed(disk, role')
  /\ Begin("startup", None, None, {"fstab", "exports", "samba", "publish"})
  /\ behind' = {"fstab", "exports", "samba", "publish"}
  /\ UNCHANGED <<files, served, world, ans, budget>>

Requests == \E u \in Users, n \in Names :
              RequestUnshare(u, n) \/ \E d \in Drives : RequestShare(u, n, d)

Daemon == Step \/ Requests \/ StartPass \/ CheckTailnet \/ Configure \/ Start

-----------------------------------------------------------------------------
(* The environment.                                                         *)

Spend(move) == /\ move \in budget.kinds /\ budget.moves > 0
               /\ budget' = [budget EXCEPT !.moves = @ - 1]

MoveDrive(d, p) ==
  /\ Spend("drives")
  /\ p # mounted[d] /\ \A e \in Drives : p # None => mounted[e] # p
  /\ mounted' = [mounted EXCEPT ![d] = p]
  /\ UNCHANGED <<memory, w, files, served, tailscale, ans, behind>>

ToggleTailscale ==
  /\ Spend("tailscale")
  /\ tailscale' = ~tailscale
  /\ UNCHANGED <<memory, w, files, served, mounted, ans, behind>>

PublisherDies ==
  /\ Spend("publisher") /\ publisher
  /\ publisher' = FALSE
  /\ UNCHANGED <<memory, w, files, kernel, smbd, world, ans, behind>>

(* The daemon goes, and its publisher with it.                              *)
Goes ==
  /\ w.op # "down" /\ w' = Down
  /\ config' = [n \in Names |-> None] /\ tailnet' = FALSE
  /\ publisher' = FALSE
  /\ behind' = Surfaces /\ ans' = None
  /\ UNCHANGED <<role, files, world>>

Crash  == Spend("crash") /\ Goes /\ UNCHANGED <<kernel, smbd>>
Reboot == Spend("reboot") /\ Goes /\ kernel' = exports /\ smbd' = View(smb)

Environment ==
  \/ \E d \in Drives, p \in Opt(Paths) : MoveDrive(d, p)
  \/ ToggleTailscale \/ PublisherDies \/ Crash \/ Reboot

Init ==
  /\ role \in Roles
  /\ config = [n \in Names |-> None] /\ disk = config
  /\ tailnet = FALSE /\ tailscale \in BOOLEAN
  /\ w = Down
  /\ fstab = {} /\ exports = Nothing /\ kernel = Nothing
  /\ smb = [exists |-> FALSE, include |-> {}, registered |-> FALSE] /\ smbd = {}
  /\ publisher = FALSE
  /\ mounted \in Worlds
  /\ ans = None /\ behind = Surfaces
  /\ budget \in Budgets

Next == Daemon \/ Environment

Spec == Init /\ [][Next]_vars

(* The worker finishes what it started; every turn of its loop ends in      *)
(* maintenance, which no request can keep out; the service manager restarts *)
(* the daemon.                                                              *)
Fairness == WF_vars(Step) /\ WF_vars(Start) /\ SF_vars(StartPass)

FairSpec == Spec /\ Fairness

-----------------------------------------------------------------------------
(* Types: memory, files, servers and the work at hand keep to their domains. *)
TypeOK ==
  /\ role \in {"server", "client"} /\ config \in Config /\ tailnet \in BOOLEAN
  /\ w \in Worker
  /\ disk \in Config /\ fstab \subseteq Entry /\ exports \in Export /\ smb \in Samba
  /\ kernel \in Export /\ smbd \subseteq Section /\ publisher \in BOOLEAN
  /\ mounted \in World /\ tailscale \in BOOLEAN
  /\ ans \in Opt(Answer) /\ behind \subseteq Surfaces /\ budget \in Budget

(* What each surface holds unless its last update is due, failed or skipped. *)
ConfigAgrees  == "config" \notin behind => disk = Image(config)
FstabAgrees   == "fstab" \notin behind => fstab = MountedAtBoot
ExportsAgrees == "exports" \notin behind =>
                   exports = Rendered /\ (Active(config) # {} => kernel = exports)
SambaAgrees   == "samba" \notin behind =>
                   \/ Unneeded
                   \/ smb = Installed /\ (Active(config) # {} => smbd = View(smb))
PublishAgrees == "publish" \notin behind /\ publisher => Publishable

(* No path through requests, roll-backs, maintenance, restarts and drives   *)
(* that move leaves a surface out of step with the configuration in memory, *)
(* except one whose update failed or was given up because another failed.   *)
SurfacesAgree ==
  ConfigAgrees /\ FstabAgrees /\ ExportsAgrees /\ SambaAgrees /\ PublishAgrees

(* A filesystem has one name: in memory, on disk, and after any roll-back.  *)
Distinct(c) == \A m, n \in Names : c[m] # None /\ c[n] # None /\ c[m].fs = c[n].fs => m = n

OneNamePerDrive == Distinct(config) /\ Distinct(disk)

(* What the work at hand means, between the steps of an operation.          *)
Writing == {"config", "fstab", "exports", "samba"}

WorkIsDue    == "restore" \notin w.todo => w.todo \cap Writing \subseteq behind
OldIsKept    == Changing => /\ w.name \in Names /\ w.old \in Config /\ Distinct(w.old)
                            /\ "publish" \in behind
Phases       == /\ w.undo => Changing /\ w.todo \subseteq Rollback
                /\ Changing /\ ~w.undo => w.todo \subseteq Surfaces /\ "publish" \in w.todo
                /\ "restore" \in w.todo => Changing
LoadsWritten == w.loading => /\ At("exports") => exports = Rendered
                             /\ At("samba") => smb = Installed
DiskIsImage  == disk = Image(disk)

LocalsOK == WorkIsDue /\ OldIsKept /\ Phases /\ LoadsWritten /\ DiskIsImage

(* What a request has come to: it was made of a server, what is behind is   *)
(* still to be done, the share asked for is there until it is undone, and   *)
(* undone means that the configuration is the old one.                      *)
RequestStands ==
  /\ Changing => role = "server"
  /\ Changing /\ ~w.undo => behind \subseteq w.todo
  /\ w.op = "share" /\ ~w.undo => w.name \in Active(config)
  /\ w.undo /\ "restore" \notin w.todo => Image(config) = Image(w.old)

(* The inductive invariant: agreement and names survive because work still  *)
(* to do marks its surface, the old configuration is itself a good one, and *)
(* a server loads what was just rendered; an answer is true because of what *)
(* the request has come to.                                                 *)
Core == TypeOK /\ SurfacesAgree /\ OneNamePerDrive /\ LocalsOK

IInv == Core /\ RequestStands

(* A client told that its drive is shared finds it in the configuration     *)
(* file, in fstab, and with both servers.                                   *)
AckedShareIsServed ==
  ans' # ans /\ ans' # None /\ ans'.ok /\ ans'.op = "share" =>
    LET s == config'[ans'.name] IN
    /\ disk'[ans'.name] # None
    /\ [fs |-> s.fs, path |-> s.path] \in fstab'
    /\ [path |-> s.cur, owner |-> s.owner] \in kernel'.lines
    /\ [name |-> ans'.name, path |-> s.cur, owner |-> s.owner] \in smbd'

(* A request that fails in the middle leaves the configuration as the       *)
(* client found it, on disk as well if the roll-back could save it (that    *)
(* the servers follow is SurfacesAgree).                                    *)
FailedRequestUndone ==
  ans' # ans /\ ans' # None /\ ~ans'.ok =>
    /\ Image(config') = Image(w.old)
    /\ \/ "config" \in behind'
       \/ disk' = Image(w.old)

(* What the daemon answers to SHARE and UNSHARE is so at the step that       *)
(* answers, whatever failed, was rolled back or moved on the way.            *)
AnswersAreTrue == [][AckedShareIsServed /\ FailedRequestUndone]_vars

(* README: "If the drive disappears or the mount identity changes, the NFS  *)
(* and SMB exports and mDNS availability are withdrawn".  They are, unless  *)
(* an update failed: nothing keeps out the pass that withdraws.             *)
Gone(n) == config[n] # None /\ role = "server" /\ mounted[config[n].fs] = None
GivenUp == Free /\ behind # {}
Withdrawn(n) ==
  /\ n \notin Active(config) /\ exports = Rendered
  /\ \A x \in smb.include : x.name # n
  /\ Active(config) = {} => ~publisher

GoneIsWithdrawn == \A n \in Names : Gone(n) ~> Withdrawn(n) \/ ~Gone(n) \/ GivenUp

(* A drive that is there is served by both servers and published, unless an *)
(* update failed.                                                           *)
Here(n) == config[n] # None /\ role = "server" /\ mounted[config[n].fs] # None
Served(n) ==
  /\ config[n] # None
  /\ \E x \in smbd : x.name = n /\ x.path = mounted[config[n].fs]
  /\ \E x \in kernel.lines : x.path = mounted[config[n].fs]
  /\ publisher

HereIsServed == \A n \in Names : Here(n) ~> Served(n) \/ ~Here(n) \/ GivenUp

(* What is exported and published follows the drives, both ways.            *)
DrivesAreFollowed == GoneIsWithdrawn /\ HereIsServed
=============================================================================
