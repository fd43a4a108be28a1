---------------------------- MODULE ServeMounts ----------------------------
(***************************************************************************)
(* The client side of SimpleServe: how simpleserved mounts, adopts, moves, *)
(* releases and forgets the NFS shares of its peers (src/simpleserved.c,   *)
(* with the persistent table of src/simpleserve-common.c).                 *)
(*                                                                         *)
(* One worker thread runs every request and every maintenance pass, so the *)
(* daemon is one process whose program counter is w.pc.  What interleaves  *)
(* with it is everything it looks at and does not own: endpoints that go   *)
(* up and down, the discovery thread rewriting the remote cache, users     *)
(* holding files open or writing into an unmounted mountpoint, other       *)
(* processes mounting and unmounting, and crashes and reboots.             *)
(***************************************************************************)
EXTENDS Naturals, FiniteSets

CONSTANTS
  Shares,      \* (uid, server, share) triples; each has its own mountpoint
  Servers,     \* peer names
  ServerOf,    \* the peer of each share
  Lan, Ts,     \* IPv4 addresses of the LAN and of the tailnet (100.64/10)
  Exports,     \* export paths a peer may announce for a share
  FsIds,       \* filesystem identities a peer may announce
  None,        \* absent address, mount, record, view or answer
  Foreign,     \* source of an NFS mount that names no peer of ours
  MaxMounts,   \* SS_MAX_MOUNTS
  Linux,       \* lazy detach exists only on Linux
  Budgets      \* bound: kinds and number of moves, number of faults, shares offered

MissLimit == 3   \* failed checks before an offline mount is released

Addrs == Lan \cup Ts

MoveKinds == {"nfs", "rpc", "tailscale", "discover", "use", "write", "foreign",
              "unmount", "crash", "reboot"}
Budget    == [kinds : SUBSET MoveKinds, moves : Nat, faults : Nat,
              shares : SUBSET Shares]

ASSUME ConstantsAssumption ==
  /\ ServerOf \in [Shares -> Servers]
  /\ Lan \cap Ts = {}
  /\ None \notin Addrs \cup Exports \cup FsIds \cup Shares \cup Servers
  /\ IsFiniteSet(Shares)
  /\ Linux \in BOOLEAN
  /\ MaxMounts \in Nat /\ Budgets \subseteq Budget

VARIABLES
  rec,      \* the table of managed mounts (daemon->mounts), by share
  disk,     \* the remembered mounts on disk
  cache,    \* the discovered peers (daemon->remotes)
  w,        \* the worker: program counter and locals
  kernel,   \* the kernel's mount table: first source listed for each mountpoint
  stacked,  \* mountpoints where the daemon's mount lies over a foreign one
  leaf,     \* the directory under the mount: absent, empty, with files
  busy,     \* mounts with open files
  nfs, rpc, \* addresses whose port 2049, whose port 111 answers
  tsActive, \* daemon->tailscale_active
  budget,   \* moves the environment may still make, faults that may happen
  unsaved,  \* history: the last save failed
  made,     \* history: mounts placed by the daemon and still there
  seenDown, \* history: addresses seen down since the last normal unmount
  late,     \* history: mountpoints whose files the emptiness check did not see
  intruded, \* history: foreign mounts placed since the daemon's last look there
  ans       \* history: the last answer given to a client

memory == <<rec, cache, w>>
store  == <<disk, unsaved>>
mounts == <<kernel, stacked, busy, made>>
world  == <<mounts, leaf, late, intruded>>
net    == <<nfs, rpc, tsActive>>
vars   == <<rec, disk, cache, w, kernel, stacked, leaf, busy, nfs, rpc, tsActive,
            budget, unsaved, made, seenDown, late, intruded, ans>>

-----------------------------------------------------------------------------
(* Data.  A record keeps what decides a mount; host names, ports, access   *)
(* modes and the target path follow from these and are left out.           *)

Opt(S) == S \cup {None}

Source == [addr : Addrs, exp : Exports]
View   == [lan : Opt(Lan), ts : Opt(Ts), exp : Exports, fs : FsIds]
Offer  == [exp : Exports, fs : FsIds]
Remote == [lan : Opt(Lan), ts : Opt(Ts), offers : [Shares -> Opt(Offer)]]
Record == [lan : Opt(Lan), ts : Opt(Ts), addr : Opt(Addrs), exp : Exports,
           fs : FsIds, remembered : BOOLEAN, mounted : BOOLEAN,
           available : BOOLEAN, misses : 0..MissLimit]
Answer == [op : {"once", "remember", "unmount"}, s : Shares, ok : BOOLEAN]

ASSUME NoneAssumption == None \notin Record \cup View \cup Source \cup Answer
ASSUME ForeignAssumption == Foreign \notin Source \cup {None}

Recorded == {s \in Shares : rec[s] # None}

(* The image a save writes: remembered records without their run-time state. *)
Saved(r) == [r EXCEPT !.mounted = FALSE, !.available = FALSE, !.misses = 0]

(* faulty variant: offline mounts are not written *)
ImageOfMounted(table) ==
  [s \in Shares |-> IF table[s] # None /\ table[s].remembered /\ table[s].mounted
                      THEN Saved(table[s]) ELSE None]

Image(table) ==
  [s \in Shares |-> IF table[s] # None /\ table[s].remembered
                      THEN Saved(table[s]) ELSE None]

(* Metadata a view carries overwrites the record's; what it lacks is kept.  *)
OrElse(a, b) == IF a # None THEN a ELSE b

Updated(r, v) == [r EXCEPT !.lan = OrElse(v.lan, r.lan),
                           !.ts  = OrElse(v.ts, r.ts),
                           !.exp = v.exp]

(* And the other way round: a view learns the addresses only the record has. *)
Seeded(v, r) == IF r = None THEN v
                ELSE [v EXCEPT !.lan = OrElse(v.lan, r.lan),
                               !.ts  = OrElse(v.ts, r.ts)]

Blank(v) == [lan |-> None, ts |-> None, addr |-> None, exp |-> v.exp,
             fs |-> v.fs, remembered |-> FALSE, mounted |-> FALSE,
             available |-> FALSE, misses |-> 0]

(* faulty variant of the next: a later mount without --remember forgets *)
FilledForgetting(r, v, remember, a) ==
  [Updated(IF r = None THEN Blank(v) ELSE r, v) EXCEPT
     !.addr = a, !.fs = v.fs, !.remembered = remember,
     !.mounted = TRUE, !.available = TRUE, !.misses = 0]

Filled(r, v, remember, a) ==
  [Updated(IF r = None THEN Blank(v) ELSE r, v) EXCEPT
     !.addr = a, !.fs = v.fs, !.remembered = @ \/ remember,
     !.mounted = TRUE, !.available = TRUE, !.misses = 0]

(* faulty variant of the next: the last address is trusted unseen *)
RecordedAddrUnchecked(r, exp, k) == IF r = None \/ k = None THEN None ELSE r.addr

(* The address under which a mounted source is recorded, if it is.  The     *)
(* route is the network the address belongs to.                             *)
RecordedAddr(r, exp, k) ==
  IF r # None /\ k \in Source /\ k.exp = exp /\ k.addr \in {r.lan, r.ts, r.addr}
    THEN k.addr ELSE None

ViewAddr(v, k) ==
  IF k \in Source /\ k.exp = v.exp /\ k.addr \in {v.lan, v.ts}
    THEN k.addr ELSE None

SourceAddr(r, v, k) == OrElse(RecordedAddr(r, v.exp, k), ViewAddr(v, k))

(* Both TCP probes of an address: rpcbind and NFS.                          *)
Reachable(a) == a # None /\ a \in rpc /\ a \in nfs

AlternateReachable(v, a) ==
  \/ v.lan # a /\ Reachable(v.lan)
  \/ tsActive /\ v.ts # a /\ Reachable(v.ts)

Usable(v) == {r \in {"lan", "ts"} : IF r = "lan" THEN Reachable(v.lan)
                                    ELSE tsActive /\ Reachable(v.ts)}

(* faulty variant of the next: the tailnet is preferred *)
ChooseTailnetFirst(v, usable) == IF "ts" \in usable THEN v.ts
                                 ELSE IF "lan" \in usable THEN v.lan ELSE None

(* LAN first, tailnet second.                                               *)
ChooseRoute(v, usable) == IF "lan" \in usable THEN v.lan
                          ELSE IF "ts" \in usable THEN v.ts ELSE None

-----------------------------------------------------------------------------
(* Copies the worker takes of what discovery knows of a share's peer.       *)

PeersOf(s) == {t \in Recorded : ServerOf[t] = ServerOf[s]}

(* An address the cache lacks is taken from some record of the same peer.   *)
FillLan(s) == LET known == {rec[t].lan : t \in PeersOf(s)} \ {None}
              IN  IF known = {} THEN {None} ELSE known
FillTs(s)  == LET known == {rec[t].ts : t \in PeersOf(s)} \ {None}
              IN  IF known = {} THEN {None} ELSE known

CachedViews(s) ==
  LET c == cache[ServerOf[s]] IN
  IF c = None THEN {}
  ELSE IF c.offers[s] = None THEN {}
  ELSE {[lan |-> l, ts |-> t, exp |-> c.offers[s].exp, fs |-> c.offers[s].fs] :
          l \in IF c.lan = None THEN FillLan(s) ELSE {c.lan},
          t \in IF c.ts = None THEN FillTs(s) ELSE {c.ts}}

RememberedViews(s) ==
  IF rec[s] = None THEN {}
  ELSE IF rec[s].lan = None /\ rec[s].ts = None THEN {}
  ELSE {[lan |-> rec[s].lan, ts |-> rec[s].ts,
         exp |-> rec[s].exp, fs |-> rec[s].fs]}

(* A MOUNT request falls back on the record when the share is not cached,   *)
(* a reconciliation only when the whole peer is not.                        *)
RequestViews(s) == IF CachedViews(s) # {} THEN CachedViews(s) ELSE RememberedViews(s)

(* faulty variant of the next: maintenance trusts only the cache *)
ReconcileViewsCached(s) == IF CachedViews(s) = {} THEN {None} ELSE CachedViews(s)

ReconcileViews(s) ==
  LET views == IF cache[ServerOf[s]] = None THEN RememberedViews(s)
               ELSE CachedViews(s)
  IN  IF views = {} THEN {None} ELSE views

Refreshed == IF tsActive THEN Opt(Ts) ELSE {None}  \* tailscale ip -4 PEER

-----------------------------------------------------------------------------
(* The worker.                                                              *)

PCs == {"idle", "down", "prepare", "inspect", "release", "recheck", "detach",
        "check", "try", "record", "offline", "forget", "released",
        "reconcile", "again", "refresh"}
Ops == {"none", "once", "remember", "retry", "reconnect", "unmount", "expire"}

Worker == [pc : PCs, s : Opt(Shares), op : Ops, srv : Opt(View),
           usable : SUBSET {"lan", "ts"}, addr : Opt(Addrs),
           src : Opt(Source), prev : Opt(Record), then : PCs,
           todo : SUBSET Shares, dirty : BOOLEAN]

Idle == [pc |-> "idle", s |-> None, op |-> "none", srv |-> None,
         usable |-> {}, addr |-> None, src |-> None, prev |-> None,
         then |-> "idle", todo |-> {}, dirty |-> FALSE]

Goto(pc) == w' = [w EXCEPT !.pc = pc]

NoFault == UNCHANGED budget
Fault   == /\ budget.faults > 0
           /\ budget' = [budget EXCEPT !.faults = @ - 1]

(* A save replaces the whole file atomically, or fails and leaves it alone. *)
SaveOk(table) == disk' = Image(table) /\ unsaved' = FALSE /\ NoFault
SaveFails     == Fault /\ unsaved' = TRUE /\ UNCHANGED disk

Invalidated(s) == [cache EXCEPT ![ServerOf[s]] = None]

(* perform_mount returns to its caller: a request is answered, maintenance  *)
(* goes on with the next record.  A failure distrusts the cached peer,      *)
(* except when a healthy mount was only being moved back to the LAN.        *)
MountReturns(ok) ==
  /\ cache' = IF ok \/ w.op = "retry" THEN cache ELSE Invalidated(w.s)
  /\ IF w.op \in {"once", "remember"}
       THEN /\ ans' = [op |-> w.op, s |-> w.s, ok |-> ok]
            /\ w' = Idle
       ELSE /\ w' = [Idle EXCEPT !.pc = "reconcile", !.todo = w.todo \ {w.s}]
            /\ UNCHANGED ans

NextRecord(s) == w' = [Idle EXCEPT !.pc = "reconcile", !.todo = w.todo \ {s}]

Answers(op, s, ok) == ans' = [op |-> op, s |-> s, ok |-> ok] /\ w' = Idle

MakeLeaf(s) == leaf' = [leaf EXCEPT ![s] =
                 IF @ = "absent" /\ kernel[s] = None THEN "empty" ELSE @]

(* faulty variant of the next: room for one more than the array holds *)
RoomOffByOne(s) == rec[s] # None \/ Cardinality(Recorded) <= MaxMounts

Room(s) == rec[s] # None \/ Cardinality(Recorded) < MaxMounts

(* faulty variant of the next: only a reconnection is remembered *)
RemembersReconnects(op) == op = "reconnect"

Remembers(op) == op # "once"

(* faulty variant of the next: any directory will do *)
LeafExists(s) == leaf[s] # "absent"

LeafIsEmpty(s) == leaf[s] = "empty"

(* rmdir: neither a directory with files nor a mountpoint goes.             *)
DropLeaf(s) == leaf' = [leaf EXCEPT ![s] =
                 IF @ = "empty" /\ kernel[s] = None THEN "absent" ELSE @]

(* The daemon has seen what is mounted there.                               *)
Observed(s) == intruded' = intruded \ {s}

(* mount(8) puts a mount on top of whatever is there; what lies beneath keeps *)
(* its place at the head of the mount table, and its open files are no      *)
(* longer followed.                                                         *)
MountOver(s, source) ==
  /\ kernel' = [kernel EXCEPT ![s] = IF @ = None THEN source ELSE @]
  /\ stacked' = IF kernel[s] = None THEN stacked ELSE stacked \cup {s}
  /\ busy' = IF kernel[s] = None THEN busy ELSE busy \ {s}
  /\ made' = made \cup {s}

(* umount(8) takes the topmost mount, whatever its source.                  *)
Unmounted(s) == /\ kernel' = IF s \in stacked THEN kernel
                             ELSE [kernel EXCEPT ![s] = None]
                /\ stacked' = stacked \ {s}
                /\ busy' = busy \ {s}
                /\ made' = made \ {s}

-----------------------------------------------------------------------------
(* perform_mount.                                                           *)

(* Make the mountpoint, refuse a full table, merge and save the transport   *)
(* metadata, probe both routes.                                             *)
Prepare ==
  /\ w.pc = "prepare"
  /\ \/ /\ Fault                            \* the mountpoint cannot be made
        /\ MountReturns(FALSE)
        /\ UNCHANGED <<rec, leaf, disk, unsaved>>
     \/ /\ MakeLeaf(w.s)
        /\ ~Room(w.s)
        /\ MountReturns(FALSE)
        /\ UNCHANGED <<rec, disk, unsaved, budget>>
     \/ /\ MakeLeaf(w.s)
        /\ Room(w.s)
        /\ \E t \in Refreshed :
             LET r   == rec[w.s]
                 v   == [Seeded(w.srv, r) EXCEPT !.ts = OrElse(t, @)]
                 new == IF r = None THEN None ELSE Updated(r, v)
                 table == [rec EXCEPT ![w.s] = new]
                 mustSave == new # r /\ r.remembered
             IN  \/ /\ mustSave /\ SaveFails
                    /\ MountReturns(FALSE)
                    /\ UNCHANGED rec
                 \/ /\ IF mustSave THEN SaveOk(table)
                                   ELSE UNCHANGED <<disk, unsaved, budget>>
                    /\ rec' = table
                    /\ w' = [w EXCEPT !.pc = "inspect", !.srv = v, !.prev = new,
                                      !.usable = Usable(v)]
                    /\ UNCHANGED <<cache, ans>>
  /\ UNCHANGED <<mounts, net, seenDown, late, intruded>>

(* A healthy mount that need not move to the LAN is adopted as it is.       *)
Adopt(a) ==
  LET new   == Filled(rec[w.s], w.srv, Remembers(w.op), a)
      table == [rec EXCEPT ![w.s] = new]
  IN  /\ \/ /\ IF new.remembered THEN SaveOk(table)
                                 ELSE UNCHANGED <<disk, unsaved, budget>>
            /\ rec' = table
            /\ MountReturns(TRUE)
         \/ /\ new.remembered /\ SaveFails
            /\ rec' = [rec EXCEPT ![w.s] = w.prev]
            /\ MountReturns(FALSE)

ReleaseThen(pc) == w' = [w EXCEPT !.pc = "release", !.then = pc]

(* Look at what is mounted: nothing, something unexpected, a mount to keep, *)
(* or a mount to release before mounting again or giving up.                *)
Inspect ==
  /\ w.pc = "inspect"
  /\ LET k == kernel[w.s]
         a == SourceAddr(rec[w.s], w.srv, k)
         healthy   == a \in nfs
         preferLan == "lan" \in w.usable /\ a # w.srv.lan
         alternate == preferLan \/ ("ts" \in w.usable /\ a # w.srv.ts)
     IN  \/ /\ k = None
            /\ Goto("check")
            /\ UNCHANGED <<rec, disk, unsaved, budget, cache, ans>>
         \/ /\ k # None /\ a = None
            /\ MountReturns(FALSE)
            /\ UNCHANGED <<rec, disk, unsaved, budget>>
         \/ /\ a # None /\ healthy /\ ~preferLan
            /\ Adopt(a)
         \/ /\ a # None /\ (preferLan \/ ~healthy)
            /\ ReleaseThen(IF healthy \/ alternate THEN "check" ELSE "offline")
            /\ UNCHANGED <<rec, disk, unsaved, budget, cache, ans>>
  /\ Observed(w.s)
  /\ UNCHANGED <<mounts, leaf, net, seenDown, late>>

(* The mount that was released served no route and no other does.           *)
Offline ==
  /\ w.pc = "offline"
  /\ rec' = IF rec[w.s] = None THEN rec
            ELSE [rec EXCEPT ![w.s].mounted = FALSE, ![w.s].available = FALSE]
  /\ MountReturns(FALSE)
  /\ UNCHANGED <<store, world, net, budget, seenDown>>

(* Refuse to hide files; from here on late remembers what the check missed: *)
(* all of the directory, if a foreign mount has come to cover it.           *)
Check ==
  /\ w.pc = "check"
  /\ rec' = IF w.then = "check" /\ rec[w.s] # None
              THEN [rec EXCEPT ![w.s].mounted = FALSE] ELSE rec
  /\ \/ /\ kernel[w.s] = None => LeafIsEmpty(w.s)
        /\ Goto("try") /\ UNCHANGED <<cache, ans>>
     \/ /\ kernel[w.s] = None => ~LeafIsEmpty(w.s)
        /\ MountReturns(FALSE)
  /\ late' = IF kernel[w.s] = None THEN late \ {w.s} ELSE late \cup {w.s}
  /\ UNCHANGED <<store, mounts, leaf, intruded, net, budget, seenDown>>

(* rollback_mount looks at no source: it unmounts what is on top, and has    *)
(* succeeded when the mount table lists nothing more.                       *)
RolledBack(s)   == s \notin busy /\ kernel[s] # None /\ Unmounted(s)
NothingLeft(s)  == s \notin stacked

(* One mount command over the best route left.  A route that fails is not   *)
(* tried again; whatever is mounted after a failure, by the command or by   *)
(* another program, is rolled back, and the attempt ends if that fails.     *)
Try ==
  /\ w.pc = "try"
  /\ LET a == ChooseRoute(w.srv, w.usable)
         source == [addr |-> a, exp |-> w.srv.exp]
         nextRoute == w' = [w EXCEPT !.usable = IF "lan" \in @ THEN @ \ {"lan"} ELSE {}]
     IN  \/ /\ a = None
            /\ MountReturns(FALSE)
            /\ UNCHANGED <<mounts, budget>>
         \/ /\ a \in nfs
            /\ MountOver(w.s, source)
            /\ w' = [w EXCEPT !.pc = "record", !.addr = a]
            /\ UNCHANGED <<budget, cache, ans>>
         \/ /\ a # None
            /\ IF Reachable(a) THEN Fault ELSE NoFault
            /\ \/ kernel[w.s] = None /\ nextRoute /\ UNCHANGED <<mounts, cache, ans>>
               \/ RolledBack(w.s) /\ nextRoute /\ UNCHANGED <<cache, ans>>
               \/ kernel[w.s] # None /\ MountReturns(FALSE) /\ UNCHANGED mounts
         \/ /\ a # None /\ Fault            \* partial mount, rollback fails
            /\ MountOver(w.s, source)
            /\ MountReturns(FALSE)
  /\ UNCHANGED <<rec, store, leaf, net, seenDown, late, intruded>>

(* The mount is in place: record it and, if remembered, save.  When the     *)
(* save fails the mount is undone; when even that fails it is kept, but     *)
(* not remembered.                                                          *)
Commit ==
  /\ w.pc = "record"
  /\ LET new   == Filled(rec[w.s], w.srv, Remembers(w.op), w.addr)
         table == [rec EXCEPT ![w.s] = new]
         forgotten == rec' = [rec EXCEPT ![w.s] = [new EXCEPT !.remembered = FALSE]]
     IN  \/ /\ IF new.remembered THEN SaveOk(table)
                                 ELSE UNCHANGED <<disk, unsaved, budget>>
            /\ rec' = table
            /\ MountReturns(TRUE)
            /\ UNCHANGED mounts
         \/ /\ new.remembered /\ SaveFails
            /\ MountReturns(FALSE)
            /\ \/ /\ RolledBack(w.s)
                  /\ IF NothingLeft(w.s) THEN rec' = [rec EXCEPT ![w.s] = w.prev]
                                         ELSE forgotten
               \/ /\ w.s \in busy \/ w.addr \notin nfs \/ kernel[w.s] = None
                  /\ forgotten
                  /\ UNCHANGED mounts
  /\ UNCHANGED <<leaf, net, seenDown, late, intruded>>

-----------------------------------------------------------------------------
(* release_managed_mount: unmount normally; detach lazily only a stale      *)
(* mount whose endpoint is still down on a second look.                     *)

ReleaseReturns(ok) ==
  IF ok THEN w' = [w EXCEPT !.pc = w.then, !.src = None, !.addr = None]
             /\ UNCHANGED <<cache, ans>>
  ELSE CASE w.op = "unmount" -> Answers("unmount", w.s, FALSE) /\ UNCHANGED cache
         [] w.op = "expire"  -> NextRecord(w.s) /\ UNCHANGED <<cache, ans>>
         [] OTHER            -> MountReturns(FALSE)

Release ==
  /\ w.pc = "release"
  /\ LET k == kernel[w.s]
         a == IF rec[w.s] = None THEN None
              ELSE RecordedAddr(rec[w.s], rec[w.s].exp, k)
     IN  \/ /\ k = None
            /\ ReleaseReturns(TRUE)
            /\ UNCHANGED <<mounts, budget, seenDown>>
         \/ /\ k # None /\ a = None
            /\ ReleaseReturns(FALSE)
            /\ UNCHANGED <<mounts, budget, seenDown>>
         \/ /\ a # None /\ w.s \notin busy
            /\ Unmounted(w.s)
            /\ ReleaseReturns(NothingLeft(w.s))
            /\ UNCHANGED <<budget, seenDown>>
         \/ /\ a # None /\ (w.s \in busy \/ a \notin nfs)  \* busy, timed out
            /\ w' = [w EXCEPT !.pc = "recheck", !.addr = a, !.src = k]
            /\ seenDown' = Addrs \ nfs
            /\ UNCHANGED <<mounts, budget, cache, ans>>
         \/ /\ a # None /\ Fault                           \* any other error
            /\ ReleaseReturns(FALSE)
            /\ UNCHANGED <<mounts, seenDown>>
  /\ Observed(w.s)
  /\ UNCHANGED <<rec, store, leaf, net, late>>

(* faulty variant of the next: a busy mount is detached unconditionally *)
RecheckNothing ==
  /\ w.pc = "recheck"
  /\ IF kernel[w.s] = None THEN ReleaseReturns(TRUE)
     ELSE IF Linux /\ kernel[w.s] = w.src
       THEN Goto("detach") /\ UNCHANGED <<cache, ans>>
       ELSE ReleaseReturns(FALSE)
  /\ Observed(w.s)
  /\ UNCHANGED <<rec, store, mounts, leaf, late, net, budget, seenDown>>

Recheck ==
  /\ w.pc = "recheck"
  /\ IF kernel[w.s] = None THEN ReleaseReturns(TRUE)
     ELSE IF Linux /\ w.addr \notin nfs /\ kernel[w.s] = w.src
       THEN Goto("detach") /\ UNCHANGED <<cache, ans>>
       ELSE ReleaseReturns(FALSE)
  /\ Observed(w.s)
  /\ UNCHANGED <<rec, store, mounts, leaf, late, net, budget, seenDown>>

(* The lazy unmount names the mountpoint, not the source just compared.     *)
Detach ==
  /\ w.pc = "detach"
  /\ \/ /\ kernel[w.s] # None
        /\ Unmounted(w.s)
        /\ ReleaseReturns(NothingLeft(w.s))
        /\ NoFault
     \/ /\ IF kernel[w.s] = None THEN NoFault ELSE Fault
        /\ ReleaseReturns(FALSE)
        /\ UNCHANGED mounts
  /\ UNCHANGED <<rec, store, leaf, net, seenDown, late, intruded>>

-----------------------------------------------------------------------------
(* The requests of a client.                                                *)

RequestMount(s, op) ==
  /\ w.pc = "idle" /\ op \in {"once", "remember"} /\ s \in budget.shares
  /\ \/ /\ RequestViews(s) = {}
        /\ Answers(op, s, FALSE)
     \/ \E v \in RequestViews(s) :
          /\ w' = [Idle EXCEPT !.pc = "prepare", !.s = s, !.op = op, !.srv = v]
          /\ ans' = None
  /\ UNCHANGED <<rec, cache, store, world, net, budget, seenDown>>

(* The record goes first, then the file; the leaf only when both succeeded. *)
ForgetRecord(s) ==
  LET table == [rec EXCEPT ![s] = None]
  IN  /\ rec' = table
      /\ \/ SaveOk(table) /\ DropLeaf(s) /\ Answers("unmount", s, TRUE)
         \/ SaveFails /\ Answers("unmount", s, FALSE) /\ UNCHANGED leaf

RequestUnmount(s) ==
  /\ w.pc = "idle" /\ s \in budget.shares
  /\ \/ /\ Fault                                   \* no mount target
        /\ Answers("unmount", s, FALSE)
        /\ UNCHANGED <<rec, leaf, store>>
     \/ /\ kernel[s] = None /\ rec[s] # None
        /\ ForgetRecord(s)
     \/ /\ kernel[s] = None /\ rec[s] = None
        /\ DropLeaf(s)
        /\ Answers("unmount", s, TRUE)
        /\ UNCHANGED <<rec, store, budget>>
     \/ /\ kernel[s] # None
        /\ IF rec[s] # None /\
              (rec[s].addr = None \/
               kernel[s] = [addr |-> rec[s].addr, exp |-> rec[s].exp])
             THEN /\ w' = [Idle EXCEPT !.pc = "release", !.s = s,
                                       !.op = "unmount", !.then = "forget"]
                  /\ ans' = None
             ELSE Answers("unmount", s, FALSE)
        /\ UNCHANGED <<rec, leaf, store, budget>>
  /\ UNCHANGED <<cache, mounts, late, intruded, net, seenDown>>

(* The record is kept if something is mounted there again already.          *)
Forget ==
  /\ w.pc = "forget"
  /\ IF kernel[w.s] = None THEN ForgetRecord(w.s)
     ELSE Answers("unmount", w.s, FALSE) /\ UNCHANGED <<rec, leaf, store, budget>>
  /\ UNCHANGED <<cache, mounts, late, intruded, net, seenDown>>

-----------------------------------------------------------------------------
(* refresh_remembered_peer_metadata: before DISCOVER, LIST, CONFIGURE and   *)
(* every maintenance pass.                                                  *)

StartRefresh ==
  /\ w.pc = "idle" /\ Recorded # {}
  /\ w' = [Idle EXCEPT !.pc = "refresh", !.todo = Recorded]
  /\ ans' = None
  /\ UNCHANGED <<rec, cache, store, world, net, budget, seenDown>>

(* Record s takes what discovery knows of it now; all records of its peer   *)
(* that are still to come take a tailnet address just resolved.             *)
Own(s, v) == IF v # None /\ v.fs = rec[s].fs THEN Updated(rec[s], v) ELSE rec[s]

RefreshedTable(s, v, t) ==
  [x \in Shares |->
     LET r == IF x = s THEN Own(s, v) ELSE rec[x]
     IN  IF t # None /\ x \in PeersOf(s) \cap w.todo
           THEN [r EXCEPT !.ts = t] ELSE r]

RefreshOne(s) ==
  /\ w.pc = "refresh" /\ s \in w.todo
  /\ \E v \in IF CachedViews(s) = {} THEN {None} ELSE CachedViews(s),
        t \in IF PeersOf(s) \subseteq w.todo THEN Refreshed ELSE {None} :
       LET table == RefreshedTable(s, v, t)
       IN  /\ rec' = table
           /\ w' = [w EXCEPT !.todo = @ \ {s}, !.dirty = @ \/ table # rec]
  /\ UNCHANGED <<cache, store, world, net, budget, seenDown, ans>>

EndRefresh ==
  /\ w.pc = "refresh" /\ w.todo = {}
  /\ w' = Idle
  /\ IF w.dirty THEN SaveOk(rec) \/ SaveFails
                ELSE UNCHANGED <<disk, unsaved, budget>>
  /\ UNCHANGED <<rec, cache, world, net, seenDown, ans>>

-----------------------------------------------------------------------------
(* reconcile_mounts: every two seconds, or when the cache has changed.      *)

StartReconcile ==
  /\ w.pc = "idle" /\ Recorded # {}
  /\ w' = [Idle EXCEPT !.pc = "reconcile", !.todo = Recorded]
  /\ ans' = None
  /\ UNCHANGED <<rec, cache, store, world, net, budget, seenDown>>

Missed(r) == [r EXCEPT !.available = FALSE,
                       !.misses = IF @ = MissLimit THEN @ ELSE @ + 1]

(* What a look at record s finds: the source mounted (None as well when the *)
(* mountpoint's parents cannot be inspected), and whether the view still    *)
(* describes the filesystem that was mounted.                               *)
Seen(s, k) == \/ k = kernel[s] /\ NoFault
              \/ k = None /\ kernel[s] # None /\ Fault

(* faulty variant of the next: every look starts a new count *)
LookedAfresh(s, v, k) == [(IF v # None THEN Updated(rec[s], v) ELSE rec[s])
                            EXCEPT !.mounted = (k # None), !.misses = 0]

Looked(s, v, k) == [(IF v # None THEN Updated(rec[s], v) ELSE rec[s])
                      EXCEPT !.mounted = (k # None)]

LookedAddr(s, v, k) ==
  IF v = None THEN None ELSE SourceAddr(Looked(s, v, k), v, k)

ValidViews(s) == {IF v # None /\ v.fs = rec[s].fs THEN v ELSE None :
                    v \in ReconcileViews(s)}

CallMount(s, op, v) == w' = [w EXCEPT !.pc = "prepare", !.s = s, !.op = op,
                                      !.srv = v, !.then = "idle"]

Keep(s, r) == rec' = [rec EXCEPT ![s] = r]

(* The mounted source is healthy; a remembered mount that is not on the     *)
(* current LAN address is moved there when its retry is due.                *)
LookHealthy(s) ==
  /\ w.pc = "reconcile" /\ s \in w.todo /\ kernel[s] # None
  /\ \E v \in ValidViews(s) \ {None} :
       LET r == Looked(s, v, kernel[s])
           a == LookedAddr(s, v, kernel[s])
       IN  /\ a \in nfs
           /\ Keep(s, [r EXCEPT !.addr = a, !.available = TRUE, !.misses = 0])
           /\ \/ NextRecord(s)
              \/ /\ r.remembered /\ v.lan \notin {None, a} /\ v.lan \in rpc
                 /\ CallMount(s, "retry", v)
  /\ UNCHANGED <<cache, store, world, net, budget, seenDown, ans>>

Ailing(s, v, k) ==
  LET r == Looked(s, v, k)
      a == LookedAddr(s, v, k)
  IN  Missed(IF a # None THEN [r EXCEPT !.addr = a] ELSE r)

(* Anything else: a source nobody recorded is left alone; a mount that does *)
(* not answer is counted, and given up on the third miss or at once when    *)
(* another route answers; an absent remembered mount is put back.           *)
LookAiling(s) ==
  /\ w.pc = "reconcile" /\ s \in w.todo
  /\ \E v \in ValidViews(s), k \in Opt({kernel[s]}) :
       LET new == Ailing(s, v, k)
           a   == LookedAddr(s, v, k)
           elsewhere == v # None /\ new.remembered /\ AlternateReachable(v, new.addr)
       IN  /\ Seen(s, k)
           /\ a \notin nfs
           /\ Keep(s, new)
           /\ IF v # None /\ k # None /\ a = None THEN NextRecord(s)
              ELSE IF k # None /\ (new.misses = MissLimit \/ elsewhere)
                THEN w' = [w EXCEPT !.pc = "again", !.s = s, !.srv = v]
              ELSE IF k = None /\ v # None /\ new.remembered /\ Usable(v) # {}
                THEN CallMount(s, "reconnect", v)
              ELSE NextRecord(s)
  /\ UNCHANGED <<cache, store, world, net, seenDown, ans>>

(* The alternate route is probed a second time before the record is moved;  *)
(* if it no longer answers, the mount is released instead.                  *)
Again ==
  /\ w.pc = "again"
  /\ IF /\ w.srv # None /\ rec[w.s].remembered
        /\ AlternateReachable(w.srv, rec[w.s].addr)
       THEN CallMount(w.s, "reconnect", w.srv)
       ELSE w' = [w EXCEPT !.pc = "release", !.op = "expire", !.then = "released"]
  /\ UNCHANGED <<rec, cache, store, world, net, budget, seenDown, ans>>

Released ==
  /\ w.pc = "released"
  /\ DropLeaf(w.s)
  /\ IF rec[w.s].remembered
       THEN /\ rec' = [rec EXCEPT ![w.s].mounted = FALSE]
            /\ IF w.srv # None /\ Usable(w.srv) # {}
                 THEN CallMount(w.s, "reconnect", w.srv)
                 ELSE NextRecord(w.s)
       ELSE /\ rec' = [rec EXCEPT ![w.s] = None]
            /\ NextRecord(w.s)
  /\ UNCHANGED <<cache, store, mounts, late, intruded, net, budget, seenDown, ans>>

EndReconcile ==
  /\ w.pc = "reconcile" /\ w.todo = {}
  /\ w' = Idle
  /\ SaveOk(rec) \/ SaveFails
  /\ UNCHANGED <<rec, cache, world, net, seenDown, ans>>

-----------------------------------------------------------------------------
(* The environment, each move of which spends some of the budget.           *)

Spend(move) == /\ move \in budget.kinds /\ budget.moves > 0
               /\ budget' = [budget EXCEPT !.moves = @ - 1]

Toggle(S, x) == IF x \in S THEN S \ {x} ELSE S \cup {x}

FlipNfs(a) ==
  /\ Spend("nfs")
  /\ nfs' = Toggle(nfs, a)
  /\ seenDown' = seenDown \cup (Addrs \ nfs')
  /\ UNCHANGED <<memory, store, world, rpc, tsActive, ans>>

FlipRpc(a) ==
  /\ Spend("rpc")
  /\ rpc' = Toggle(rpc, a)
  /\ UNCHANGED <<memory, store, world, nfs, tsActive, seenDown, ans>>

FlipTailscale ==
  /\ Spend("tailscale")
  /\ tsActive' = ~tsActive
  /\ UNCHANGED <<memory, store, world, nfs, rpc, seenDown, ans>>

(* The discovery threads learn of, update or drop a peer.                   *)
Offered(c) == c # None => \A s \in Shares \ budget.shares : c.offers[s] = None

Discover(v) ==
  /\ Spend("discover") /\ w.pc # "down"
  /\ \E c \in Opt(Remote) : Offered(c) /\ c # cache[v] /\ cache' = [cache EXCEPT ![v] = c]
  /\ UNCHANGED <<rec, w, store, world, net, seenDown, ans>>

(* A process opens a file in a mounted share, or closes the last one.       *)
UseMount(s) ==
  /\ Spend("use") /\ kernel[s] # None
  /\ busy' = Toggle(busy, s)
  /\ UNCHANGED <<memory, store, kernel, stacked, leaf, made, late, intruded, net,
                 seenDown, ans>>

(* A user saves into, or clears, the directory where nothing is mounted.    *)
WriteLeaf(s) ==
  /\ Spend("write") /\ kernel[s] = None /\ leaf[s] # "absent"
  /\ leaf' = [leaf EXCEPT ![s] = IF @ = "files" THEN "empty" ELSE "files"]
  /\ late' = late \cup {s}
  /\ UNCHANGED <<memory, store, mounts, intruded, net, seenDown, ans>>

AdminUnmount(s) ==
  /\ Spend("unmount") /\ kernel[s] # None
  /\ Unmounted(s)
  /\ UNCHANGED <<memory, store, leaf, late, intruded, net, seenDown, ans>>

(* Another program mounts something where nothing is mounted, whatever the  *)
(* daemon is doing there: no lock of the program covers a mountpoint.       *)
ForeignMount(s) ==
  /\ Spend("foreign") /\ kernel[s] = None /\ leaf[s] # "absent"
  /\ kernel' = [kernel EXCEPT ![s] = Foreign]
  /\ intruded' = intruded \cup {s}
  /\ UNCHANGED <<memory, store, stacked, leaf, busy, made, late, net, seenDown, ans>>

Lost == /\ rec' = [s \in Shares |-> None]
        /\ cache' = [v \in Servers |-> None]
        /\ w' = [Idle EXCEPT !.pc = "down"]

Crash ==
  /\ Spend("crash") /\ w.pc # "down"
  /\ Lost
  /\ UNCHANGED <<store, world, net, seenDown, ans>>

Reboot ==
  /\ Spend("reboot") /\ w.pc # "down"
  /\ Lost
  /\ kernel' = [s \in Shares |-> None]
  /\ stacked' = {} /\ busy' = {} /\ made' = {}
  /\ UNCHANGED <<store, leaf, late, intruded, net, seenDown, ans>>

(* The service manager starts the daemon again; it loads what was saved.    *)
Start ==
  /\ w.pc = "down"
  /\ w' = Idle
  /\ rec' = disk
  /\ unsaved' = FALSE
  /\ UNCHANGED <<cache, disk, world, net, budget, seenDown, ans>>

-----------------------------------------------------------------------------

Init ==
  /\ rec = [s \in Shares |-> None] /\ disk = rec
  /\ budget \in Budgets
  /\ cache \in [Servers -> Opt(Remote)] /\ \A v \in Servers : Offered(cache[v])
  /\ w = Idle
  /\ kernel = [s \in Shares |-> None] /\ leaf = [s \in Shares |-> "absent"]
  /\ stacked = {} /\ busy = {} /\ made = {}
  /\ late = {} /\ intruded = {} /\ seenDown = {}
  /\ nfs = Addrs /\ rpc = Addrs /\ tsActive = TRUE
  /\ unsaved = FALSE /\ ans = None

PerformMount == Prepare \/ Inspect \/ Offline \/ Check \/ Try \/ Commit
ReleaseMount == Release \/ Recheck \/ Detach
Requests     == \E s \in Shares : \/ \E op \in {"once", "remember"} : RequestMount(s, op)
                                  \/ RequestUnmount(s)
RefreshPeers == EndRefresh \/ \E s \in Shares : RefreshOne(s)
Reconcile    == \/ Again \/ Released \/ EndReconcile
                \/ \E s \in Shares : LookHealthy(s) \/ LookAiling(s)

Step   == PerformMount \/ ReleaseMount \/ Forget \/ RefreshPeers \/ Reconcile
Daemon == Step \/ Requests \/ StartRefresh \/ StartReconcile

Environment ==
  \/ \E a \in Addrs : FlipNfs(a) \/ FlipRpc(a)
  \/ FlipTailscale
  \/ \E v \in Servers : Discover(v)
  \/ \E s \in Shares : UseMount(s) \/ WriteLeaf(s) \/ AdminUnmount(s) \/ ForeignMount(s)
  \/ Crash \/ Reboot

Next == Daemon \/ Environment \/ Start

Spec == Init /\ [][Next]_vars

(* The worker finishes what it started; every turn of its loop ends in      *)
(* maintenance, so requests cannot keep reconciliation out; a LAN retry     *)
(* falls due every SS_LAN_RETRY_MS; the service manager restarts it.        *)
LanRetry == \E s \in Shares : LookHealthy(s) /\ w'.op = "retry"

Fairness == /\ WF_vars(Step) /\ WF_vars(Start)
            /\ SF_vars(StartReconcile) /\ SF_vars(LanRetry)

FairSpec == Spec /\ Fairness

-----------------------------------------------------------------------------
(* Types: the table, the file and every local stay in their domains.        *)
TypeOK ==
  /\ rec \in [Shares -> Opt(Record)]
  /\ disk \in [Shares -> Opt(Record)]
  /\ cache \in [Servers -> Opt(Remote)]
  /\ w \in Worker
  /\ kernel \in [Shares -> Source \cup {None, Foreign}]
  /\ leaf \in [Shares -> {"absent", "empty", "files"}]
  /\ stacked \subseteq Shares /\ busy \subseteq Shares /\ made \subseteq Shares
  /\ late \subseteq Shares /\ intruded \subseteq Shares
  /\ nfs \subseteq Addrs /\ rpc \subseteq Addrs /\ seenDown \subseteq Addrs
  /\ tsActive \in BOOLEAN /\ unsaved \in BOOLEAN
  /\ budget \in Budget
  /\ ans \in Opt(Answer)

(* What the locals of the worker mean while it is at work: the share in hand *)
(* exists, a mount attempt carries a view of it, maintenance works through  *)
(* records that are still there, a release knows where it returns to.       *)
MountPCs   == {"prepare", "inspect", "check", "try", "record", "offline"}
ReleasePCs == {"release", "recheck", "detach"}
MountOps   == {"once", "remember", "retry", "reconnect"}

LocalsOK ==
  /\ w.pc \notin {"idle", "down", "reconcile", "refresh"} => w.s \in Shares
  /\ w.pc \in {"idle", "down", "reconcile", "refresh"} => w.op = "none"
  /\ w.pc \in MountPCs => w.op \in MountOps /\ w.srv \in View
  /\ w.pc \in ReleasePCs =>
       \/ w.op \in MountOps /\ w.srv \in View /\ w.then \in {"check", "offline"}
       \/ w.op = "unmount" /\ w.then = "forget"
       \/ w.op = "expire" /\ w.then = "released"
  /\ w.pc = "record" => w.addr \in Addrs
  /\ w.todo \subseteq Recorded
  /\ w.pc \in {"again", "released"} \/ w.op \in {"retry", "reconnect", "expire"}
       => w.s \in w.todo

(* Between the capacity check and the append there is still room.           *)
RoomKept == w.pc \in (MountPCs \ {"prepare"}) \cup ReleasePCs /\ w.op \in MountOps
              => Room(w.s)

OnDisk == {s \in Shares : disk[s] # None}

(* The table never outgrows its array: perform_mount checks the capacity    *)
(* before it mounts and appends only after, with a mount, an adoption and   *)
(* their failures in between.                                               *)
TableBounded == Cardinality(Recorded) <= MaxMounts

(* The inductive invariant behind TypeOK and TableBounded.                  *)
IInv == /\ TypeOK /\ LocalsOK /\ RoomKept
        /\ TableBounded /\ Cardinality(OnDisk) <= MaxMounts

(* What a restart would load is what the daemon remembers, whenever it is   *)
(* idle and its last save did not fail: no path through mounting, adopting, *)
(* moving, rolling back, forgetting or reconciling leaves the file behind.  *)
DiskCurrent == w.pc = "idle" /\ ~unsaved => disk = Image(rec)

(* A client told that a share was mounted with --remember can rely on it    *)
(* after a restart: the record was on disk before the answer was sent.      *)
AckedMountIsDurable ==
  ans # None /\ ans.op = "remember" /\ ans.ok => disk[ans.s] # None

DaemonStep == budget'.moves = budget.moves

(* "refusing to release NFS mount": a mount of another program is not taken *)
(* away by the daemon once the daemon has looked at the mountpoint.  Only   *)
(* one that came after its last look can go, by the roll-back of the        *)
(* attempt in hand or the lazy detach, which compare no source.             *)
OnlyManagedReleased ==
  [][DaemonStep => \A s \in Shares :
       kernel[s] = Foreign /\ kernel'[s] # Foreign =>
         s \in intruded /\ w.s = s /\ w.pc \in {"try", "record", "detach"}]_vars

(* "Never lazy-unmount a healthy busy filesystem just to prefer another     *)
(* route": a mount of the daemon with open files disappears under its hands *)
(* only if its endpoint was down at some point after the normal unmount     *)
(* failed.                                                                  *)
BusyDetachedOnlyWhenDown ==
  [][DaemonStep => \A s \in busy :
       kernel[s] \in Source /\ kernel'[s] # kernel[s] =>
         w.pc = "detach" /\ kernel[s].addr \in seenDown]_vars

(* Mounting never hides files: whatever lies in the mountpoint when a mount *)
(* is placed over it was written after the attempt had found it empty.      *)
NeverHidesFiles ==
  [][DaemonStep => \A s \in Shares :
       kernel[s] = None /\ kernel'[s] # None /\ leaf[s] = "files" => s \in late]_vars

(* What a remembered share survives when saves and roll-backs fail: it leaves *)
(* the file only by an UNMOUNT or because memory had lost it before (an UNMOUNT *)
(* whose save failed, a reconnection that could be neither saved nor undone);*)
(* no save made in an outage or by a later mount drops it.                  *)
SavesKeepRemembered ==
  [][\A s \in Shares : disk[s] # None /\ disk'[s] = None =>
       \/ ans' # None /\ ans'.op = "unmount" /\ ans'.s = s
       \/ rec[s] = None
       \/ ~rec[s].remembered]_vars

(* What the daemon needs to serve a remembered share: a recorded address    *)
(* that answers, a mountpoint it may use, and no news that the share is gone *)
(* or another filesystem.                                                   *)
LanServable(s) == Reachable(rec[s].lan)

Servable(s) ==
  /\ rec[s] # None /\ rec[s].remembered
  /\ leaf[s] # "files" /\ s \notin busy /\ kernel[s] # Foreign
  /\ LET c == cache[ServerOf[s]] IN
     c # None => c.offers[s] # None /\ c.offers[s].fs = rec[s].fs
  /\ LanServable(s) \/ (tsActive /\ Reachable(rec[s].ts))

Mounted(s) == kernel[s] \in Source /\ kernel[s].addr \in nfs

(* "The same share reconnects when its endpoint returns": a remembered      *)
(* share that stays servable is mounted, whatever failed before.            *)
RememberedReconnects ==
  \A s \in Shares : <>[]Servable(s) => []<>Mounted(s)

(* A mount that leads nowhere leaves the namespace even while files are     *)
(* open in it: when no endpoint ever answers again, its record being kept   *)
(* or not, the mountpoint is freed for good.                                *)
OfflineReleased ==
  \A s \in Shares : <>[](nfs = {} /\ rec[s] # None /\ kernel[s] # Foreign)
                     => <>[](kernel[s] = None)

(* "When LAN returns, the daemon tries a normal unmount to restore LAN      *)
(* preference": a share served over the tailnet comes back to the LAN.      *)
LanRestored ==
  \A s \in Shares :
    <>[](Servable(s) /\ LanServable(s))
      => []<>(kernel[s] \in Source /\ kernel[s].addr \in Lan)

(* README: "Explicit `simpleserve unmount PEER:SHARE` also disconnects an   *)
(* offline busy share and removes its remembered connection": once the      *)
(* client has been told so, a restart does not bring the connection back.   *)
AckedUnmountIsDurable ==
  ans # None /\ ans.op = "unmount" /\ ans.ok => disk[ans.s] = None
=============================================================================
