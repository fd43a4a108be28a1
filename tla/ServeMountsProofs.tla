------------------------- MODULE ServeMountsProofs -------------------------
(***************************************************************************)
(* Every value of the constants: the daemon's table, its file, its locals  *)
(* and its view of the world stay in their domains (TypeOK), the table     *)
(* never outgrows its array (TableBounded), the file follows the table     *)
(* (DiskCurrent) and is written before an answer promises it               *)
(* (AckedMountIsDurable); and no step drops what is remembered, detaches a *)
(* busy mount of a live endpoint, takes away another program's mount or    *)
(* hides files.                                                            *)
(***************************************************************************)
EXTENDS ServeMounts, FiniteSetTheorems, TLAPS

-----------------------------------------------------------------------------
(* Data: what the operators on records and views return.                    *)

(* One field of a record at a time.                                         *)
LEMMA RecordFields ==
  /\ \A r \in Record, a \in Opt(Addrs) : [r EXCEPT !.addr = a] \in Record
  /\ \A r \in Record, f \in FsIds : [r EXCEPT !.fs = f] \in Record
  /\ \A r \in Record, t \in Opt(Ts) : [r EXCEPT !.ts = t] \in Record
  /\ \A r \in Record, q \in BOOLEAN : [r EXCEPT !.remembered = q] \in Record
  /\ \A r \in Record, q \in BOOLEAN : [r EXCEPT !.mounted = q] \in Record
  /\ \A r \in Record, q \in BOOLEAN : [r EXCEPT !.available = q] \in Record
  /\ \A r \in Record, n \in 0..MissLimit : [r EXCEPT !.misses = n] \in Record
  /\ TRUE \in BOOLEAN /\ FALSE \in BOOLEAN
<1>1. \A r \in Record, a \in Opt(Addrs) : [r EXCEPT !.addr = a] \in Record
  BY DEF Record
<1>2. \A r \in Record, f \in FsIds : [r EXCEPT !.fs = f] \in Record
  BY DEF Record
<1>3. \A r \in Record, t \in Opt(Ts) : [r EXCEPT !.ts = t] \in Record
  BY DEF Record
<1>4. \A r \in Record, q \in BOOLEAN : [r EXCEPT !.remembered = q] \in Record
  BY DEF Record
<1>5. \A r \in Record, q \in BOOLEAN : [r EXCEPT !.mounted = q] \in Record
  BY DEF Record
<1>6. \A r \in Record, q \in BOOLEAN : [r EXCEPT !.available = q] \in Record
  BY DEF Record
<1>7. \A r \in Record, n \in 0..MissLimit : [r EXCEPT !.misses = n] \in Record
  BY DEF Record
<1> QED BY <1>1, <1>2, <1>3, <1>4, <1>5, <1>6, <1>7

LEMMA ZeroMisses == 0 \in 0..MissLimit
BY DEF MissLimit

(* update_mount_metadata returns a record.                                  *)
LEMMA UpdatedType ==
  ASSUME NEW r \in Record, NEW v \in View PROVE Updated(r, v) \in Record
BY DEF Updated, OrElse, Record, View, Opt

(* seed_remote_transport_metadata and the tailnet refresh return a view.    *)
LEMMA SeededType ==
  ASSUME NEW r \in Opt(Record), NEW v \in View, NEW t \in Opt(Ts)
  PROVE  [Seeded(v, r) EXCEPT !.ts = OrElse(t, @)] \in View
BY DEF Seeded, OrElse, Record, View, Opt

(* fill_mount_record returns a record.                                      *)
LEMMA FilledType ==
  ASSUME NEW r \in Opt(Record), NEW v \in View, NEW b \in BOOLEAN, NEW a \in Addrs
  PROVE  Filled(r, v, b, a) \in Record
<1>1. Blank(v) \in Record
  BY DEF Blank, Record, View, Opt, MissLimit
<1>2. PICK u \in Record : u = Updated(IF r = None THEN Blank(v) ELSE r, v)
  BY <1>1, UpdatedType DEF Opt
<1>3. v.fs \in FsIds /\ a \in Opt(Addrs) /\ (u.remembered \/ b) \in BOOLEAN
  BY DEF View, Opt
<1>4. [u EXCEPT !.addr = a, !.fs = v.fs, !.remembered = (u.remembered \/ b)] \in Record
  <2>1. [u EXCEPT !.addr = a, !.fs = v.fs] \in Record
    BY <1>3, RecordFields, Zenon
  <2> QED BY <1>3, <2>1, RecordFields, Zenon
<1>5. [u EXCEPT !.addr = a, !.fs = v.fs, !.remembered = (u.remembered \/ b),
                !.mounted = TRUE, !.available = TRUE] \in Record
  BY <1>4, RecordFields, Zenon
<1>6. [u EXCEPT !.addr = a, !.fs = v.fs, !.remembered = (u.remembered \/ b),
                !.mounted = TRUE, !.available = TRUE, !.misses = 0] \in Record
  BY <1>5, RecordFields, ZeroMisses, Zenon
<1> QED BY <1>2, <1>6, Zenon DEF Filled

(* What a save writes for a record is a record.                             *)
LEMMA SavedType == ASSUME NEW r \in Record PROVE Saved(r) \in Record
<1>1. [r EXCEPT !.mounted = FALSE, !.available = FALSE] \in Record
  BY RecordFields, Zenon
<1> QED BY <1>1, RecordFields, ZeroMisses, Zenon DEF Saved

(* A save writes nothing for a share the table does not hold.               *)
LEMMA ImageType ==
  ASSUME NEW table \in [Shares -> Opt(Record)]
  PROVE  /\ Image(table) \in [Shares -> Opt(Record)]
         /\ \A s \in Shares : Image(table)[s] # None => table[s] # None
BY SavedType DEF Image, Opt

(* A counted miss is a record.                                              *)
LEMMA MissedType ==
  ASSUME NEW r \in Record PROVE Missed(r) \in Record
<1>1. PICK u \in Record : u = [r EXCEPT !.available = FALSE]
  BY RecordFields
<1>2. PICK n \in 0..MissLimit : n = IF r.misses = MissLimit THEN r.misses ELSE r.misses + 1
  BY DEF Record, MissLimit
<1>3. Missed(r) = [u EXCEPT !.misses = n]
  BY <1>1, <1>2 DEF Missed, Record
<1> QED BY <1>3, RecordFields

(* A look that finds the record's share mounted or not yields a record.     *)
LEMMA LookedType ==
  ASSUME NEW s \in Shares, rec[s] \in Record, NEW v \in Opt(View), NEW k
  PROVE  Looked(s, v, k) \in Record
<1>1. PICK u \in Record : u = IF v # None THEN Updated(rec[s], v) ELSE rec[s]
  BY UpdatedType DEF Opt
<1>2. PICK q \in BOOLEAN : q = (k # None)
  OBVIOUS
<1>3. Looked(s, v, k) = [u EXCEPT !.mounted = q]
  BY <1>1, <1>2, Zenon DEF Looked
<1> QED BY <1>3, RecordFields

-----------------------------------------------------------------------------
(* The invariant, in the parts that actions disturb separately.             *)

RecOK  == rec \in [Shares -> Opt(Record)] /\ TableBounded
DiskOK == disk \in [Shares -> Opt(Record)] /\ Cardinality(OnDisk) <= MaxMounts
WorkOK == w \in Worker /\ LocalsOK /\ RoomKept
AnsOK  == cache \in [Servers -> Opt(Remote)] /\ ans \in Opt(Answer)
WorldOK == /\ kernel \in [Shares -> Source \cup {None, Foreign}]
           /\ leaf \in [Shares -> {"absent", "empty", "files"}]
           /\ stacked \subseteq Shares /\ busy \subseteq Shares /\ made \subseteq Shares
           /\ late \subseteq Shares /\ intruded \subseteq Shares
NetOK  == /\ nfs \subseteq Addrs /\ rpc \subseteq Addrs /\ seenDown \subseteq Addrs
          /\ tsActive \in BOOLEAN
CountOK == unsaved \in BOOLEAN /\ budget \in Budget

LEMMA Parts ==
  /\ IInv <=> RecOK /\ DiskOK /\ WorkOK /\ AnsOK /\ WorldOK /\ NetOK /\ CountOK
  /\ IInv' <=> RecOK' /\ DiskOK' /\ WorkOK' /\ AnsOK' /\ WorldOK' /\ NetOK' /\ CountOK'
BY DEF IInv, TypeOK, RecOK, DiskOK, WorkOK, AnsOK, WorldOK, NetOK, CountOK

(* Tables with fewer records fit as well; one more fits where room was kept. *)
LEMMA Fewer ==
  ASSUME NEW S, S \subseteq Shares, NEW T, T \subseteq S, Cardinality(S) <= MaxMounts
  PROVE  Cardinality(T) <= MaxMounts
<1>1. IsFiniteSet(S)
  BY ConstantsAssumption, FS_Subset
<1>2. Cardinality(T) <= Cardinality(S) /\ IsFiniteSet(T)
  BY <1>1, FS_Subset
<1> QED BY <1>1, <1>2, FS_CardinalityType, ConstantsAssumption

LEMMA OneMore ==
  ASSUME RecOK, NEW s \in Shares, Room(s), NEW T, T \subseteq Recorded \cup {s}
  PROVE  Cardinality(T) <= MaxMounts
<1>1. Recorded \subseteq Shares /\ IsFiniteSet(Recorded)
  BY ConstantsAssumption, FS_Subset DEF Recorded
<1>2. CASE s \in Recorded
  BY <1>1, <1>2, Fewer DEF RecOK, TableBounded
<1>3. CASE s \notin Recorded
  <2>1. Cardinality(Recorded) < MaxMounts
    BY <1>3 DEF Room, Recorded
  <2>2. Cardinality(Recorded \cup {s}) = Cardinality(Recorded) + 1
    BY <1>1, <1>3, FS_AddElement
  <2>3. Cardinality(Recorded \cup {s}) <= MaxMounts
    BY <1>1, <2>1, <2>2, FS_CardinalityType, ConstantsAssumption
  <2> QED BY <1>1, <2>3, Fewer
<1> QED BY <1>2, <1>3

(* Saving the table, or failing to, keeps the file in its domain.           *)
LEMMA SaveType ==
  ASSUME CountOK, DiskOK, NEW table \in [Shares -> Opt(Record)],
         Cardinality({s \in Shares : table[s] # None}) <= MaxMounts,
         SaveOk(table) \/ SaveFails \/ UNCHANGED <<disk, unsaved, budget>>
  PROVE  DiskOK' /\ CountOK'
<1>1. CASE SaveOk(table)
  <2>1. disk' = Image(table) /\ CountOK'
    BY <1>1 DEF SaveOk, NoFault, CountOK
  <2>2. OnDisk' \subseteq {s \in Shares : table[s] # None}
    BY <2>1, ImageType DEF OnDisk
  <2>3. Cardinality(OnDisk') <= MaxMounts
    BY <2>2, Fewer
  <2> QED BY <2>1, <2>3, ImageType DEF DiskOK
<1>2. CASE SaveFails
  <2>1. budget' \in Budget
    BY <1>2 DEF SaveFails, Fault, CountOK, Budget
  <2> QED BY <1>2, <2>1 DEF SaveFails, Fault, CountOK, DiskOK, OnDisk
<1>3. CASE UNCHANGED <<disk, unsaved, budget>>
  BY <1>3 DEF CountOK, DiskOK, OnDisk
<1> QED BY <1>1, <1>2, <1>3

LEMMA FaultType == ASSUME CountOK, Fault \/ NoFault, unsaved' = unsaved PROVE CountOK'
BY DEF Fault, NoFault, CountOK, Budget

(* The copies of a peer that the worker takes are views.                    *)
LEMMA ViewTypes ==
  ASSUME RecOK, AnsOK, NEW s \in Shares
  PROVE  /\ CachedViews(s) \subseteq View /\ RememberedViews(s) \subseteq View
         /\ RequestViews(s) \subseteq View /\ ReconcileViews(s) \subseteq Opt(View)
         /\ ValidViews(s) \subseteq Opt(View)
<1>1. FillLan(s) \subseteq Opt(Lan) /\ FillTs(s) \subseteq Opt(Ts)
  BY DEF FillLan, FillTs, PeersOf, Recorded, RecOK, Record, Opt
<1>2. ServerOf[s] \in Servers
  BY ConstantsAssumption
<1>3. CachedViews(s) \subseteq View
  BY <1>1, <1>2 DEF CachedViews, AnsOK, Remote, Offer, View, Opt
<1>4. RememberedViews(s) \subseteq View
  BY DEF RememberedViews, RecOK, Record, View, Opt
<1>5. RequestViews(s) \subseteq View /\ ReconcileViews(s) \subseteq Opt(View)
  BY <1>3, <1>4 DEF RequestViews, ReconcileViews, Opt
<1>6. ValidViews(s) \subseteq Opt(View)
  BY <1>5 DEF ValidViews, Opt
<1> QED BY <1>3, <1>4, <1>5, <1>6

-----------------------------------------------------------------------------
(* The worker's locals after each of the ways a step can leave them.        *)

LEMMA WorkerFields ==
  ASSUME NEW x \in Worker
  PROVE  /\ \A pc \in PCs : [x EXCEPT !.pc = pc] \in Worker
         /\ \A s \in Opt(Shares) : [x EXCEPT !.s = s] \in Worker
         /\ \A op \in Ops : [x EXCEPT !.op = op] \in Worker
         /\ \A v \in Opt(View) : [x EXCEPT !.srv = v] \in Worker
         /\ \A q \in PCs : [x EXCEPT !.then = q] \in Worker
         /\ \A t \in SUBSET Shares : [x EXCEPT !.todo = t] \in Worker
<1>1. \A pc \in PCs : [x EXCEPT !.pc = pc] \in Worker
  BY DEF Worker
<1>2. \A s \in Opt(Shares) : [x EXCEPT !.s = s] \in Worker
  BY DEF Worker
<1>3. \A op \in Ops : [x EXCEPT !.op = op] \in Worker
  BY DEF Worker
<1>4. \A v \in Opt(View) : [x EXCEPT !.srv = v] \in Worker
  BY DEF Worker
<1>5. \A q \in PCs : [x EXCEPT !.then = q] \in Worker
  BY DEF Worker
<1>6. \A t \in SUBSET Shares : [x EXCEPT !.todo = t] \in Worker
  BY DEF Worker
<1> QED BY <1>1, <1>2, <1>3, <1>4, <1>5, <1>6

LEMMA IdleType == Idle \in Worker
BY DEF Idle, Worker, PCs, Ops, Opt

(* Back to idle, or down.                                                   *)
LEMMA RestWork ==
  ASSUME w' = Idle \/ w' = [Idle EXCEPT !.pc = "down"]
  PROVE  WorkOK'
<1>1. [Idle EXCEPT !.pc = "down"] \in Worker
  BY IdleType DEF Worker, PCs
<1>2. w' \in Worker
  BY <1>1, IdleType, Zenon
<1>3. w'.pc \in {"idle", "down"} /\ w'.op = "none" /\ w'.todo = {}
  BY DEF Idle
<1> QED BY <1>2, <1>3 DEF WorkOK, LocalsOK, RoomKept, MountPCs, ReleasePCs, MountOps

(* On to the next record of a pass.                                         *)
LEMMA LoopWork ==
  ASSUME NEW T \in SUBSET Shares, T \subseteq Recorded', NEW pc \in {"reconcile", "refresh"},
         w' = [Idle EXCEPT !.pc = pc, !.todo = T]
  PROVE  WorkOK'
<1>1. w' \in Worker
  BY IdleType DEF Worker, PCs
<1> QED BY <1>1 DEF WorkOK, LocalsOK, RoomKept, Idle, MountPCs, ReleasePCs, MountOps

(* A mount attempt returns to its caller.                                   *)
LEMMA ReturnWork ==
  ASSUME WorkOK, AnsOK, w.s \in Shares, w.op \in MountOps, NEW ok \in BOOLEAN,
         MountReturns(ok), w.todo \ {w.s} \subseteq Recorded'
  PROVE  WorkOK' /\ AnsOK'
<1>1. cache' \in [Servers -> Opt(Remote)]
  BY ConstantsAssumption DEF MountReturns, Invalidated, AnsOK, Opt
<1>2. CASE w.op \in {"once", "remember"}
  <2>1. w' = Idle /\ ans' = [op |-> w.op, s |-> w.s, ok |-> ok]
    BY <1>2 DEF MountReturns
  <2>2. ans' \in Answer
    BY <1>2, <2>1 DEF Answer
  <2> QED BY <1>1, <2>1, <2>2, RestWork DEF AnsOK, Opt
<1>3. CASE w.op \notin {"once", "remember"}
  <2>1. w' = [Idle EXCEPT !.pc = "reconcile", !.todo = w.todo \ {w.s}] /\ ans' = ans
    BY <1>3 DEF MountReturns
  <2>2. w.todo \ {w.s} \in SUBSET Shares
    BY DEF WorkOK, Worker
  <2> QED BY <1>1, <2>1, <2>2, LoopWork DEF AnsOK
<1> QED BY <1>2, <1>3

(* A mount attempt, or a release, goes on with its next part.               *)
LEMMA GoOnWork ==
  ASSUME WorkOK, w' \in Worker, Recorded' = Recorded,
         w'.s = w.s, w'.op = w.op, w'.todo = w.todo, w.s \in Shares,
         w.pc \in (MountPCs \ {"prepare"}) \cup ReleasePCs,
         w.op \in MountOps, w.srv \in View, w'.srv \in View,
         w'.pc \in (MountPCs \ {"prepare"}) \cup ReleasePCs,
         w'.pc \in ReleasePCs => w'.then \in {"check", "offline"},
         w'.pc = "record" => w'.addr \in Addrs
  PROVE  WorkOK'
<1>1. LocalsOK'
  BY DEF WorkOK, LocalsOK, MountPCs, ReleasePCs, MountOps
<1>2. RoomKept'
  BY DEF WorkOK, RoomKept, Room, Recorded
<1> QED BY <1>1, <1>2 DEF WorkOK

-----------------------------------------------------------------------------
(* perform_mount.                                                           *)

LEMMA PutRecord ==
  ASSUME RecOK, NEW s \in Shares, NEW r \in Opt(Record), rec' = [rec EXCEPT ![s] = r],
         r = None \/ Room(s)
  PROVE  /\ RecOK' /\ Recorded \ {s} \subseteq Recorded'
         /\ r # None => s \in Recorded'
         /\ \A t \in Shares : t # s => rec'[t] = rec[t]
<1>1. /\ Recorded' \subseteq Recorded \cup {s}
      /\ r = None => Recorded' \subseteq Recorded
      /\ Recorded \ {s} \subseteq Recorded'
      /\ r # None => s \in Recorded'
  BY DEF Recorded, RecOK
<1>2. Cardinality(Recorded') <= MaxMounts
  <2>1. CASE r = None
    BY <1>1, <2>1, Fewer DEF RecOK, TableBounded, Recorded
  <2>2. CASE Room(s)
    BY <1>1, <2>2, OneMore
  <2> QED BY <2>1, <2>2
<1> QED BY <1>1, <1>2 DEF RecOK, TableBounded

LEMMA SetRecorded ==
  ASSUME RecOK, NEW s \in Shares, NEW r \in Opt(Record)
  PROVE  /\ [rec EXCEPT ![s] = r] \in [Shares -> Opt(Record)]
         /\ (r = None \/ Room(s)) =>
              Cardinality({t \in Shares : [rec EXCEPT ![s] = r][t] # None}) <= MaxMounts
<1>1. {t \in Shares : [rec EXCEPT ![s] = r][t] # None} \subseteq Recorded \cup {s}
  BY DEF Recorded, RecOK
<1>2. r = None => {t \in Shares : [rec EXCEPT ![s] = r][t] # None} \subseteq Recorded
  BY DEF Recorded, RecOK
<1>3. CASE r = None
  BY <1>2, <1>3, Fewer DEF RecOK, TableBounded, Recorded
<1>4. CASE Room(s)
  BY <1>1, <1>4, OneMore DEF RecOK
<1> QED BY <1>3, <1>4 DEF RecOK

LEMMA MakeLeafType ==
  ASSUME WorldOK, NEW s \in Shares, MakeLeaf(s) \/ DropLeaf(s)
  PROVE  leaf' \in [Shares -> {"absent", "empty", "files"}]
BY DEF WorldOK, MakeLeaf, DropLeaf

LEMMA PrepareStep == ASSUME IInv, Prepare PROVE IInv'
<1>1. /\ RecOK /\ DiskOK /\ WorkOK /\ AnsOK /\ WorldOK /\ NetOK /\ CountOK
      /\ w.s \in Shares /\ w.op \in MountOps /\ w.srv \in View /\ w \in Worker
      /\ rec[w.s] \in Opt(Record) /\ w.todo \subseteq Recorded
  BY Parts DEF Prepare, WorkOK, LocalsOK, MountPCs, RecOK
<1>2. NetOK'
  BY <1>1 DEF Prepare, NetOK, net
<1>3. leaf' \in [Shares -> {"absent", "empty", "files"}]
  BY <1>1, MakeLeafType DEF Prepare, WorldOK
<1>4. WorldOK'
  BY <1>1, <1>3 DEF Prepare, WorldOK, mounts
<1>5. CASE /\ MountReturns(FALSE) /\ rec' = rec
           /\ \/ Fault /\ UNCHANGED <<disk, unsaved>>
              \/ SaveFails
              \/ UNCHANGED <<disk, unsaved, budget>>
  <2>1. RecOK' /\ Recorded' = Recorded
    BY <1>1, <1>5 DEF RecOK, TableBounded, Recorded
  <2>2. WorkOK' /\ AnsOK'
    BY <1>1, <1>5, <2>1, ReturnWork
  <2>3. DiskOK' /\ CountOK'
    <3>1. CASE Fault /\ UNCHANGED <<disk, unsaved>>
      BY <1>1, <3>1, FaultType DEF DiskOK, OnDisk
    <3>2. CASE SaveFails \/ UNCHANGED <<disk, unsaved, budget>>
      BY <1>1, <3>2, SaveType DEF RecOK, TableBounded, Recorded
    <3> QED BY <1>5, <3>1, <3>2
  <2> QED BY <1>2, <1>4, <2>1, <2>2, <2>3, Parts
<1>6. ASSUME NEW t \in Refreshed, NEW v, NEW new,
             v = [Seeded(w.srv, rec[w.s]) EXCEPT !.ts = OrElse(t, @)],
             new = IF rec[w.s] = None THEN None ELSE Updated(rec[w.s], v),
             Room(w.s),
             SaveOk([rec EXCEPT ![w.s] = new]) \/ UNCHANGED <<disk, unsaved, budget>>,
             rec' = [rec EXCEPT ![w.s] = new],
             w' = [w EXCEPT !.pc = "inspect", !.srv = v, !.prev = new, !.usable = Usable(v)],
             UNCHANGED <<cache, ans>>
      PROVE  IInv'
  <2>1. t \in Opt(Ts)
    BY DEF Refreshed, Opt
  <2>2. v \in View
    BY <1>1, <1>6, <2>1, SeededType
  <2>3. new \in Opt(Record) /\ (new = None <=> rec[w.s] = None)
    <3>1. rec[w.s] # None => Updated(rec[w.s], v) \in Record
      BY <1>1, <2>2, UpdatedType DEF Opt
    <3>2. None \notin Record
      BY NoneAssumption
    <3> QED BY <1>6, <3>1, <3>2 DEF Opt
  <2>4. RecOK' /\ Recorded' = Recorded
    <3>1. RecOK'
      BY <1>1, <1>6, <2>3, PutRecord
    <3>2. Recorded' = Recorded
      BY <1>1, <1>6, <2>3 DEF Recorded, RecOK
    <3> QED BY <3>1, <3>2
  <2>5. DiskOK' /\ CountOK'
    <3>1. /\ [rec EXCEPT ![w.s] = new] \in [Shares -> Opt(Record)]
          /\ Cardinality({x \in Shares : [rec EXCEPT ![w.s] = new][x] # None}) <= MaxMounts
      BY <1>1, <1>6, <2>3, SetRecorded
    <3> QED BY <1>1, <1>6, <3>1, SaveType
  <2>6. w' \in Worker /\ w'.s = w.s /\ w'.op = w.op /\ w'.todo = w.todo
        /\ w'.pc = "inspect" /\ w'.srv = v
    <3>1. "inspect" \in PCs /\ v \in Opt(View) /\ Usable(v) \in SUBSET {"lan", "ts"}
      BY <2>2 DEF PCs, Usable, Opt
    <3> QED BY <1>1, <1>6, <2>3, <3>1 DEF Worker
  <2>7. WorkOK'
    <3>1. LocalsOK'
      BY <1>1, <2>2, <2>4, <2>6 DEF WorkOK, LocalsOK, MountPCs, ReleasePCs, MountOps, Prepare
    <3>2. RoomKept'
      BY <1>1, <1>6, <2>3, <2>4, <2>6 DEF RoomKept, Room, RecOK, Recorded
    <3> QED BY <2>6, <3>1, <3>2 DEF WorkOK
  <2>8. AnsOK'
    BY <1>1, <1>6 DEF AnsOK
  <2> QED BY <1>2, <1>4, <2>4, <2>5, <2>7, <2>8, Parts
<1> QED BY <1>5, <1>6 DEF Prepare

(* What every step of a mount attempt after the first starts from.          *)
LEMMA MountFacts ==
  ASSUME IInv, w.pc \in MountPCs
  PROVE  /\ RecOK /\ DiskOK /\ WorkOK /\ AnsOK /\ WorldOK /\ NetOK /\ CountOK
         /\ w.s \in Shares /\ w.op \in MountOps /\ w.srv \in View /\ w \in Worker
         /\ rec[w.s] \in Opt(Record) /\ w.todo \subseteq Recorded
         /\ w.pc # "prepare" => Room(w.s)
         /\ w.pc = "record" => w.addr \in Addrs
BY Parts DEF WorkOK, LocalsOK, RoomKept, MountPCs, RecOK

(* Filling the record of the share in hand and returning.                   *)
LEMMA FillReturns ==
  ASSUME RecOK, DiskOK, WorkOK, AnsOK, CountOK, w.s \in Shares, w.op \in MountOps,
         Room(w.s), NEW r \in Record, NEW ok \in BOOLEAN,
         rec' = [rec EXCEPT ![w.s] = r], MountReturns(ok),
         \/ SaveOk([rec EXCEPT ![w.s] = r])
         \/ SaveFails
         \/ UNCHANGED <<disk, unsaved, budget>>
  PROVE  RecOK' /\ DiskOK' /\ WorkOK' /\ AnsOK' /\ CountOK'
<1>1. r \in Opt(Record) /\ w.todo \subseteq Recorded
  BY DEF Opt, WorkOK, LocalsOK
<1>2. RecOK' /\ Recorded \ {w.s} \subseteq Recorded'
  BY <1>1, PutRecord
<1>3. WorkOK' /\ AnsOK'
  BY <1>1, <1>2, ReturnWork
<1>4. DiskOK' /\ CountOK'
  BY <1>1, SetRecorded, SaveType
<1> QED BY <1>2, <1>3, <1>4

(* Putting the previous record back after a failed save, and returning.     *)
LEMMA RestoreReturns ==
  ASSUME RecOK, DiskOK, WorkOK, AnsOK, CountOK, w.s \in Shares, w.op \in MountOps,
         Room(w.s), w.prev \in Opt(Record), NEW ok \in BOOLEAN,
         rec' = [rec EXCEPT ![w.s] = w.prev], MountReturns(ok), SaveFails
  PROVE  RecOK' /\ DiskOK' /\ WorkOK' /\ AnsOK' /\ CountOK'
<1>1. RecOK' /\ Recorded \ {w.s} \subseteq Recorded'
  BY PutRecord
<1>2. w.todo \subseteq Recorded
  BY DEF WorkOK, LocalsOK
<1>3. WorkOK' /\ AnsOK'
  BY <1>1, <1>2, ReturnWork
<1>4. DiskOK' /\ CountOK'
  BY SetRecorded, SaveType
<1> QED BY <1>1, <1>3, <1>4

(* Returning with the table and the file as they are.                       *)
LEMMA PlainReturns ==
  ASSUME RecOK, DiskOK, WorkOK, AnsOK, w.s \in Shares, w.op \in MountOps,
         NEW ok \in BOOLEAN, Recorded' = Recorded, MountReturns(ok)
  PROVE  WorkOK' /\ AnsOK'
<1>1. w.todo \ {w.s} \subseteq Recorded'
  BY DEF WorkOK, LocalsOK
<1> QED BY <1>1, ReturnWork

LEMMA RecordedSource ==
  ASSUME NEW r, NEW v \in View, NEW k
  PROVE  SourceAddr(r, v, k) \in Opt(Addrs) /\ RecordedAddr(r, v.exp, k) \in Opt(Addrs)
<1>1. k \in Source => k.addr \in Addrs
  BY DEF Source
<1> QED BY <1>1 DEF SourceAddr, RecordedAddr, ViewAddr, OrElse, Opt

(* What the commands do to the mount table.                                 *)
MountsOK == /\ kernel \in [Shares -> Source \cup {None, Foreign}]
            /\ stacked \subseteq Shares /\ busy \subseteq Shares /\ made \subseteq Shares

LEMMA MountsType ==
  ASSUME WorldOK, NEW s \in Shares,
         UNCHANGED mounts \/ Unmounted(s) \/ \E x \in Source : MountOver(s, x)
  PROVE  MountsOK'
<1>1. MountsOK
  BY DEF WorldOK, MountsOK
<1>2. CASE UNCHANGED mounts
  BY <1>1, <1>2 DEF MountsOK, mounts
<1>3. CASE Unmounted(s)
  BY <1>1, <1>3 DEF MountsOK, Unmounted
<1>4. CASE \E x \in Source : MountOver(s, x)
  <2>1. PICK x \in Source : MountOver(s, x)
    BY <1>4
  <2> QED BY <1>1, <2>1 DEF MountsOK, MountOver
<1> QED BY <1>2, <1>3, <1>4

LEMMA InspectStep == ASSUME IInv, Inspect PROVE IInv'
<1> DEFINE k == kernel[w.s]
           a == SourceAddr(rec[w.s], w.srv, k)
<1>1. /\ RecOK /\ DiskOK /\ WorkOK /\ AnsOK /\ WorldOK /\ NetOK /\ CountOK
      /\ w.s \in Shares /\ w.op \in MountOps /\ w.srv \in View /\ w \in Worker
      /\ rec[w.s] \in Opt(Record) /\ Room(w.s)
  BY MountFacts DEF Inspect, MountPCs
<1>2. NetOK' /\ WorldOK'
  BY <1>1 DEF Inspect, NetOK, WorldOK, net, mounts, Observed
<1>3. CASE Goto("check") /\ UNCHANGED <<rec, disk, unsaved, budget, cache, ans>>
  <2>1. w' \in Worker
    BY <1>1, <1>3, WorkerFields DEF Goto, PCs
  <2>2. /\ w'.s = w.s /\ w'.op = w.op /\ w'.todo = w.todo /\ w'.srv = w.srv
        /\ w'.pc = "check"
    BY <1>1, <1>3 DEF Goto, Worker
  <2>3. WorkOK'
    BY <1>1, <1>3, <2>1, <2>2, GoOnWork DEF Inspect, MountPCs, ReleasePCs, Recorded
  <2> QED BY <1>1, <1>2, <1>3, <2>3, Parts
        DEF RecOK, DiskOK, AnsOK, CountOK, TableBounded, Recorded, OnDisk
<1>4. CASE MountReturns(FALSE) /\ UNCHANGED <<rec, disk, unsaved, budget>>
  <2>1. WorkOK' /\ AnsOK'
    BY <1>1, <1>4, PlainReturns DEF Recorded
  <2> QED BY <1>1, <1>2, <1>4, <2>1, Parts
        DEF RecOK, DiskOK, CountOK, TableBounded, Recorded, OnDisk
<1>5. CASE a # None /\ Adopt(a)
  <2> DEFINE new == Filled(rec[w.s], w.srv, Remembers(w.op), a)
  <2>1. a \in Addrs
    BY <1>1, <1>5, RecordedSource DEF Opt
  <2>2. new \in Record
    BY <1>1, <2>1, FilledType DEF Remembers
  <2>3. CASE /\ IF new.remembered THEN SaveOk([rec EXCEPT ![w.s] = new])
                                  ELSE UNCHANGED <<disk, unsaved, budget>>
             /\ rec' = [rec EXCEPT ![w.s] = new]
             /\ MountReturns(TRUE)
    BY <1>1, <1>2, <2>2, <2>3, FillReturns, Parts
  <2>4. CASE SaveFails /\ rec' = [rec EXCEPT ![w.s] = w.prev] /\ MountReturns(FALSE)
    <3>1. w.prev \in Opt(Record)
      BY <1>1 DEF Worker
    <3> QED BY <1>1, <1>2, <2>4, <3>1, RestoreReturns, Parts
  <2> QED BY <1>5, <2>3, <2>4 DEF Adopt
<1>6. CASE /\ \E pc \in {"check", "offline"} : ReleaseThen(pc)
           /\ UNCHANGED <<rec, disk, unsaved, budget, cache, ans>>
  <2>0. PICK pc \in {"check", "offline"} : ReleaseThen(pc)
    BY <1>6
  <2>1. w' \in Worker
    BY <1>1, <2>0, WorkerFields DEF ReleaseThen, PCs
  <2>2. /\ w'.s = w.s /\ w'.op = w.op /\ w'.todo = w.todo /\ w'.srv = w.srv
        /\ w'.pc = "release" /\ w'.then = pc
    BY <1>1, <2>0 DEF ReleaseThen, Worker
  <2>3. WorkOK'
    BY <1>1, <1>6, <2>1, <2>2, GoOnWork DEF Inspect, MountPCs, ReleasePCs, Recorded
  <2> QED BY <1>1, <1>2, <1>6, <2>3, Parts
        DEF RecOK, DiskOK, AnsOK, CountOK, TableBounded, Recorded, OnDisk
<1> QED BY <1>3, <1>4, <1>5, <1>6 DEF Inspect

LEMMA OfflineStep == ASSUME IInv, Offline PROVE IInv'
<1>1. /\ RecOK /\ DiskOK /\ WorkOK /\ AnsOK /\ WorldOK /\ NetOK /\ CountOK
      /\ w.s \in Shares /\ w.op \in MountOps /\ rec[w.s] \in Opt(Record)
  BY MountFacts DEF Offline, MountPCs
<1>2. rec' \in [Shares -> Opt(Record)] /\ Recorded' = Recorded
  <2>1. CASE rec[w.s] = None
    BY <1>1, <2>1 DEF Offline, RecOK, Recorded
  <2>2. CASE rec[w.s] # None
    <3>1. PICK r \in Record : r = [rec[w.s] EXCEPT !.mounted = FALSE, !.available = FALSE]
      <4>1. rec[w.s] \in Record
        BY <1>1, <2>2 DEF Opt
      <4>2. [rec[w.s] EXCEPT !.mounted = FALSE] \in Record
        BY <4>1, RecordFields, Zenon
      <4> QED BY <4>2, RecordFields, Zenon
    <3>2. rec' = [rec EXCEPT ![w.s] = r]
      BY <1>1, <2>2, <3>1 DEF Offline, RecOK
    <3> QED BY <1>1, <2>2, <3>2, NoneAssumption DEF RecOK, Recorded, Opt
  <2> QED BY <2>1, <2>2
<1>3. RecOK'
  BY <1>1, <1>2 DEF RecOK, TableBounded
<1>4. WorkOK' /\ AnsOK'
  BY <1>1, <1>2, PlainReturns DEF Offline
<1>5. DiskOK' /\ WorldOK' /\ NetOK' /\ CountOK'
  BY <1>1 DEF Offline, store, world, mounts, net, DiskOK, WorldOK, NetOK, CountOK, OnDisk
<1> QED BY <1>3, <1>4, <1>5, Parts

LEMMA CheckStep == ASSUME IInv, Check PROVE IInv'
<1>1. /\ RecOK /\ DiskOK /\ WorkOK /\ AnsOK /\ WorldOK /\ NetOK /\ CountOK
      /\ w.s \in Shares /\ w.op \in MountOps /\ w.srv \in View /\ w \in Worker
      /\ rec[w.s] \in Opt(Record)
  BY MountFacts DEF Check, MountPCs
<1>2. rec' \in [Shares -> Opt(Record)] /\ Recorded' = Recorded
  <2>1. CASE w.then = "check" /\ rec[w.s] # None
    <3>1. PICK r \in Record : r = [rec[w.s] EXCEPT !.mounted = FALSE]
      BY <1>1, <2>1, RecordFields, Zenon DEF Opt
    <3>2. rec' = [rec EXCEPT ![w.s] = r]
      BY <1>1, <2>1, <3>1 DEF Check, RecOK
    <3> QED BY <1>1, <2>1, <3>2, NoneAssumption DEF RecOK, Recorded, Opt
  <2>2. CASE rec' = rec
    BY <1>1, <2>2 DEF RecOK, Recorded
  <2> QED BY <2>1, <2>2 DEF Check
<1>3. RecOK'
  BY <1>1, <1>2 DEF RecOK, TableBounded
<1>4. WorkOK' /\ AnsOK'
  <2>1. CASE Goto("try") /\ UNCHANGED <<cache, ans>>
    <3>1. w' \in Worker
      BY <1>1, <2>1, WorkerFields DEF Goto, PCs
    <3>2. /\ w'.s = w.s /\ w'.op = w.op /\ w'.todo = w.todo /\ w'.srv = w.srv
          /\ w'.pc = "try"
      BY <1>1, <2>1 DEF Goto, Worker
    <3>3. WorkOK'
      BY <1>1, <1>2, <3>1, <3>2, GoOnWork DEF Check, MountPCs, ReleasePCs
    <3> QED BY <1>1, <2>1, <3>3 DEF AnsOK
  <2>2. CASE MountReturns(FALSE)
    BY <1>1, <1>2, <2>2, PlainReturns
  <2> QED BY <2>1, <2>2 DEF Check
<1>5. DiskOK' /\ WorldOK' /\ NetOK' /\ CountOK'
  BY <1>1 DEF Check, store, net, mounts, DiskOK, WorldOK, NetOK, CountOK, OnDisk
<1> QED BY <1>3, <1>4, <1>5, Parts

LEMMA ChosenType ==
  ASSUME NEW v \in View, NEW u \in SUBSET {"lan", "ts"}
  PROVE  ChooseRoute(v, u) \in Opt(Addrs)
BY DEF ChooseRoute, View, Opt, Addrs

LEMMA TryStep == ASSUME IInv, Try PROVE IInv'
<1> DEFINE a == ChooseRoute(w.srv, w.usable)
           source == [addr |-> a, exp |-> w.srv.exp]
<1>1. /\ RecOK /\ DiskOK /\ WorkOK /\ AnsOK /\ WorldOK /\ NetOK /\ CountOK
      /\ w.s \in Shares /\ w.op \in MountOps /\ w.srv \in View /\ w \in Worker
  BY MountFacts DEF Try, MountPCs
<1>2. /\ RecOK' /\ DiskOK' /\ NetOK' /\ Recorded' = Recorded
      /\ rec' = rec /\ unsaved' = unsaved
  BY <1>1 DEF Try, store, net, RecOK, DiskOK, NetOK, OnDisk, TableBounded, Recorded
<1>3. a \in Opt(Addrs)
  BY <1>1, ChosenType DEF Worker
<1>4. a # None => source \in Source
  BY <1>1, <1>3 DEF Source, View, Opt
<1>5. WorldOK'
  <2>1. a \in nfs => a # None
    BY <1>1, ConstantsAssumption DEF NetOK
  <2>2. UNCHANGED mounts \/ Unmounted(w.s) \/ (a # None /\ MountOver(w.s, source))
    BY <2>1 DEF Try, RolledBack
  <2>3. MountsOK'
    BY <1>1, <1>4, <2>2, MountsType
  <2>4. UNCHANGED <<leaf, late, intruded>>
    BY DEF Try
  <2> QED BY <1>1, <2>3, <2>4 DEF WorldOK, MountsOK
<1>6. CountOK'
  BY <1>1, <1>2, FaultType DEF Try, CountOK, NoFault
<1>7. WorkOK' /\ AnsOK'
  <2>1. CASE MountReturns(FALSE)
    BY <1>1, <1>2, <2>1, PlainReturns
  <2>2. CASE /\ a \in nfs /\ w' = [w EXCEPT !.pc = "record", !.addr = a]
             /\ UNCHANGED <<cache, ans>>
    <3>1. a \in Addrs
      BY <1>1, <2>2 DEF NetOK
    <3>2. /\ w'.s = w.s /\ w'.op = w.op /\ w'.todo = w.todo /\ w'.srv = w.srv
          /\ w'.pc = "record" /\ w'.addr = a /\ w' \in Worker
      BY <1>1, <1>3, <2>2 DEF Worker, PCs
    <3>3. WorkOK'
      BY <1>1, <1>2, <3>1, <3>2, GoOnWork DEF Try, MountPCs, ReleasePCs
    <3> QED BY <1>1, <2>2, <3>3 DEF AnsOK
  <2>3. CASE /\ w' = [w EXCEPT !.usable = IF "lan" \in @ THEN @ \ {"lan"} ELSE {}]
             /\ UNCHANGED <<cache, ans>>
    <3>1. PICK u \in SUBSET {"lan", "ts"} : w' = [w EXCEPT !.usable = u]
      BY <1>1, <2>3 DEF Worker
    <3>2. /\ w'.s = w.s /\ w'.op = w.op /\ w'.todo = w.todo /\ w'.srv = w.srv
          /\ w'.pc = "try" /\ w' \in Worker
      BY <1>1, <3>1 DEF Worker, Try
    <3>3. WorkOK'
      BY <1>1, <1>2, <3>2, GoOnWork DEF Try, MountPCs, ReleasePCs
    <3> QED BY <1>1, <2>3, <3>3 DEF AnsOK
  <2> QED BY <2>1, <2>2, <2>3 DEF Try
<1> QED BY <1>2, <1>5, <1>6, <1>7, Parts

LEMMA CommitStep == ASSUME IInv, Commit PROVE IInv'
<1> DEFINE new == Filled(rec[w.s], w.srv, Remembers(w.op), w.addr)
<1>1. /\ RecOK /\ DiskOK /\ WorkOK /\ AnsOK /\ WorldOK /\ NetOK /\ CountOK
      /\ w.s \in Shares /\ w.op \in MountOps /\ w.srv \in View /\ w \in Worker
      /\ rec[w.s] \in Opt(Record) /\ Room(w.s) /\ w.addr \in Addrs
  BY MountFacts DEF Commit, MountPCs
<1>2. new \in Record
  BY <1>1, FilledType DEF Remembers
<1>3. NetOK' /\ WorldOK'
  <2>1. UNCHANGED <<leaf, late, intruded, nfs, rpc, tsActive, seenDown>>
    BY DEF Commit, net
  <2>2. UNCHANGED mounts \/ Unmounted(w.s)
    BY Zenon DEF Commit, RolledBack
  <2>3. MountsOK'
    BY <1>1, <2>2, MountsType
  <2> QED BY <1>1, <2>1, <2>3 DEF WorldOK, MountsOK, NetOK
<1>4. CASE /\ IF new.remembered THEN SaveOk([rec EXCEPT ![w.s] = new])
                                ELSE UNCHANGED <<disk, unsaved, budget>>
           /\ rec' = [rec EXCEPT ![w.s] = new]
           /\ MountReturns(TRUE)
  BY <1>1, <1>2, <1>3, <1>4, FillReturns, Parts
<1>5. CASE SaveFails /\ MountReturns(FALSE) /\ rec' = [rec EXCEPT ![w.s] = w.prev]
  <2>1. w.prev \in Opt(Record)
    BY <1>1 DEF Worker
  <2> QED BY <1>1, <1>3, <1>5, <2>1, RestoreReturns, Parts
<1>6. CASE /\ SaveFails /\ MountReturns(FALSE)
           /\ rec' = [rec EXCEPT ![w.s] = [new EXCEPT !.remembered = FALSE]]
  <2>1. PICK r \in Record : r = [new EXCEPT !.remembered = FALSE]
    BY <1>2, RecordFields, Zenon
  <2> QED BY <1>1, <1>3, <1>6, <2>1, FillReturns, Parts
<1> QED BY <1>4, <1>5, <1>6 DEF Commit

-----------------------------------------------------------------------------
(* release_managed_mount.                                                   *)

LEMMA ReleaseFacts ==
  ASSUME IInv, w.pc \in ReleasePCs
  PROVE  /\ RecOK /\ DiskOK /\ WorkOK /\ AnsOK /\ WorldOK /\ NetOK /\ CountOK
         /\ w.s \in Shares /\ w \in Worker /\ w.todo \subseteq Recorded
         /\ \/ w.op \in MountOps /\ w.srv \in View /\ w.then \in {"check", "offline"}
            \/ w.op = "unmount" /\ w.then = "forget"
            \/ w.op = "expire" /\ w.then = "released" /\ w.s \in w.todo
BY Parts DEF WorkOK, LocalsOK, ReleasePCs

(* Going on inside a release.                                               *)
LEMMA InRelease ==
  ASSUME IInv, w.pc \in ReleasePCs, w' \in Worker, rec' = rec,
         w'.s = w.s, w'.op = w.op, w'.todo = w.todo, w'.srv = w.srv,
         w'.then = w.then, w'.pc \in ReleasePCs
  PROVE  WorkOK'
<1>0. Recorded' = Recorded
  BY DEF Recorded
<1>1. LocalsOK'
  BY <1>0, Parts DEF WorkOK, LocalsOK, MountPCs, ReleasePCs, MountOps
<1>2. RoomKept'
  <2>1. w.op \in MountOps => Room(w.s)
    BY Parts DEF WorkOK, RoomKept, ReleasePCs
  <2> QED BY <1>0, <2>1 DEF RoomKept, Room
<1> QED BY <1>1, <1>2 DEF WorkOK

LEMMA ReleaseReturnsWork ==
  ASSUME IInv, w.pc \in ReleasePCs, rec' = rec, NEW ok \in BOOLEAN, ReleaseReturns(ok)
  PROVE  WorkOK' /\ AnsOK'
<1>1. /\ RecOK /\ DiskOK /\ WorkOK /\ AnsOK /\ w.s \in Shares /\ w \in Worker
      /\ w.todo \subseteq Recorded /\ Recorded' = Recorded
      /\ \/ w.op \in MountOps /\ w.srv \in View /\ w.then \in {"check", "offline"}
         \/ w.op = "unmount" /\ w.then = "forget"
         \/ w.op = "expire" /\ w.then = "released" /\ w.s \in w.todo
  BY ReleaseFacts DEF Recorded
<1>2. CASE ok
  <2>1. w' = [w EXCEPT !.pc = w.then, !.src = None, !.addr = None] /\ AnsOK'
    BY <1>1, <1>2 DEF ReleaseReturns, AnsOK
  <2>2. /\ w' \in Worker /\ w'.s = w.s /\ w'.op = w.op /\ w'.todo = w.todo
        /\ w'.srv = w.srv /\ w'.pc = w.then
    BY <1>1, <2>1 DEF Worker, Opt
  <2>3. CASE w.op \in MountOps /\ w.srv \in View /\ w.then \in {"check", "offline"}
    BY <1>1, <2>1, <2>2, <2>3, GoOnWork DEF MountPCs, ReleasePCs
  <2>4. CASE w.op = "unmount" /\ w.then = "forget"
    <3>1. LocalsOK' /\ RoomKept'
      BY <1>1, <2>2, <2>4 DEF LocalsOK, RoomKept, MountPCs, ReleasePCs, MountOps
    <3> QED BY <2>1, <2>2, <3>1 DEF WorkOK
  <2>5. CASE w.op = "expire" /\ w.then = "released" /\ w.s \in w.todo
    <3>1. LocalsOK' /\ RoomKept'
      BY <1>1, <2>2, <2>5 DEF LocalsOK, RoomKept, MountPCs, ReleasePCs, MountOps
    <3> QED BY <2>1, <2>2, <3>1 DEF WorkOK
  <2> QED BY <1>1, <2>3, <2>4, <2>5
<1>3. CASE ~ok /\ w.op = "unmount"
  <2>1. w' = Idle /\ ans' = [op |-> "unmount", s |-> w.s, ok |-> FALSE] /\ cache' = cache
    BY <1>3 DEF ReleaseReturns, Answers
  <2>2. AnsOK'
    BY <1>1, <2>1 DEF AnsOK, Answer, Opt
  <2> QED BY <2>1, <2>2, RestWork
<1>4. CASE ~ok /\ w.op = "expire"
  <2>1. w' = [Idle EXCEPT !.pc = "reconcile", !.todo = w.todo \ {w.s}]
        /\ UNCHANGED <<cache, ans>>
    BY <1>4 DEF ReleaseReturns, NextRecord
  <2>2. w.todo \ {w.s} \in SUBSET Shares
    BY <1>1 DEF Worker
  <2>3. AnsOK'
    BY <1>1, <2>1 DEF AnsOK
  <2> QED BY <1>1, <2>1, <2>2, <2>3, LoopWork
<1>5. CASE ~ok /\ w.op \in MountOps
  <2>1. MountReturns(FALSE)
    BY <1>5 DEF ReleaseReturns, MountOps
  <2> QED BY <1>1, <1>5, <2>1, PlainReturns
<1> QED BY <1>1, <1>2, <1>3, <1>4, <1>5

LEMMA ReleaseStep == ASSUME IInv, Release PROVE IInv'
<1> DEFINE k == kernel[w.s]
           a == IF rec[w.s] = None THEN None
                ELSE RecordedAddr(rec[w.s], rec[w.s].exp, k)
<1>1. /\ RecOK /\ DiskOK /\ WorkOK /\ AnsOK /\ WorldOK /\ NetOK /\ CountOK
      /\ w.s \in Shares /\ w \in Worker /\ w.pc \in ReleasePCs
  BY ReleaseFacts DEF Release, ReleasePCs
<1>2. /\ RecOK' /\ DiskOK' /\ rec' = rec /\ unsaved' = unsaved
      /\ UNCHANGED <<leaf, nfs, rpc, tsActive, late>>
  BY <1>1 DEF Release, store, net, RecOK, DiskOK, OnDisk, TableBounded, Recorded
<1>3. WorldOK'
  <2>1. UNCHANGED mounts \/ Unmounted(w.s)
    BY DEF Release
  <2>2. MountsOK'
    BY <1>1, <2>1, MountsType
  <2>3. intruded' = intruded \ {w.s}
    BY DEF Release, Observed
  <2> QED BY <1>1, <1>2, <2>2, <2>3 DEF WorldOK, MountsOK
<1>4. NetOK'
  <2>1. seenDown' = seenDown \/ seenDown' = Addrs \ nfs
    BY DEF Release
  <2> QED BY <1>1, <1>2, <2>1 DEF NetOK
<1>5. CountOK'
  BY <1>1, <1>2, FaultType DEF Release, NoFault
<1>6. WorkOK' /\ AnsOK'
  <2>1. CASE \E ok \in BOOLEAN : ReleaseReturns(ok)
    BY <1>1, <1>2, <2>1, ReleaseReturnsWork
  <2>2. CASE /\ a # None /\ UNCHANGED <<cache, ans>>
             /\ w' = [w EXCEPT !.pc = "recheck", !.addr = a, !.src = k]
    <3>1. k \in Source /\ a \in Addrs
      BY <1>1, <2>2 DEF RecordedAddr, Source
    <3>2. /\ w' \in Worker /\ w'.s = w.s /\ w'.op = w.op /\ w'.todo = w.todo
          /\ w'.srv = w.srv /\ w'.then = w.then /\ w'.pc = "recheck"
      BY <1>1, <2>2, <3>1 DEF Worker, PCs, Opt
    <3>3. WorkOK'
      BY <1>1, <1>2, <3>2, InRelease DEF ReleasePCs
    <3> QED BY <1>1, <2>2, <3>3 DEF AnsOK
  <2>3. CASE ReleaseReturns(NothingLeft(w.s))
    BY <2>1, <2>3 DEF NothingLeft
  <2>4. CASE ReleaseReturns(TRUE) \/ ReleaseReturns(FALSE)
    BY <2>1, <2>4
  <2> QED BY <2>2, <2>3, <2>4 DEF Release
<1> QED BY <1>2, <1>3, <1>4, <1>5, <1>6, Parts

LEMMA RecheckStep == ASSUME IInv, Recheck PROVE IInv'
<1>1. /\ RecOK /\ DiskOK /\ WorkOK /\ AnsOK /\ WorldOK /\ NetOK /\ CountOK
      /\ w.s \in Shares /\ w \in Worker /\ w.pc \in ReleasePCs
  BY ReleaseFacts DEF Recheck, ReleasePCs
<1>2. /\ RecOK' /\ DiskOK' /\ WorldOK' /\ NetOK' /\ CountOK' /\ rec' = rec
  BY <1>1 DEF Recheck, Observed, store, mounts, net, RecOK, DiskOK, OnDisk, TableBounded,
              Recorded, WorldOK, NetOK, CountOK
<1>3. WorkOK' /\ AnsOK'
  <2>1. CASE \E ok \in BOOLEAN : ReleaseReturns(ok)
    BY <1>1, <1>2, <2>1, ReleaseReturnsWork
  <2>2. CASE Goto("detach") /\ UNCHANGED <<cache, ans>>
    <3>1. w' \in Worker
      BY <1>1, <2>2, WorkerFields DEF Goto, PCs
    <3>2. /\ w'.s = w.s /\ w'.op = w.op /\ w'.todo = w.todo
          /\ w'.srv = w.srv /\ w'.then = w.then /\ w'.pc = "detach"
      BY <1>1, <2>2 DEF Worker, Goto
    <3>3. WorkOK'
      BY <1>1, <1>2, <3>1, <3>2, InRelease DEF ReleasePCs
    <3> QED BY <1>1, <2>2, <3>3 DEF AnsOK
  <2> QED BY <2>1, <2>2 DEF Recheck
<1> QED BY <1>2, <1>3, Parts

LEMMA DetachStep == ASSUME IInv, Detach PROVE IInv'
<1>1. /\ RecOK /\ DiskOK /\ WorkOK /\ AnsOK /\ WorldOK /\ NetOK /\ CountOK
      /\ w.s \in Shares /\ w \in Worker /\ w.pc \in ReleasePCs
  BY ReleaseFacts DEF Detach, ReleasePCs
<1>2. /\ RecOK' /\ DiskOK' /\ NetOK' /\ rec' = rec /\ unsaved' = unsaved
      /\ UNCHANGED <<leaf, late, intruded>>
  BY <1>1 DEF Detach, store, net, RecOK, DiskOK, OnDisk, TableBounded, Recorded, NetOK
<1>3. WorldOK'
  <2>1. UNCHANGED mounts \/ Unmounted(w.s)
    BY DEF Detach
  <2>2. MountsOK'
    BY <1>1, <2>1, MountsType
  <2> QED BY <1>1, <1>2, <2>2 DEF WorldOK, MountsOK
<1>4. CountOK'
  BY <1>1, <1>2, FaultType DEF Detach
<1>5. WorkOK' /\ AnsOK'
  <2>1. PICK ok \in BOOLEAN : ReleaseReturns(ok)
    BY DEF Detach, NothingLeft
  <2> QED BY <1>1, <1>2, <2>1, ReleaseReturnsWork
<1> QED BY <1>2, <1>3, <1>4, <1>5, Parts

-----------------------------------------------------------------------------
(* The requests of a client.                                                *)

LEMMA AnswersWork ==
  ASSUME AnsOK, cache' = cache, NEW op \in {"once", "remember", "unmount"},
         NEW s \in Shares, NEW ok \in BOOLEAN, Answers(op, s, ok)
  PROVE  WorkOK' /\ AnsOK'
<1>1. w' = Idle /\ ans' \in Answer
  BY DEF Answers, Answer
<1> QED BY <1>1, RestWork DEF AnsOK, Opt

LEMMA RequestMountStep ==
  ASSUME IInv, NEW s \in Shares, NEW op \in {"once", "remember"}, RequestMount(s, op)
  PROVE  IInv'
<1>1. RecOK /\ DiskOK /\ WorkOK /\ AnsOK /\ WorldOK /\ NetOK /\ CountOK
  BY Parts
<1>2. RecOK' /\ DiskOK' /\ WorldOK' /\ NetOK' /\ CountOK' /\ cache' = cache
  BY <1>1 DEF RequestMount, store, world, mounts, net, RecOK, DiskOK, OnDisk, TableBounded,
              Recorded, WorldOK, NetOK, CountOK
<1>3. CASE Answers(op, s, FALSE)
  BY <1>1, <1>2, <1>3, AnswersWork, Parts
<1>4. ASSUME NEW v \in RequestViews(s), ans' = None,
             w' = [Idle EXCEPT !.pc = "prepare", !.s = s, !.op = op, !.srv = v]
      PROVE  IInv'
  <2>1. v \in View
    BY <1>1, ViewTypes
  <2>2. w' \in Worker
    BY <1>4, <2>1, IdleType DEF Worker, PCs, Ops, Opt
  <2>3. w'.pc = "prepare" /\ w'.s = s /\ w'.op = op /\ w'.srv = v /\ w'.todo = {}
    BY <1>4 DEF Idle
  <2>4. LocalsOK' /\ RoomKept'
    BY <2>1, <2>3 DEF LocalsOK, RoomKept, MountPCs, ReleasePCs, MountOps
  <2>5. AnsOK'
    BY <1>1, <1>2, <1>4 DEF AnsOK, Opt
  <2> QED BY <1>2, <2>2, <2>4, <2>5, Parts DEF WorkOK
<1> QED BY <1>3, <1>4 DEF RequestMount

LEMMA ForgetRecordStep ==
  ASSUME IInv, NEW s \in Shares, ForgetRecord(s),
         UNCHANGED <<cache, mounts, late, intruded, net, seenDown>>
  PROVE  IInv'
<1>1. RecOK /\ DiskOK /\ WorkOK /\ AnsOK /\ WorldOK /\ NetOK /\ CountOK
  BY Parts
<1>2. None \in Opt(Record) /\ rec' = [rec EXCEPT ![s] = None]
  BY DEF Opt, ForgetRecord
<1>3. RecOK'
  BY <1>1, <1>2, PutRecord
<1>4. DiskOK' /\ CountOK'
  BY <1>1, <1>2, SetRecorded, SaveType DEF ForgetRecord
<1>5. WorkOK' /\ AnsOK'
  BY <1>1, AnswersWork DEF ForgetRecord
<1>6. leaf' \in [Shares -> {"absent", "empty", "files"}]
  BY <1>1, MakeLeafType DEF ForgetRecord, WorldOK
<1>7. WorldOK' /\ NetOK'
  BY <1>1, <1>6 DEF WorldOK, NetOK, net, mounts
<1> QED BY <1>3, <1>4, <1>5, <1>7, Parts

LEMMA RefusalStep ==
  ASSUME IInv, NEW s \in Shares, Answers("unmount", s, FALSE), Fault \/ NoFault,
         UNCHANGED <<rec, leaf, store, cache, mounts, late, intruded, net, seenDown>>
  PROVE  IInv'
<1>1. RecOK /\ DiskOK /\ WorkOK /\ AnsOK /\ WorldOK /\ NetOK /\ CountOK
  BY Parts
<1>2. RecOK' /\ DiskOK' /\ NetOK' /\ WorldOK' /\ unsaved' = unsaved
  BY <1>1 DEF store, net, mounts, RecOK, DiskOK, OnDisk, TableBounded, Recorded, NetOK, WorldOK
<1>3. CountOK'
  BY <1>1, <1>2, FaultType
<1> QED BY <1>1, <1>2, <1>3, AnswersWork, Parts

LEMMA ForgetStep == ASSUME IInv, Forget PROVE IInv'
<1>1. w.s \in Shares
  BY Parts DEF WorkOK, LocalsOK, Forget
<1>2. CASE kernel[w.s] = None
  BY <1>1, <1>2, ForgetRecordStep DEF Forget
<1>3. CASE kernel[w.s] # None
  BY <1>1, <1>3, RefusalStep DEF Forget, NoFault
<1> QED BY <1>2, <1>3

LEMMA RequestUnmountStep ==
  ASSUME IInv, NEW s \in Shares, RequestUnmount(s) PROVE IInv'
<1>1. RecOK /\ DiskOK /\ WorkOK /\ AnsOK /\ WorldOK /\ NetOK /\ CountOK
  BY Parts
<1>2. UNCHANGED <<cache, mounts, late, intruded, net, seenDown>>
  BY DEF RequestUnmount
<1>3. CASE ForgetRecord(s)
  BY <1>2, <1>3, ForgetRecordStep
<1>4. CASE /\ DropLeaf(s) \/ leaf' = leaf
           /\ Fault \/ NoFault
           /\ UNCHANGED <<rec, store>>
           /\ \/ \E ok \in BOOLEAN : Answers("unmount", s, ok)
              \/ /\ w' = [Idle EXCEPT !.pc = "release", !.s = s,
                                       !.op = "unmount", !.then = "forget"]
                 /\ ans' = None
  <2>1. RecOK' /\ DiskOK' /\ NetOK' /\ unsaved' = unsaved /\ cache' = cache
    BY <1>1, <1>2, <1>4 DEF store, net, RecOK, DiskOK, OnDisk, TableBounded, Recorded, NetOK
  <2>2. CountOK'
    BY <1>1, <1>4, <2>1, FaultType
  <2>3. leaf' \in [Shares -> {"absent", "empty", "files"}]
    BY <1>1, <1>4, MakeLeafType DEF WorldOK
  <2>4. WorldOK'
    BY <1>1, <1>2, <2>3 DEF WorldOK, mounts
  <2>5. CASE \E ok \in BOOLEAN : Answers("unmount", s, ok)
    BY <1>1, <2>1, <2>2, <2>4, <2>5, AnswersWork, Parts
  <2>6. CASE /\ w' = [Idle EXCEPT !.pc = "release", !.s = s,
                                  !.op = "unmount", !.then = "forget"]
             /\ ans' = None
    <3>1. w' \in Worker
      BY <2>6, IdleType DEF Worker, PCs, Ops, Opt
    <3>2. w'.pc = "release" /\ w'.s = s /\ w'.op = "unmount" /\ w'.then = "forget"
          /\ w'.todo = {}
      BY <2>6 DEF Idle
    <3>3. LocalsOK' /\ RoomKept'
      BY <3>2 DEF LocalsOK, RoomKept, MountPCs, ReleasePCs, MountOps
    <3>4. AnsOK'
      BY <1>1, <2>1, <2>6 DEF AnsOK, Opt
    <3> QED BY <2>1, <2>2, <2>4, <3>1, <3>3, <3>4, Parts DEF WorkOK
  <2> QED BY <1>4, <2>5, <2>6
<1> QED BY <1>3, <1>4 DEF RequestUnmount, NoFault, store

-----------------------------------------------------------------------------
(* refresh_remembered_peer_metadata.                                        *)

(* A record replaced by another one leaves the set of records as it is.     *)
LEMMA KeepRecord ==
  ASSUME RecOK, NEW s \in Recorded, NEW r \in Record, rec' = [rec EXCEPT ![s] = r]
  PROVE  RecOK' /\ Recorded' = Recorded
<1>1. rec' \in [Shares -> Opt(Record)]
  BY DEF RecOK, Recorded, Opt
<1>2. Recorded' = Recorded
  BY NoneAssumption DEF RecOK, Recorded
<1> QED BY <1>1, <1>2 DEF RecOK, TableBounded

LEMMA RecordedType ==
  ASSUME RecOK, NEW s \in Recorded PROVE s \in Shares /\ rec[s] \in Record
BY DEF RecOK, Recorded, Opt

LEMMA StartLoopStep == ASSUME IInv, StartRefresh \/ StartReconcile PROVE IInv'
<1>1. RecOK /\ DiskOK /\ WorkOK /\ AnsOK /\ WorldOK /\ NetOK /\ CountOK
  BY Parts
<1>2. UNCHANGED <<rec, cache, store, world, net, budget, seenDown>> /\ ans' = None
  BY DEF StartRefresh, StartReconcile
<1>3. RecOK' /\ DiskOK' /\ AnsOK' /\ WorldOK' /\ NetOK' /\ CountOK' /\ Recorded' = Recorded
  BY <1>1, <1>2 DEF store, world, mounts, net, RecOK, DiskOK, AnsOK, OnDisk, TableBounded,
                    Recorded, WorldOK, NetOK, CountOK, Opt
<1>4. \E pc \in {"reconcile", "refresh"} : w' = [Idle EXCEPT !.pc = pc, !.todo = Recorded]
  BY DEF StartRefresh, StartReconcile
<1>5. Recorded \in SUBSET Shares
  BY DEF Recorded
<1> QED BY <1>3, <1>4, <1>5, LoopWork, Parts

LEMMA RefreshOneStep ==
  ASSUME IInv, NEW s \in Shares, RefreshOne(s) PROVE IInv'
<1>1. /\ RecOK /\ DiskOK /\ WorkOK /\ AnsOK /\ WorldOK /\ NetOK /\ CountOK
      /\ w.pc = "refresh" /\ s \in w.todo /\ w.todo \subseteq Recorded /\ w \in Worker
  BY Parts DEF WorkOK, LocalsOK, RefreshOne
<1>2. UNCHANGED <<cache, store, world, net, budget, seenDown, ans>>
  BY Zenon DEF RefreshOne
<1>3. DiskOK' /\ AnsOK' /\ WorldOK' /\ NetOK' /\ CountOK'
  BY <1>1, <1>2 DEF store, world, mounts, net, DiskOK, AnsOK, OnDisk, WorldOK, NetOK, CountOK
<1>4. PICK v \in IF CachedViews(s) = {} THEN {None} ELSE CachedViews(s),
           t \in IF PeersOf(s) \subseteq w.todo THEN Refreshed ELSE {None} :
        /\ rec' = RefreshedTable(s, v, t)
        /\ w' = [w EXCEPT !.todo = @ \ {s},
                         !.dirty = @ \/ RefreshedTable(s, v, t) # rec]
  BY Zenon DEF RefreshOne
<1>5. v \in Opt(View) /\ t \in Opt(Ts)
  BY <1>1, <1>4, ViewTypes DEF Refreshed, Opt
<1>6. Own(s, v) \in Record
  BY <1>1, <1>5, RecordedType, UpdatedType DEF Own, Opt
<1>7. \A x \in Shares : /\ rec'[x] \in Opt(Record)
                        /\ x \in Recorded => rec'[x] \in Record
                        /\ x \notin Recorded => rec'[x] = None
  <2> TAKE x \in Shares
  <2>1. PICK r : r = IF x = s THEN Own(s, v) ELSE rec[x]
    OBVIOUS
  <2>2. /\ r \in Opt(Record)
        /\ x \in Recorded => r \in Record
        /\ x \notin Recorded => r = None
    BY <1>1, <1>6, <2>1 DEF RecOK, Recorded, Opt
  <2>3. rec'[x] = IF t # None /\ x \in PeersOf(s) \cap w.todo
                    THEN [r EXCEPT !.ts = t] ELSE r
    BY <1>4, <2>1, Zenon DEF RefreshedTable
  <2>4. PICK q : q = [r EXCEPT !.ts = t]
    OBVIOUS
  <2>5. x \in Recorded => q \in Record
    BY <1>5, <2>2, <2>4, RecordFields, Zenon
  <2>6. rec'[x] = r \/ (x \in Recorded /\ rec'[x] = q)
    BY <2>3, <2>4, Zenon DEF PeersOf
  <2> QED BY <2>2, <2>5, <2>6 DEF Opt
<1>8. rec' \in [Shares -> Opt(Record)] /\ Recorded' = Recorded
  <2>1. rec' = [x \in Shares |-> rec'[x]]
    BY <1>4, Zenon DEF RefreshedTable
  <2>2. rec' \in [Shares -> Opt(Record)]
    BY <1>7, <2>1
  <2> QED BY <1>7, <2>2, NoneAssumption DEF Recorded
<1>9. RecOK'
  BY <1>1, <1>8 DEF RecOK, TableBounded
<1>10. PICK d \in BOOLEAN : w' = [w EXCEPT !.todo = @ \ {s}, !.dirty = d]
  <2>1. PICK d \in BOOLEAN : d = (w.dirty \/ RefreshedTable(s, v, t) # rec)
    OBVIOUS
  <2> QED BY <1>4, <2>1, Zenon
<1>11. /\ w' \in Worker /\ w'.todo = w.todo \ {s} /\ w'.pc = "refresh"
       /\ w'.op = w.op
  BY <1>1, <1>10 DEF Worker
<1>12. WorkOK'
  BY <1>1, <1>8, <1>11 DEF WorkOK, LocalsOK, RoomKept, MountPCs, ReleasePCs, MountOps
<1> QED BY <1>3, <1>9, <1>12, Parts

(* The pass is over and the table is saved, or not.                         *)
LEMMA EndLoopStep == ASSUME IInv, EndRefresh \/ EndReconcile PROVE IInv'
<1>1. RecOK /\ DiskOK /\ WorkOK /\ AnsOK /\ WorldOK /\ NetOK /\ CountOK
  BY Parts
<1>2. /\ UNCHANGED <<rec, cache, world, net, seenDown, ans>> /\ w' = Idle
      /\ SaveOk(rec) \/ SaveFails \/ UNCHANGED <<disk, unsaved, budget>>
  BY DEF EndRefresh, EndReconcile
<1>3. RecOK' /\ AnsOK' /\ WorldOK' /\ NetOK'
  BY <1>1, <1>2 DEF world, mounts, net, RecOK, AnsOK, TableBounded, Recorded, WorldOK, NetOK
<1>4. DiskOK' /\ CountOK'
  BY <1>1, <1>2, SaveType DEF RecOK, TableBounded, Recorded
<1>5. WorkOK'
  BY <1>2, RestWork
<1> QED BY <1>3, <1>4, <1>5, Parts

-----------------------------------------------------------------------------
(* reconcile_mounts.                                                        *)

(* A mount attempt is called from a pass, about a record of that pass.      *)
LEMMA CallMountWork ==
  ASSUME WorkOK, NEW s \in w.todo, NEW v \in View, NEW op \in {"retry", "reconnect"},
         w.todo \subseteq Recorded', CallMount(s, op, v)
  PROVE  WorkOK'
<1>1. w \in Worker /\ w.todo \in SUBSET Shares
  BY DEF WorkOK, Worker
<1>2. /\ w' \in Worker /\ w'.pc = "prepare" /\ w'.s = s /\ w'.op = op
      /\ w'.srv = v /\ w'.todo = w.todo
  BY <1>1 DEF CallMount, Worker, PCs, Ops, Opt
<1> QED BY <1>1, <1>2 DEF WorkOK, LocalsOK, RoomKept, MountPCs, ReleasePCs, MountOps

LEMMA NextRecordWork ==
  ASSUME WorkOK, NEW s, w.todo \ {s} \subseteq Recorded', NextRecord(s)
  PROVE  WorkOK'
<1>1. w.todo \ {s} \in SUBSET Shares
  BY DEF WorkOK, Worker
<1> QED BY <1>1, LoopWork DEF NextRecord

(* What every step of a pass starts from.                                   *)
LEMMA PassFacts ==
  ASSUME IInv
  PROVE  /\ RecOK /\ DiskOK /\ WorkOK /\ AnsOK /\ WorldOK /\ NetOK /\ CountOK
         /\ w \in Worker /\ w.todo \subseteq Recorded
         /\ w.pc = "reconcile" => w.op = "none"
         /\ w.pc \in {"again", "released"} => w.s \in w.todo
BY Parts DEF WorkOK, LocalsOK

LEMMA LookHealthyStep ==
  ASSUME IInv, NEW s \in Shares, LookHealthy(s) PROVE IInv'
<1>1. /\ RecOK /\ DiskOK /\ WorkOK /\ AnsOK /\ WorldOK /\ NetOK /\ CountOK
      /\ w \in Worker /\ s \in w.todo /\ w.todo \subseteq Recorded /\ s \in Recorded
  BY PassFacts, Zenon DEF LookHealthy
<1>2. UNCHANGED <<cache, store, world, net, budget, seenDown, ans>>
  BY Zenon DEF LookHealthy
<1>3. DiskOK' /\ AnsOK' /\ WorldOK' /\ NetOK' /\ CountOK'
  BY <1>1, <1>2 DEF store, world, mounts, net, DiskOK, AnsOK, OnDisk, WorldOK, NetOK, CountOK
<1> DEFINE r(v) == Looked(s, v, kernel[s])
           a(v) == LookedAddr(s, v, kernel[s])
<1>4. PICK v \in ValidViews(s) \ {None} :
        /\ a(v) \in nfs
        /\ Keep(s, [r(v) EXCEPT !.addr = a(v), !.available = TRUE, !.misses = 0])
        /\ NextRecord(s) \/ CallMount(s, "retry", v)
  BY Zenon DEF LookHealthy
<1>5. v \in View /\ a(v) \in Opt(Addrs)
  <2>1. v \in View
    BY <1>1, ViewTypes DEF Opt
  <2>2. a(v) \in Opt(Addrs)
    BY <1>1, <1>4 DEF Opt, NetOK
  <2> QED BY <2>1, <2>2
<1>6. r(v) \in Record
  BY <1>1, <1>5, RecordedType, LookedType DEF Opt
<1>7. PICK new \in Record :
        new = [r(v) EXCEPT !.addr = a(v), !.available = TRUE, !.misses = 0]
  <2>1. [r(v) EXCEPT !.addr = a(v)] \in Record
    BY <1>5, <1>6, RecordFields, Zenon
  <2>2. [r(v) EXCEPT !.addr = a(v), !.available = TRUE] \in Record
    BY <2>1, RecordFields, Zenon
  <2> QED BY <2>2, RecordFields, ZeroMisses, Zenon
<1>8. RecOK' /\ Recorded' = Recorded
  BY <1>1, <1>4, <1>7, KeepRecord, Zenon DEF Keep
<1>9. WorkOK'
  BY <1>1, <1>4, <1>5, <1>8, CallMountWork, NextRecordWork
<1> QED BY <1>3, <1>8, <1>9, Parts

LEMMA LookAilingStep ==
  ASSUME IInv, NEW s \in Shares, LookAiling(s) PROVE IInv'
<1>1. /\ RecOK /\ DiskOK /\ WorkOK /\ AnsOK /\ WorldOK /\ NetOK /\ CountOK
      /\ w \in Worker /\ s \in w.todo /\ w.todo \subseteq Recorded /\ s \in Recorded
      /\ w.op = "none"
  BY PassFacts, Zenon DEF LookAiling
<1>2. UNCHANGED <<cache, store, world, net, seenDown, ans>>
  BY Zenon DEF LookAiling
<1>3. DiskOK' /\ AnsOK' /\ WorldOK' /\ NetOK' /\ unsaved' = unsaved
  BY <1>1, <1>2 DEF store, world, mounts, net, DiskOK, AnsOK, OnDisk, WorldOK, NetOK
<1>4. PICK v \in ValidViews(s), k \in Opt({kernel[s]}) :
        /\ Seen(s, k) /\ Keep(s, Ailing(s, v, k))
        /\ \/ NextRecord(s)
           \/ w' = [w EXCEPT !.pc = "again", !.s = s, !.srv = v]
           \/ v # None /\ CallMount(s, "reconnect", v)
  BY Zenon DEF LookAiling
<1>5. v \in Opt(View)
  BY <1>1, <1>4, ViewTypes
<1>6. Looked(s, v, k) \in Record
  BY <1>1, <1>5, RecordedType, LookedType
<1>7. LookedAddr(s, v, k) \in Opt(Addrs)
  BY <1>5, RecordedSource DEF LookedAddr, Opt
<1>8. Ailing(s, v, k) \in Record
  <2> DEFINE r == Looked(s, v, k)
             a == LookedAddr(s, v, k)
  <2>1. [r EXCEPT !.addr = a] \in Record
    BY <1>6, <1>7, RecordFields, Zenon
  <2>2. PICK q \in Record : q = IF a # None THEN [r EXCEPT !.addr = a] ELSE r
    BY <1>6, <2>1
  <2>3. Ailing(s, v, k) = Missed(q)
    BY <2>2 DEF Ailing
  <2> QED BY <2>2, <2>3, MissedType
<1>9. RecOK' /\ Recorded' = Recorded
  BY <1>1, <1>4, <1>8, KeepRecord DEF Keep
<1>10. CountOK'
  BY <1>1, <1>3, <1>4, FaultType DEF Seen
<1>11. WorkOK'
  <2>1. CASE NextRecord(s)
    BY <1>1, <1>9, <2>1, NextRecordWork
  <2>2. CASE w' = [w EXCEPT !.pc = "again", !.s = s, !.srv = v]
    <3>1. /\ w' \in Worker /\ w'.pc = "again" /\ w'.s = s /\ w'.todo = w.todo
          /\ w'.op = "none"
      BY <1>1, <1>5, <2>2 DEF Worker, PCs, Opt
    <3> QED BY <1>1, <1>9, <3>1 DEF WorkOK, LocalsOK, RoomKept, MountPCs, ReleasePCs, MountOps
  <2>3. CASE v # None /\ CallMount(s, "reconnect", v)
    BY <1>1, <1>5, <1>9, <2>3, CallMountWork DEF Opt
  <2> QED BY <1>4, <2>1, <2>2, <2>3
<1> QED BY <1>3, <1>9, <1>10, <1>11, Parts

LEMMA AgainStep == ASSUME IInv, Again PROVE IInv'
<1>1. /\ RecOK /\ DiskOK /\ WorkOK /\ AnsOK /\ WorldOK /\ NetOK /\ CountOK
      /\ w \in Worker /\ w.s \in w.todo /\ w.todo \subseteq Recorded
  BY PassFacts DEF Again
<1>2. UNCHANGED <<rec, cache, store, world, net, budget, seenDown, ans>>
  BY DEF Again
<1>3. RecOK' /\ DiskOK' /\ AnsOK' /\ WorldOK' /\ NetOK' /\ CountOK' /\ Recorded' = Recorded
  BY <1>1, <1>2 DEF store, world, mounts, net, RecOK, DiskOK, AnsOK, OnDisk, TableBounded,
                    Recorded, WorldOK, NetOK, CountOK
<1>4. WorkOK'
  <2>1. CASE w.srv # None /\ CallMount(w.s, "reconnect", w.srv)
    BY <1>1, <1>3, <2>1, CallMountWork DEF Worker, Opt
  <2>2. CASE w' = [w EXCEPT !.pc = "release", !.op = "expire", !.then = "released"]
    <3>1. /\ w' \in Worker /\ w'.pc = "release" /\ w'.op = "expire"
          /\ w'.then = "released" /\ w'.s = w.s /\ w'.todo = w.todo
      BY <1>1, <2>2 DEF Worker, PCs, Ops
    <3>2. w.s \in Shares
      BY <1>1 DEF Worker
    <3> QED BY <1>1, <1>3, <3>1, <3>2
          DEF WorkOK, LocalsOK, RoomKept, MountPCs, ReleasePCs, MountOps
  <2> QED BY <2>1, <2>2 DEF Again
<1> QED BY <1>3, <1>4, Parts

LEMMA ReleasedStep == ASSUME IInv, Released PROVE IInv'
<1>1. /\ RecOK /\ DiskOK /\ WorkOK /\ AnsOK /\ WorldOK /\ NetOK /\ CountOK
      /\ w \in Worker /\ w.s \in w.todo /\ w.todo \subseteq Recorded
      /\ w.s \in Recorded /\ w.s \in Shares /\ rec[w.s] \in Record
  BY PassFacts, RecordedType DEF Released
<1>2. UNCHANGED <<cache, store, mounts, late, intruded, net, budget, seenDown, ans>>
  BY Zenon DEF Released
<1>3. leaf' \in [Shares -> {"absent", "empty", "files"}]
  BY <1>1, MakeLeafType, Zenon DEF Released, WorldOK
<1>4. DiskOK' /\ AnsOK' /\ WorldOK' /\ NetOK' /\ CountOK'
  BY <1>1, <1>2, <1>3 DEF store, net, mounts, DiskOK, AnsOK, OnDisk, WorldOK, NetOK, CountOK
<1>5. CASE /\ rec' = [rec EXCEPT ![w.s].mounted = FALSE]
           /\ \/ w.srv # None /\ CallMount(w.s, "reconnect", w.srv)
              \/ NextRecord(w.s)
  <2>1. PICK r \in Record : r = [rec[w.s] EXCEPT !.mounted = FALSE]
    BY <1>1, RecordFields, Zenon
  <2>2. rec' = [rec EXCEPT ![w.s] = r]
    BY <1>5, <2>1, Zenon
  <2>3. RecOK' /\ Recorded' = Recorded
    BY <1>1, <2>2, KeepRecord
  <2>4. WorkOK'
    BY <1>1, <1>5, <2>3, CallMountWork, NextRecordWork DEF Worker, Opt
  <2> QED BY <1>4, <2>3, <2>4, Parts
<1>6. CASE rec' = [rec EXCEPT ![w.s] = None] /\ NextRecord(w.s)
  <2>1. None \in Opt(Record)
    BY DEF Opt
  <2>2. RecOK' /\ Recorded \ {w.s} \subseteq Recorded'
    BY <1>1, <1>6, <2>1, PutRecord
  <2>3. w.todo \ {w.s} \subseteq Recorded'
    BY <1>1, <2>2
  <2>4. WorkOK'
    BY <1>1, <1>6, <2>3, NextRecordWork
  <2> QED BY <1>4, <2>2, <2>4, Parts
<1> QED BY <1>5, <1>6, Zenon DEF Released

-----------------------------------------------------------------------------
(* The environment.                                                         *)

(* Moves that leave the daemon and its file alone.                          *)
LEMMA OutsideStep ==
  ASSUME IInv, UNCHANGED <<memory, store, ans>>, WorldOK', NetOK', CountOK' PROVE IInv'
<1>1. RecOK /\ DiskOK /\ WorkOK /\ AnsOK
  BY Parts
<1>2. RecOK' /\ DiskOK' /\ AnsOK' /\ w' = w /\ Recorded' = Recorded /\ rec' = rec
  BY <1>1 DEF memory, store, RecOK, DiskOK, AnsOK, OnDisk, TableBounded, Recorded
<1>3. WorkOK'
  BY <1>1, <1>2 DEF WorkOK, LocalsOK, RoomKept, Room
<1> QED BY <1>2, <1>3, Parts

LEMMA SpendType ==
  ASSUME CountOK, NEW move, Spend(move), unsaved' = unsaved PROVE CountOK'
BY DEF Spend, CountOK, Budget

LEMMA NetStep ==
  ASSUME IInv, (\E a \in Addrs : FlipNfs(a) \/ FlipRpc(a)) \/ FlipTailscale PROVE IInv'
<1>1. WorldOK /\ NetOK /\ CountOK
  BY Parts
<1>2. UNCHANGED <<memory, store, world, ans>>
  BY DEF FlipNfs, FlipRpc, FlipTailscale
<1>3. WorldOK' /\ unsaved' = unsaved
  BY <1>1, <1>2 DEF world, mounts, store, WorldOK
<1>4. NetOK'
  BY <1>1 DEF FlipNfs, FlipRpc, FlipTailscale, Toggle, NetOK
<1>5. \E move : Spend(move)
  BY DEF FlipNfs, FlipRpc, FlipTailscale
<1>6. CountOK'
  BY <1>1, <1>3, <1>5, SpendType
<1> QED BY <1>2, <1>3, <1>4, <1>6, OutsideStep

LEMMA WorldStep ==
  ASSUME IInv, NEW s \in Shares,
         UseMount(s) \/ WriteLeaf(s) \/ AdminUnmount(s) \/ ForeignMount(s)
  PROVE  IInv'
<1>1. WorldOK /\ NetOK /\ CountOK
  BY Parts
<1>2. UNCHANGED <<memory, store, net, seenDown, ans>>
  BY DEF UseMount, WriteLeaf, AdminUnmount, ForeignMount
<1>3. NetOK' /\ unsaved' = unsaved
  BY <1>1, <1>2 DEF net, store, NetOK
<1>4. WorldOK'
  <2>1. CASE UseMount(s)
    BY <1>1, <2>1 DEF UseMount, Toggle, WorldOK, mounts
  <2>2. CASE WriteLeaf(s)
    BY <1>1, <2>2 DEF WriteLeaf, WorldOK, mounts
  <2>3. CASE AdminUnmount(s)
    BY <1>1, <2>3, MountsType DEF AdminUnmount, WorldOK, MountsOK
  <2>4. CASE ForeignMount(s)
    BY <1>1, <2>4 DEF ForeignMount, WorldOK, mounts
  <2> QED BY <2>1, <2>2, <2>3, <2>4
<1>5. \E move : Spend(move)
  BY DEF UseMount, WriteLeaf, AdminUnmount, ForeignMount
<1>6. CountOK'
  BY <1>1, <1>3, <1>5, SpendType
<1> QED BY <1>2, <1>3, <1>4, <1>6, OutsideStep

LEMMA DiscoverStep == ASSUME IInv, NEW v \in Servers, Discover(v) PROVE IInv'
<1>1. RecOK /\ DiskOK /\ WorkOK /\ AnsOK /\ WorldOK /\ NetOK /\ CountOK
  BY Parts
<1>2. UNCHANGED <<rec, w, disk, unsaved, world, net, seenDown, ans>>
  BY DEF Discover, store
<1>3. RecOK' /\ DiskOK' /\ WorldOK' /\ NetOK' /\ Recorded' = Recorded
  BY <1>1, <1>2 DEF world, mounts, net, RecOK, DiskOK, OnDisk, TableBounded, Recorded, WorldOK, NetOK
<1>4. AnsOK'
  BY <1>1, <1>2 DEF Discover, AnsOK
<1>5. WorkOK'
  BY <1>1, <1>2, <1>3 DEF WorkOK, LocalsOK, RoomKept, Room
<1>6. CountOK'
  <2>1. Spend("discover")
    BY DEF Discover
  <2> QED BY <1>1, <1>2, <2>1, SpendType
<1> QED BY <1>3, <1>4, <1>5, <1>6, Parts

LEMMA LostType ==
  ASSUME RecOK, AnsOK, Lost, ans' = ans PROVE RecOK' /\ WorkOK' /\ AnsOK'
<1>1. rec' \in [Shares -> Opt(Record)] /\ Recorded' \subseteq Recorded
  BY DEF Lost, Recorded, Opt
<1>2. Cardinality(Recorded') <= MaxMounts
  BY <1>1, Fewer DEF RecOK, TableBounded, Recorded
<1>3. WorkOK'
  BY RestWork DEF Lost
<1> QED BY <1>1, <1>2, <1>3 DEF RecOK, TableBounded, AnsOK, Lost, Opt

LEMMA LostStep == ASSUME IInv, Crash \/ Reboot PROVE IInv'
<1>1. RecOK /\ DiskOK /\ WorkOK /\ AnsOK /\ WorldOK /\ NetOK /\ CountOK
  BY Parts
<1>2. RecOK' /\ WorkOK' /\ AnsOK'
  BY <1>1, LostType DEF Crash, Reboot
<1>3. DiskOK' /\ NetOK' /\ unsaved' = unsaved
  BY <1>1 DEF Crash, Reboot, store, net, DiskOK, OnDisk, NetOK
<1>4. WorldOK'
  BY <1>1 DEF Crash, Reboot, world, mounts, WorldOK
<1>5. CountOK'
  BY <1>1, <1>3, SpendType DEF Crash, Reboot
<1> QED BY <1>2, <1>3, <1>4, <1>5, Parts

LEMMA StartStep == ASSUME IInv, Start PROVE IInv'
<1>1. DiskOK /\ AnsOK /\ WorldOK /\ NetOK /\ CountOK
  BY Parts
<1>2. rec' = disk /\ Recorded' = OnDisk
  BY DEF Start, Recorded, OnDisk
<1>3. RecOK'
  BY <1>1, <1>2 DEF RecOK, TableBounded, DiskOK
<1>4. DiskOK' /\ AnsOK' /\ WorldOK' /\ NetOK' /\ CountOK'
  BY <1>1 DEF Start, world, mounts, net, DiskOK, AnsOK, OnDisk, WorldOK, NetOK, CountOK
<1>5. WorkOK'
  BY RestWork DEF Start
<1> QED BY <1>3, <1>4, <1>5, Parts

-----------------------------------------------------------------------------

LEMMA InitInvariant == ASSUME Init PROVE IInv
<1>1. Recorded = {} /\ OnDisk = {} /\ Cardinality({}) = 0
  BY FS_EmptySet DEF Init, Recorded, OnDisk
<1>2. RecOK /\ DiskOK
  BY <1>1, ConstantsAssumption DEF Init, RecOK, DiskOK, TableBounded, Opt
<1>3. AnsOK /\ WorldOK /\ NetOK /\ CountOK
  <2>1. AnsOK
    BY DEF Init, AnsOK, Opt
  <2>2. WorldOK
    BY DEF Init, WorldOK
  <2>3. NetOK
    BY DEF Init, NetOK
  <2>4. CountOK
    BY ConstantsAssumption DEF Init, CountOK
  <2> QED BY <2>1, <2>2, <2>3, <2>4
<1>4. w \in Worker /\ w.pc = "idle" /\ w.op = "none" /\ w.todo = {}
  BY IdleType DEF Init, Idle
<1>5. WorkOK
  BY <1>4 DEF WorkOK, LocalsOK, RoomKept, MountPCs, ReleasePCs, MountOps
<1> QED BY <1>2, <1>3, <1>5, Parts

LEMMA NextInvariant == ASSUME IInv, [Next]_vars PROVE IInv'
<1>1. CASE PerformMount
  BY <1>1, PrepareStep, InspectStep, OfflineStep, CheckStep, TryStep, CommitStep
     DEF PerformMount
<1>2. CASE ReleaseMount
  BY <1>2, ReleaseStep, RecheckStep, DetachStep DEF ReleaseMount
<1>3. CASE Requests \/ Forget
  BY <1>3, RequestMountStep, RequestUnmountStep, ForgetStep DEF Requests
<1>4. CASE RefreshPeers \/ StartRefresh \/ StartReconcile
  BY <1>4, StartLoopStep, RefreshOneStep, EndLoopStep DEF RefreshPeers
<1>5. CASE Reconcile
  BY <1>5, LookHealthyStep, LookAilingStep, AgainStep, ReleasedStep, EndLoopStep
     DEF Reconcile
<1>6. CASE Environment
  BY <1>6, NetStep, WorldStep, DiscoverStep, LostStep DEF Environment
<1>7. CASE Start
  BY <1>7, StartStep
<1>8. CASE UNCHANGED vars
  <2>1. UNCHANGED <<memory, store, world, net, budget, seenDown, ans>>
    BY <1>8 DEF vars, memory, store, world, mounts, net
  <2>2. WorldOK' /\ NetOK' /\ CountOK'
    BY <2>1, Parts DEF world, mounts, net, store, WorldOK, NetOK, CountOK
  <2> QED BY <2>1, <2>2, OutsideStep
<1> QED BY <1>1, <1>2, <1>3, <1>4, <1>5, <1>6, <1>7, <1>8 DEF Next, Daemon, Step

(* The invariant holds of every behaviour, whatever the shares, the peers,  *)
(* the addresses and the bounds.                                            *)
THEOREM Invariant == Spec => []IInv
BY InitInvariant, NextInvariant, PTL DEF Spec

(* Type correctness: table, file, cache, locals and history variables keep  *)
(* to their domains on every path through the worker and its environment.   *)
THEOREM TypeCorrect == Spec => []TypeOK
<1>1. IInv => TypeOK
  BY DEF IInv
<1> QED BY <1>1, Invariant, PTL

(* perform_mount never appends beyond SS_MAX_MOUNTS, and a reconciliation   *)
(* never looks at a record that an earlier step of its pass removed.        *)
THEOREM TableNeverOverflows == Spec => []TableBounded
<1>1. IInv => TableBounded
  BY DEF IInv
<1> QED BY <1>1, Invariant, PTL

-----------------------------------------------------------------------------
(* What the file and the answers promise, and what the worker knows of the *)
(* mount it is about to take away or to record.                            *)

(* While the worker rests, answers a request or refreshes and has found    *)
(* nothing new, the file is the image of the table, if the last save worked. *)
Watched(x) == \/ x.pc \in {"idle", "forget"} \/ x.op \in {"once", "remember", "unmount"}
              \/ x.pc = "refresh" /\ ~x.dirty
FileInv == /\ disk = Image(disk)
           /\ ~unsaved /\ Watched(w) => disk = Image(rec)

(* An answer is forgotten when the worker takes up something else.         *)
AnswerInv == /\ w.pc \notin {"idle", "down"} => ans = None
             /\ AckedMountIsDurable

(* Between the failed unmount and the lazy one, the source in hand is one  *)
(* that was recorded, and its endpoint is seen down before the detach; a   *)
(* foreign mount in the way of an attempt or of the detach has come since  *)
(* the daemon last looked.                                                 *)
SourceInv ==
  /\ w.pc \in {"recheck", "detach"} =>
       w.src \in Source /\ w.addr = w.src.addr /\ rec[w.s] # None
  /\ w.pc = "recheck" => Addrs \ nfs \subseteq seenDown
  /\ w.pc = "detach" => w.addr \in seenDown /\ kernel[w.s] \in {None, w.src, Foreign}
  /\ w.pc \in {"check", "try", "record", "detach"} /\ kernel[w.s] = Foreign
       => w.s \in intruded

(* Files that lie in the mountpoint when the command runs came after the   *)
(* look that found it empty, or were covered when it looked.               *)
EmptyInv == w.pc = "try" /\ leaf[w.s] = "files" => w.s \in late

Promises == FileInv /\ AnswerInv /\ SourceInv /\ EmptyInv

(* What is written of a record depends on what mounts it, not on how the   *)
(* mount fares.                                                            *)
LEMMA SavedFields ==
  ASSUME NEW r \in Record
  PROVE  /\ Saved(r).remembered = r.remembered /\ Saved(Saved(r)) = Saved(r)
         /\ \A q \in BOOLEAN : Saved([r EXCEPT !.mounted = q]) = Saved(r)
         /\ \A q \in BOOLEAN : Saved([r EXCEPT !.available = q]) = Saved(r)
         /\ \A q \in BOOLEAN : [r EXCEPT !.mounted = q].remembered = r.remembered
         /\ \A q \in BOOLEAN : [r EXCEPT !.available = q].remembered = r.remembered
<1>1. Saved(r).remembered = r.remembered /\ Saved(Saved(r)) = Saved(r)
  BY DEF Saved, Record
<1>2. \A q \in BOOLEAN : Saved([r EXCEPT !.mounted = q]) = Saved(r)
  BY DEF Saved, Record
<1>3. \A q \in BOOLEAN : Saved([r EXCEPT !.available = q]) = Saved(r)
  BY DEF Saved, Record
<1>4. \A q \in BOOLEAN : [r EXCEPT !.mounted = q].remembered = r.remembered
  BY DEF Record
<1>5. \A q \in BOOLEAN : [r EXCEPT !.available = q].remembered = r.remembered
  BY DEF Record
<1> QED
  BY <1>1, <1>2, <1>3, <1>4, <1>5

(* An image is its own image, and two tables have the same one when they   *)
(* agree on what is remembered.                                            *)
LEMMA ImageOfImage ==
  ASSUME NEW table \in [Shares -> Opt(Record)]
  PROVE  Image(Image(table)) = Image(table)
<1>1. Image(table) \in [Shares -> Opt(Record)]
  BY ImageType
<1>2. ASSUME NEW s \in Shares PROVE Image(Image(table))[s] = Image(table)[s]
  <2>1. CASE table[s] # None /\ table[s].remembered
    <3>1. table[s] \in Record
      BY <2>1 DEF Opt
    <3>2. Image(table)[s] = Saved(table[s]) /\ Saved(table[s]) \in Record
      BY <2>1, <3>1, SavedType DEF Image
    <3>3. Image(table)[s] # None /\ Image(table)[s].remembered
      BY <2>1, <3>1, <3>2, SavedFields, NoneAssumption
    <3>4. Image(Image(table))[s] = Saved(Image(table)[s])
      BY <3>3 DEF Image
    <3> QED
      BY <3>1, <3>2, <3>4, SavedFields
  <2>2. CASE ~(table[s] # None /\ table[s].remembered)
    BY <2>2 DEF Image
  <2> QED
    BY <2>1, <2>2
<1> QED
  BY <1>2, Zenon DEF Image

SameImage(r, q) == \/ r = q
                   \/ (r = None \/ ~r.remembered) /\ (q = None \/ ~q.remembered)
                   \/ /\ r # None /\ q # None /\ r.remembered = q.remembered
                      /\ Saved(r) = Saved(q)

LEMMA ImageAgrees ==
  ASSUME NEW t \in [Shares -> Opt(Record)], NEW u \in [Shares -> Opt(Record)],
         \A s \in Shares : SameImage(t[s], u[s])
  PROVE  Image(t) = Image(u)
<1>1. ASSUME NEW s \in Shares PROVE Image(t)[s] = Image(u)[s]
  <2>1. SameImage(t[s], u[s])
    OBVIOUS
  <2> QED
    BY <2>1, Zenon DEF Image, SameImage
<1> QED
  BY <1>1, Zenon DEF Image

(* The file stays the image: a save that works makes it so, one that fails *)
(* is known to have failed, and a step that saves nothing disturbs nothing.*)
Saves(table) == SaveOk(table) \/ SaveFails
LeavesImage == UNCHANGED <<disk, unsaved>> /\ Image(rec') = Image(rec)

LEMMA FileKept ==
  ASSUME IInv, FileInv, IInv',
         \/ SaveOk(rec') \/ SaveFails
         \/ LeavesImage /\ (Watched(w') => Watched(w))
         \/ UNCHANGED <<disk, unsaved>> /\ ~Watched(w')
  PROVE  FileInv'
<1>1. rec' \in [Shares -> Opt(Record)]
  BY DEF IInv, TypeOK
<1>2. CASE SaveOk(rec')
  BY <1>1, <1>2, ImageOfImage DEF SaveOk, FileInv
<1>3. CASE SaveFails
  BY <1>3 DEF SaveFails, FileInv
<1>4. CASE LeavesImage /\ (Watched(w') => Watched(w))
  BY <1>4 DEF LeavesImage, FileInv
<1>5. CASE UNCHANGED <<disk, unsaved>> /\ ~Watched(w')
  BY <1>5 DEF FileInv
<1> QED
  BY <1>2, <1>3, <1>4, <1>5

(* One record changes into another with the same image.                    *)
LEMMA OneRecordKept ==
  ASSUME IInv, IInv', NEW s \in Shares, NEW r, rec' = [rec EXCEPT ![s] = r],
         SameImage(r, rec[s])
  PROVE  Image(rec') = Image(rec)
<1>1. rec \in [Shares -> Opt(Record)] /\ rec' \in [Shares -> Opt(Record)]
  BY DEF IInv, TypeOK
<1>2. ASSUME NEW t \in Shares PROVE SameImage(rec'[t], rec[t])
  <2>1. CASE t = s
    BY <1>1, <2>1
  <2>2. CASE t # s
    BY <1>1, <2>2 DEF SameImage
  <2> QED
    BY <2>1, <2>2
<1> QED
  BY <1>1, <1>2, ImageAgrees

(* The parts of the invariant after each of the ways a step can end.       *)
LEMMA Away ==
  ASSUME w'.pc \notin {"check", "try", "record", "recheck", "detach"}
  PROVE  SourceInv' /\ EmptyInv'
BY DEF SourceInv, EmptyInv

LEMMA AtWork ==
  ASSUME IInv, w.pc \in MountPCs \cup ReleasePCs
  PROVE  /\ w.s \in Shares /\ w.pc \notin {"idle", "down"}
         /\ w.pc \in MountPCs => w.op \in MountOps
BY DEF IInv, LocalsOK, MountPCs, ReleasePCs

LEMMA AnswerOutstanding ==
  ASSUME AnswerInv, UNCHANGED ans, w.pc \notin {"idle", "down"}
  PROVE  AnswerInv'
BY DEF AnswerInv, AckedMountIsDurable

LEMMA AnswerGone == ASSUME ans' = None PROVE AnswerInv'
BY DEF AnswerInv, AckedMountIsDurable

LEMMA AnswerStands ==
  ASSUME AnswerInv, UNCHANGED <<ans, disk>>, w'.pc \in {"idle", "down"}
  PROVE  AnswerInv'
BY DEF AnswerInv, AckedMountIsDurable

LEMMA OtherAnswer ==
  ASSUME NEW op, NEW s, NEW ok \in BOOLEAN, Answers(op, s, ok), op # "remember" \/ ~ok
  PROVE  AnswerInv'
BY DEF AnswerInv, AckedMountIsDurable, Answers, Idle

LEMMA Returned ==
  ASSUME IInv, AnswerInv, w.pc \in MountPCs \cup ReleasePCs, w.op \in MountOps,
         NEW ok \in BOOLEAN, MountReturns(ok),
         ok /\ w.op = "remember" => disk'[w.s] # None
  PROVE  /\ AnswerInv' /\ SourceInv' /\ EmptyInv'
         /\ Watched(w') => Watched(w)
<1>1. w.pc \notin {"idle", "down"}
  BY AtWork
<1>2. CASE w.op \in {"once", "remember"}
  <2>1. w' = Idle /\ ans' = [op |-> w.op, s |-> w.s, ok |-> ok]
    BY <1>2 DEF MountReturns
  <2>2. w'.pc = "idle"
    BY <2>1 DEF Idle
  <2>3. AnswerInv'
    BY <2>1, <2>2 DEF AnswerInv, AckedMountIsDurable
  <2> QED
    BY <1>2, <2>2, <2>3, Away DEF Watched
<1>3. CASE w.op \notin {"once", "remember"}
  <2>1. w' = [Idle EXCEPT !.pc = "reconcile", !.todo = w.todo \ {w.s}] /\ ans' = ans
    BY <1>3 DEF MountReturns
  <2>2. w'.pc = "reconcile" /\ w'.op = "none"
    BY <2>1 DEF Idle
  <2>3. AnswerInv'
    BY <1>1, <2>1, AnswerOutstanding
  <2> QED
    BY <2>2, <2>3, Away DEF Watched
<1> QED
  BY <1>2, <1>3

(* An attempt goes on: the same operation is in hand.                      *)
LEMMA SameOperation ==
  ASSUME w.pc \in MountPCs \cup ReleasePCs, w'.op = w.op, w'.pc \notin {"idle", "refresh"},
         w'.pc = "forget" => w.op = "unmount"
  PROVE  Watched(w') => Watched(w)
BY DEF Watched

LEMMA SameTable ==
  ASSUME UNCHANGED <<rec, disk, unsaved>>
  PROVE  LeavesImage
BY DEF LeavesImage, Image

(* Metadata does not decide whether a record is remembered.                *)
LEMMA UpdatedRemembered ==
  ASSUME NEW r \in Record, NEW v
  PROVE  Updated(r, v).remembered = r.remembered
BY DEF Updated, Record

LEMMA PreparePromises == ASSUME IInv, IInv', Promises, Prepare PROVE Promises'
<1>1. /\ w.pc \in MountPCs \cup ReleasePCs /\ w.s \in Shares /\ w.op \in MountOps
      /\ w.pc = "prepare" /\ w \in Worker /\ rec \in [Shares -> Opt(Record)]
      /\ FileInv /\ AnswerInv
  BY AtWork DEF Prepare, MountPCs, ReleasePCs, IInv, TypeOK, Promises
<1>2. CASE MountReturns(FALSE) /\ UNCHANGED <<rec, disk, unsaved>>
  <2>1. /\ AnswerInv' /\ SourceInv' /\ EmptyInv'
        /\ Watched(w') => Watched(w)
    BY <1>1, <1>2, Returned
  <2> QED
    BY <1>1, <1>2, <2>1, SameTable, FileKept DEF Promises
<1>3. CASE SaveFails /\ MountReturns(FALSE)
  <2>1. AnswerInv' /\ SourceInv' /\ EmptyInv'
    BY <1>1, <1>3, Returned
  <2> QED
    BY <1>1, <1>3, <2>1, FileKept DEF Promises
<1>4. ASSUME NEW v, NEW new,
             new = IF rec[w.s] = None THEN None ELSE Updated(rec[w.s], v),
             rec' = [rec EXCEPT ![w.s] = new],
             \/ SaveOk(rec')
             \/ /\ ~(new # rec[w.s] /\ rec[w.s].remembered)
                /\ UNCHANGED <<disk, unsaved>>,
             w' = [w EXCEPT !.pc = "inspect", !.srv = v, !.prev = new, !.usable = Usable(v)],
             UNCHANGED ans
      PROVE  Promises'
  <2>1. w'.pc = "inspect" /\ w'.op = w.op
    BY <1>1, <1>4 DEF Worker
  <2>2. AnswerInv' /\ SourceInv' /\ EmptyInv' /\ (Watched(w') => Watched(w))
    BY <1>1, <1>4, <2>1, Away, AnswerOutstanding, SameOperation
  <2>3. CASE SaveOk(rec')
    BY <1>1, <2>2, <2>3, FileKept DEF Promises
  <2>4. CASE ~(new # rec[w.s] /\ rec[w.s].remembered) /\ UNCHANGED <<disk, unsaved>>
    <3>1. SameImage(new, rec[w.s])
      <4>1. CASE rec[w.s] = None
        BY <1>4, <4>1 DEF SameImage
      <4>2. CASE rec[w.s] # None
        <5>1. rec[w.s] \in Record /\ new = Updated(rec[w.s], v)
          BY <1>1, <1>4, <4>2 DEF Opt
        <5>2. new.remembered = rec[w.s].remembered
          BY <5>1, UpdatedRemembered
        <5> QED
          BY <2>4, <5>2, Zenon DEF SameImage
      <4> QED
        BY <4>1, <4>2
    <3>2. LeavesImage
      BY <1>1, <1>4, <2>4, <3>1, OneRecordKept DEF LeavesImage
    <3> QED
      BY <1>1, <2>2, <3>2, FileKept DEF Promises
  <2> QED
    BY <1>4, <2>3, <2>4
<1> QED
  <2>1. CASE MountReturns(FALSE) /\ UNCHANGED <<rec, disk, unsaved>>
    BY <1>2, <2>1
  <2>2. CASE \E t \in Refreshed :
             LET r   == rec[w.s]
                 v   == [Seeded(w.srv, r) EXCEPT !.ts = OrElse(t, @)]
                 new == IF r = None THEN None ELSE Updated(r, v)
                 table == [rec EXCEPT ![w.s] = new]
                 mustSave == new # r /\ r.remembered
             IN  \/ /\ mustSave /\ SaveFails
                    /\ MountReturns(FALSE)
                    /\ UNCHANGED rec
                 \/ /\ IF mustSave THEN SaveOk(table)
                                   ELSE UNCHANGED <<disk, unsaved, budget>>
                    /\ rec' = table
                    /\ w' = [w EXCEPT !.pc = "inspect", !.srv = v, !.prev = new,
                                      !.usable = Usable(v)]
                    /\ UNCHANGED <<cache, ans>>
    <3>1. PICK t \in Refreshed :
             LET r   == rec[w.s]
                 v   == [Seeded(w.srv, r) EXCEPT !.ts = OrElse(t, @)]
                 new == IF r = None THEN None ELSE Updated(r, v)
                 table == [rec EXCEPT ![w.s] = new]
                 mustSave == new # r /\ r.remembered
             IN  \/ /\ mustSave /\ SaveFails
                    /\ MountReturns(FALSE)
                    /\ UNCHANGED rec
                 \/ /\ IF mustSave THEN SaveOk(table)
                                   ELSE UNCHANGED <<disk, unsaved, budget>>
                    /\ rec' = table
                    /\ w' = [w EXCEPT !.pc = "inspect", !.srv = v, !.prev = new,
                                      !.usable = Usable(v)]
                    /\ UNCHANGED <<cache, ans>>
      BY <2>2
    <3> DEFINE v == [Seeded(w.srv, rec[w.s]) EXCEPT !.ts = OrElse(t, @)]
               new == IF rec[w.s] = None THEN None ELSE Updated(rec[w.s], v)
    <3>2. CASE SaveFails /\ MountReturns(FALSE)
      BY <1>3, <3>2
    <3>3. CASE ~(SaveFails /\ MountReturns(FALSE))
      <4>1. /\ rec' = [rec EXCEPT ![w.s] = new]
            /\ \/ SaveOk(rec')
               \/ /\ ~(new # rec[w.s] /\ rec[w.s].remembered)
                  /\ UNCHANGED <<disk, unsaved>>
            /\ w' = [w EXCEPT !.pc = "inspect", !.srv = v, !.prev = new, !.usable = Usable(v)]
            /\ UNCHANGED ans
        BY <3>1, <3>3, Zenon
      <4> HIDE DEF new, v
      <4>2. new = IF rec[w.s] = None THEN None ELSE Updated(rec[w.s], v)
        BY DEF new
      <4> QED
        BY <1>4, <4>1, <4>2
    <3> QED
      BY <3>2, <3>3
  <2> QED
    BY <2>1, <2>2, Zenon DEF Prepare

(* A later mount keeps what an earlier one remembered.                     *)
LEMMA FilledRemembered ==
  ASSUME NEW r \in Opt(Record), NEW v \in View, NEW b \in BOOLEAN, NEW a \in Addrs
  PROVE  /\ Filled(r, v, b, a) \in Record
         /\ Filled(r, v, b, a).remembered = ((r # None /\ r.remembered) \/ b)
<1>1. Blank(v) \in Record /\ Blank(v).remembered = FALSE
  BY DEF Blank, Record, View, Opt, MissLimit
<1>2. PICK u \in Record : u = Updated(IF r = None THEN Blank(v) ELSE r, v)
  BY <1>1, UpdatedType DEF Opt
<1>3. u.remembered = (r # None /\ r.remembered)
  <2>1. CASE r = None
    BY <1>1, <1>2, <2>1, UpdatedRemembered
  <2>2. CASE r # None
    <3>1. r \in Record /\ r.remembered \in BOOLEAN
      BY <2>2 DEF Opt, Record
    <3>2. u.remembered = r.remembered
      BY <1>2, <2>2, <3>1, UpdatedRemembered
    <3> QED
      BY <2>2, <3>1, <3>2
  <2> QED
    BY <2>1, <2>2
<1>4. PICK q \in BOOLEAN : q = (u.remembered \/ b)
  OBVIOUS
<1>5. Filled(r, v, b, a) =
        [u EXCEPT !.addr = a, !.fs = v.fs, !.remembered = q,
                  !.mounted = TRUE, !.available = TRUE, !.misses = 0]
  BY <1>2, <1>4, Zenon DEF Filled
<1>6. Filled(r, v, b, a).remembered = q
  BY <1>5 DEF Record
<1> QED
  BY <1>3, <1>4, <1>6, FilledType, Zenon

(* A mount is recorded and, if remembered, saved before the answer goes out. *)
LEMMA FillPromises ==
  ASSUME IInv, IInv', Promises, w.pc \in MountPCs, NEW a \in Addrs,
         NEW new, new = Filled(rec[w.s], w.srv, Remembers(w.op), a),
         IF new.remembered THEN SaveOk([rec EXCEPT ![w.s] = new])
                           ELSE UNCHANGED <<disk, unsaved, budget>>,
         rec' = [rec EXCEPT ![w.s] = new], MountReturns(TRUE)
  PROVE  Promises'
<1>1. /\ w.s \in Shares /\ w.op \in MountOps /\ w.srv \in View
      /\ rec[w.s] \in Opt(Record) /\ rec \in [Shares -> Opt(Record)]
      /\ FileInv /\ AnswerInv
  BY MountFacts DEF Promises, RecOK
<1>2. Remembers(w.op) \in BOOLEAN
  BY DEF Remembers
<1>3. /\ new \in Record
      /\ new.remembered = ((rec[w.s] # None /\ rec[w.s].remembered) \/ Remembers(w.op))
  BY <1>1, <1>2, FilledRemembered
<1>4. w.op = "remember" => disk'[w.s] # None
  <2>1. SUFFICES ASSUME w.op = "remember" PROVE disk'[w.s] # None
    OBVIOUS
  <2>2. new.remembered
    BY <1>3, <2>1 DEF Remembers
  <2>3. disk' = Image([rec EXCEPT ![w.s] = new])
    BY <2>2 DEF SaveOk
  <2>4. [rec EXCEPT ![w.s] = new][w.s] = new /\ new # None
    BY <1>1, <1>3, NoneAssumption
  <2>5. disk'[w.s] = Saved(new)
    BY <1>1, <2>2, <2>3, <2>4, Zenon DEF Image
  <2> QED
    BY <1>3, <2>5, SavedType, NoneAssumption
<1>5. AnswerInv' /\ SourceInv' /\ EmptyInv' /\ (Watched(w') => Watched(w))
  BY <1>1, <1>4, Returned
<1>6. CASE new.remembered
  BY <1>1, <1>5, <1>6, FileKept DEF Promises
<1>7. CASE ~new.remembered
  <2>1. SameImage(new, rec[w.s])
    BY <1>3, <1>7, Zenon DEF SameImage
  <2>2. Image(rec') = Image(rec)
    BY <1>1, <2>1, OneRecordKept
  <2> QED
    BY <1>1, <1>5, <1>7, <2>2, FileKept DEF Promises, LeavesImage
<1> QED
  BY <1>6, <1>7

(* An attempt gives up: the table and the file are as they were, or the save *)
(* is known to have failed.                                                *)
LEMMA GiveUpPromises ==
  ASSUME IInv, IInv', Promises, w.pc \in MountPCs \cup ReleasePCs, w.op \in MountOps,
         MountReturns(FALSE),
         \/ SaveFails
         \/ UNCHANGED <<rec, disk, unsaved>>
         \/ UNCHANGED <<disk, unsaved>> /\ Image(rec') = Image(rec)
  PROVE  Promises'
<1>1. AnswerInv' /\ SourceInv' /\ EmptyInv' /\ (Watched(w') => Watched(w))
  BY Returned DEF Promises
<1> QED
  BY <1>1, SameTable, FileKept DEF Promises, LeavesImage

(* An attempt goes on with nothing but its locals changed.                 *)
LEMMA GoOnPromises ==
  ASSUME IInv, IInv', Promises, w.pc \in MountPCs \cup ReleasePCs,
         w'.op = w.op, w'.pc \notin {"idle", "refresh"}, UNCHANGED <<disk, unsaved, ans>>,
         w'.pc = "forget" => w.op = "unmount", Image(rec') = Image(rec)
  PROVE  FileInv' /\ AnswerInv'
<1>1. AnswerInv'
  BY AtWork, AnswerOutstanding DEF Promises
<1>2. Watched(w') => Watched(w)
  BY SameOperation
<1> QED
  BY <1>1, <1>2, FileKept DEF Promises, LeavesImage

LEMMA InspectPromises == ASSUME IInv, IInv', Promises, Inspect PROVE Promises'
<1> DEFINE k == kernel[w.s]
           a == SourceAddr(rec[w.s], w.srv, k)
<1>1. /\ w.pc \in MountPCs /\ w.pc \in MountPCs \cup ReleasePCs
      /\ w.s \in Shares /\ w.op \in MountOps /\ w.srv \in View /\ w \in Worker
  BY MountFacts DEF Inspect, MountPCs
<1>2. CASE /\ k = None /\ Goto("check")
           /\ UNCHANGED <<rec, disk, unsaved, budget, cache, ans>>
  <2>1. w'.pc = "check" /\ w'.op = w.op /\ w'.s = w.s
    BY <1>1, <1>2 DEF Goto, Worker
  <2>2. Image(rec') = Image(rec)
    BY <1>2 DEF Image
  <2>3. FileInv' /\ AnswerInv'
    BY <1>1, <1>2, <2>1, <2>2, GoOnPromises
  <2>4. kernel' = kernel
    BY DEF Inspect, mounts
  <2>5. SourceInv' /\ EmptyInv'
    BY <1>2, <2>1, <2>4, ForeignAssumption DEF SourceInv, EmptyInv
  <2> QED
    BY <2>3, <2>5 DEF Promises
<1>3. CASE MountReturns(FALSE) /\ UNCHANGED <<rec, disk, unsaved, budget>>
  BY <1>1, <1>3, GiveUpPromises
<1>4. CASE a # None /\ Adopt(a)
  <2> DEFINE new == Filled(rec[w.s], w.srv, Remembers(w.op), a)
  <2>1. a \in Addrs
    BY <1>1, <1>4, RecordedSource DEF Opt
  <2>2. CASE /\ IF new.remembered THEN SaveOk([rec EXCEPT ![w.s] = new])
                                  ELSE UNCHANGED <<disk, unsaved, budget>>
             /\ rec' = [rec EXCEPT ![w.s] = new]
             /\ MountReturns(TRUE)
    <3> HIDE DEF a
    <3> QED
      BY <1>1, <2>1, <2>2, FillPromises
  <2>3. CASE SaveFails /\ MountReturns(FALSE)
    BY <1>1, <2>3, GiveUpPromises, Zenon
  <2> QED
    BY <1>4, <2>2, <2>3 DEF Adopt
<1>5. CASE /\ \E pc \in {"check", "offline"} : ReleaseThen(pc)
           /\ UNCHANGED <<rec, disk, unsaved, budget, cache, ans>>
  <2>1. w'.pc = "release" /\ w'.op = w.op
    BY <1>1, <1>5 DEF ReleaseThen, Worker
  <2>2. Image(rec') = Image(rec)
    BY <1>5 DEF Image
  <2>3. FileInv' /\ AnswerInv'
    BY <1>1, <1>5, <2>1, <2>2, GoOnPromises
  <2> QED
    BY <2>1, <2>3, Away DEF Promises
<1> QED
  BY <1>2, <1>3, <1>4, <1>5 DEF Inspect

(* What a step does to the mounted and available flags never reaches the file. *)
LEMMA FlagsKeepImage ==
  ASSUME NEW r \in Record, NEW q \in BOOLEAN
  PROVE  /\ SameImage([r EXCEPT !.mounted = q], r)
         /\ SameImage([r EXCEPT !.mounted = q, !.available = q], r)
<1>1. [r EXCEPT !.mounted = q] \in Record /\ [r EXCEPT !.mounted = q] # None /\ r # None
  BY RecordFields, NoneAssumption
<1>2. SameImage([r EXCEPT !.mounted = q], r)
  BY <1>1, SavedFields DEF SameImage
<1>3. PICK u \in Record : u = [r EXCEPT !.mounted = q]
  BY <1>1
<1>4. [u EXCEPT !.available = q] \in Record /\ [u EXCEPT !.available = q] # None
  BY RecordFields, NoneAssumption
<1>5. /\ Saved([u EXCEPT !.available = q]) = Saved(r)
      /\ [u EXCEPT !.available = q].remembered = r.remembered
  BY <1>3, SavedFields
<1>6. SameImage([u EXCEPT !.available = q], r)
  BY <1>1, <1>4, <1>5 DEF SameImage
<1> QED
  BY <1>2, <1>3, <1>6

LEMMA OfflinePromises == ASSUME IInv, IInv', Promises, Offline PROVE Promises'
<1>1. /\ w.pc \in MountPCs /\ w.s \in Shares /\ w.op \in MountOps
      /\ rec[w.s] \in Opt(Record) /\ rec \in [Shares -> Opt(Record)]
  BY MountFacts DEF Offline, MountPCs, RecOK
<1>2. Image(rec') = Image(rec)
  <2>1. CASE rec[w.s] = None
    BY <2>1 DEF Offline, Image
  <2>2. CASE rec[w.s] # None
    <3>1. PICK r \in Record : r = rec[w.s]
      BY <1>1, <2>2 DEF Opt
    <3>2. rec' = [rec EXCEPT ![w.s] = [r EXCEPT !.mounted = FALSE, !.available = FALSE]]
      BY <1>1, <2>2, <3>1 DEF Offline
    <3>3. SameImage([r EXCEPT !.mounted = FALSE, !.available = FALSE], rec[w.s])
      BY <3>1, FlagsKeepImage, Zenon
    <3> QED
      BY <1>1, <3>2, <3>3, OneRecordKept
  <2> QED
    BY <2>1, <2>2
<1> QED
  BY <1>1, <1>2, GiveUpPromises DEF Offline, store

LEMMA CheckPromises == ASSUME IInv, IInv', Promises, Check PROVE Promises'
<1>1. /\ w.pc \in MountPCs /\ w.pc \in MountPCs \cup ReleasePCs
      /\ w.s \in Shares /\ w.op \in MountOps /\ w \in Worker
      /\ rec[w.s] \in Opt(Record) /\ rec \in [Shares -> Opt(Record)]
  BY MountFacts DEF Check, MountPCs, RecOK
<1>2. Image(rec') = Image(rec)
  <2>1. CASE w.then = "check" /\ rec[w.s] # None
    <3>1. PICK r \in Record : r = rec[w.s]
      BY <1>1, <2>1 DEF Opt
    <3>2. rec' = [rec EXCEPT ![w.s] = [r EXCEPT !.mounted = FALSE]]
      BY <1>1, <2>1, <3>1 DEF Check
    <3>3. SameImage([r EXCEPT !.mounted = FALSE], rec[w.s])
      BY <3>1, FlagsKeepImage, Zenon
    <3> QED
      BY <1>1, <3>2, <3>3, OneRecordKept
  <2>2. CASE ~(w.then = "check" /\ rec[w.s] # None)
    BY <2>2 DEF Check, Image
  <2> QED
    BY <2>1, <2>2
<1>3. CASE Goto("try") /\ UNCHANGED ans /\ (kernel[w.s] = None => LeafIsEmpty(w.s))
  <2>1. w' = [w EXCEPT !.pc = "try"] /\ UNCHANGED <<ans, leaf, disk, unsaved, kernel, intruded>>
    BY <1>3 DEF Check, Goto, store, mounts
  <2>2. w'.pc = "try" /\ w'.op = w.op /\ w'.s = w.s
    BY <1>1, <2>1 DEF Worker
  <2>3. FileInv' /\ AnswerInv'
    BY <1>1, <1>2, <2>1, <2>2, GoOnPromises
  <2>4. SourceInv'
    BY <2>1, <2>2 DEF SourceInv, Promises, Check
  <2>5. kernel[w.s] # None => w.s \in late'
    BY <1>1 DEF Check
  <2>6. EmptyInv'
    BY <1>3, <2>1, <2>2, <2>5 DEF EmptyInv, LeafIsEmpty
  <2> QED
    BY <2>3, <2>4, <2>6 DEF Promises
<1>4. CASE MountReturns(FALSE)
  BY <1>1, <1>2, <1>4, GiveUpPromises DEF Check, store
<1> QED
  BY <1>3, <1>4 DEF Check

LEMMA TryPromises == ASSUME IInv, IInv', Promises, Try PROVE Promises'
<1> DEFINE a == ChooseRoute(w.srv, w.usable)
           source == [addr |-> a, exp |-> w.srv.exp]
<1>1. /\ w.pc = "try" /\ w.pc \in MountPCs /\ w.pc \in MountPCs \cup ReleasePCs
      /\ w.s \in Shares /\ w.op \in MountOps /\ w.srv \in View /\ w \in Worker
      /\ nfs \subseteq Addrs /\ kernel \in [Shares -> Source \cup {None, Foreign}]
  BY MountFacts DEF Try, MountPCs, NetOK, WorldOK
<1>2. UNCHANGED <<rec, disk, unsaved, leaf, late, intruded>> /\ Image(rec') = Image(rec)
  BY DEF Try, store, Image
<1>3. CASE MountReturns(FALSE)
  BY <1>1, <1>2, <1>3, GiveUpPromises
<1>4. CASE /\ a \in nfs /\ w' = [w EXCEPT !.pc = "record", !.addr = a] /\ UNCHANGED ans
           /\ MountOver(w.s, source)
  <2>1. w'.pc = "record" /\ w'.op = w.op /\ w'.s = w.s
    BY <1>1, <1>4 DEF Worker
  <2>2. FileInv' /\ AnswerInv'
    BY <1>1, <1>2, <1>4, <2>1, GoOnPromises
  <2>3. source \in Source
    BY <1>1, <1>4 DEF Source, View
  <2> HIDE DEF source
  <2>5. kernel'[w.s] = Foreign => kernel[w.s] = Foreign
    BY <1>1, <1>4, <2>3, ForeignAssumption DEF MountOver
  <2>4. SourceInv' /\ EmptyInv'
    BY <1>1, <1>2, <2>1, <2>5 DEF SourceInv, EmptyInv, Promises
  <2> QED
    BY <2>2, <2>4 DEF Promises
<1>5. CASE /\ w' = [w EXCEPT !.usable = IF "lan" \in @ THEN @ \ {"lan"} ELSE {}]
           /\ UNCHANGED ans /\ (UNCHANGED mounts \/ Unmounted(w.s))
  <2>1. PICK u : w' = [w EXCEPT !.usable = u]
    BY <1>5
  <2>2. w'.pc = "try" /\ w'.op = w.op /\ w'.s = w.s
    BY <1>1, <2>1 DEF Worker
  <2>3. FileInv' /\ AnswerInv'
    BY <1>1, <1>2, <1>5, <2>2, GoOnPromises
  <2>5. kernel'[w.s] = Foreign => kernel[w.s] = Foreign
    BY <1>1, <1>5, ForeignAssumption DEF Unmounted, mounts
  <2>4. SourceInv' /\ EmptyInv'
    BY <1>1, <1>2, <2>2, <2>5 DEF SourceInv, EmptyInv, Promises
  <2> QED
    BY <2>3, <2>4 DEF Promises
<1> QED
  BY <1>3, <1>4, <1>5 DEF Try, RolledBack

LEMMA CommitPromises == ASSUME IInv, IInv', Promises, Commit PROVE Promises'
<1> DEFINE new == Filled(rec[w.s], w.srv, Remembers(w.op), w.addr)
<1>1. /\ w.pc \in MountPCs /\ w.pc \in MountPCs \cup ReleasePCs
      /\ w.s \in Shares /\ w.op \in MountOps /\ w.addr \in Addrs
  BY MountFacts DEF Commit, MountPCs
<1>2. CASE /\ IF new.remembered THEN SaveOk([rec EXCEPT ![w.s] = new])
                                ELSE UNCHANGED <<disk, unsaved, budget>>
           /\ rec' = [rec EXCEPT ![w.s] = new]
           /\ MountReturns(TRUE)
  BY <1>1, <1>2, FillPromises
<1>3. CASE SaveFails /\ MountReturns(FALSE)
  BY <1>1, <1>3, GiveUpPromises, Zenon
<1> QED
  BY <1>2, <1>3 DEF Commit

-----------------------------------------------------------------------------
(* release_managed_mount.                                                  *)

LEMMA ReleaseReturned ==
  ASSUME IInv, IInv', Promises, w.pc \in ReleasePCs, UNCHANGED <<rec, disk, unsaved>>,
         NEW ok \in BOOLEAN, ReleaseReturns(ok), ok => kernel'[w.s] # Foreign
  PROVE  Promises'
<1>1. /\ w.pc \in MountPCs \cup ReleasePCs /\ w.s \in Shares /\ w \in Worker
      /\ \/ w.op \in MountOps /\ w.srv \in View /\ w.then \in {"check", "offline"}
         \/ w.op = "unmount" /\ w.then = "forget"
         \/ w.op = "expire" /\ w.then = "released" /\ w.s \in w.todo
      /\ FileInv /\ AnswerInv
  BY ReleaseFacts DEF Promises
<1>2. Image(rec') = Image(rec)
  BY DEF Image
<1>3. CASE ok
  <2>1. /\ w' = [w EXCEPT !.pc = w.then, !.src = None, !.addr = None] /\ ans' = ans
    BY <1>3 DEF ReleaseReturns
  <2>2. w'.pc = w.then /\ w'.op = w.op /\ w'.s = w.s
    BY <1>1, <2>1 DEF Worker
  <2>3. w'.pc \in {"check", "offline", "forget", "released"}
    BY <1>1, <2>2
  <2>4. FileInv' /\ AnswerInv'
    BY <1>1, <1>2, <2>1, <2>2, <2>3, GoOnPromises
  <2>5. SourceInv' /\ EmptyInv'
    BY <1>3, <2>2, <2>3 DEF SourceInv, EmptyInv
  <2> QED
    BY <2>4, <2>5 DEF Promises
<1>4. CASE ~ok /\ w.op = "unmount"
  <2>1. Answers("unmount", w.s, FALSE)
    BY <1>4 DEF ReleaseReturns
  <2>2. w'.pc = "idle" /\ Watched(w)
    BY <1>4, <2>1 DEF Answers, Idle, Watched
  <2>3. AnswerInv'
    BY <2>1, OtherAnswer
  <2>4. FileInv'
    BY <1>1, <1>2, <2>2, FileKept DEF LeavesImage
  <2> QED
    BY <2>2, <2>3, <2>4, Away DEF Promises
<1>5. CASE ~ok /\ w.op = "expire"
  <2>1. NextRecord(w.s) /\ ans' = ans
    BY <1>5 DEF ReleaseReturns
  <2>2. w'.pc = "reconcile" /\ ~Watched(w')
    BY <2>1 DEF NextRecord, Idle, Watched
  <2>3. AnswerInv'
    BY <1>1, <2>1, AnswerOutstanding, AtWork
  <2>4. FileInv'
    BY <1>1, <2>2, FileKept
  <2> QED
    BY <2>2, <2>3, <2>4, Away DEF Promises
<1>6. CASE ~ok /\ w.op \in MountOps
  <2>1. MountReturns(FALSE)
    BY <1>6 DEF ReleaseReturns, MountOps
  <2> QED
    BY <1>1, <1>6, <2>1, GiveUpPromises
<1> QED
  BY <1>1, <1>3, <1>4, <1>5, <1>6

LEMMA ReleasePromises == ASSUME IInv, IInv', Promises, Release PROVE Promises'
<1> DEFINE k == kernel[w.s]
           a == IF rec[w.s] = None THEN None ELSE RecordedAddr(rec[w.s], rec[w.s].exp, k)
<1>1. /\ w.pc \in ReleasePCs /\ w.pc \in MountPCs \cup ReleasePCs /\ w \in Worker
      /\ w.s \in Shares /\ UNCHANGED <<rec, disk, unsaved, nfs>>
  BY ReleaseFacts DEF Release, ReleasePCs, store, net
<1>2. CASE \E ok \in BOOLEAN : ReleaseReturns(ok) /\ (ok => kernel'[w.s] # Foreign)
  BY <1>1, <1>2, ReleaseReturned
<1>3. CASE /\ a # None /\ w' = [w EXCEPT !.pc = "recheck", !.addr = a, !.src = k]
           /\ seenDown' = Addrs \ nfs /\ UNCHANGED ans
  <2>1. w'.pc = "recheck" /\ w'.op = w.op /\ w'.s = w.s /\ w'.addr = a /\ w'.src = k
    BY <1>1, <1>3 DEF Worker
  <2>2. Image(rec') = Image(rec)
    BY <1>1 DEF Image
  <2>3. FileInv' /\ AnswerInv'
    BY <1>1, <1>3, <2>1, <2>2, GoOnPromises
  <2>4. rec[w.s] # None /\ k \in Source /\ a = k.addr
    BY <1>3 DEF RecordedAddr
  <2>5. SourceInv' /\ EmptyInv'
    BY <1>1, <1>3, <2>1, <2>4 DEF SourceInv, EmptyInv
  <2> QED
    BY <2>3, <2>5 DEF Promises
<1>4. kernel \in [Shares -> Source \cup {None, Foreign}]
  BY DEF IInv, TypeOK
<1>5. a # None => k \in Source
  BY DEF RecordedAddr
<1>6. CASE k = None /\ ReleaseReturns(TRUE) /\ UNCHANGED mounts
  BY <1>2, <1>6, ForeignAssumption DEF mounts
<1>7. CASE a # None /\ Unmounted(w.s) /\ ReleaseReturns(NothingLeft(w.s))
  <2>1. kernel'[w.s] # Foreign
    BY <1>1, <1>4, <1>5, <1>7, ForeignAssumption DEF Unmounted
  <2> QED
    BY <1>2, <1>7, <2>1 DEF NothingLeft
<1>8. CASE ReleaseReturns(FALSE)
  BY <1>2, <1>8
<1> QED
  BY <1>3, <1>6, <1>7, <1>8 DEF Release

LEMMA RecheckPromises == ASSUME IInv, IInv', Promises, Recheck PROVE Promises'
<1>1. /\ w.pc = "recheck" /\ w.pc \in ReleasePCs /\ w.pc \in MountPCs \cup ReleasePCs
      /\ w \in Worker /\ w.s \in Shares
      /\ UNCHANGED <<rec, disk, unsaved, kernel, nfs, seenDown>>
  BY ReleaseFacts DEF Recheck, ReleasePCs, store, net, world, mounts
<1>2. CASE \E ok \in BOOLEAN : ReleaseReturns(ok) /\ (ok => kernel[w.s] = None)
  BY <1>1, <1>2, ReleaseReturned, ForeignAssumption
<1>3. CASE w.addr \notin nfs /\ kernel[w.s] = w.src /\ Goto("detach") /\ UNCHANGED ans
  <2>1. /\ w'.pc = "detach" /\ w'.op = w.op /\ w'.s = w.s
        /\ w'.addr = w.addr /\ w'.src = w.src
    BY <1>1, <1>3 DEF Goto, Worker
  <2>2. Image(rec') = Image(rec)
    BY <1>1 DEF Image
  <2>3. FileInv' /\ AnswerInv'
    BY <1>1, <1>3, <2>1, <2>2, GoOnPromises
  <2>4. w.src \in Source /\ w.addr = w.src.addr /\ rec[w.s] # None /\ w.addr \in seenDown
    BY <1>1, <1>3 DEF Promises, SourceInv, Source
  <2>5. SourceInv' /\ EmptyInv'
    BY <1>1, <1>3, <2>1, <2>4, ForeignAssumption DEF SourceInv, EmptyInv
  <2> QED
    BY <2>3, <2>5 DEF Promises
<1> QED
  BY <1>2, <1>3 DEF Recheck

LEMMA DetachPromises == ASSUME IInv, IInv', Promises, Detach PROVE Promises'
<1>1. w.pc \in ReleasePCs /\ UNCHANGED <<rec, disk, unsaved>>
  <2>1. Fault \/ NoFault
    BY DEF Detach
  <2> QED
    BY <2>1 DEF Detach, ReleasePCs, store
<1>2. kernel \in [Shares -> Source \cup {None, Foreign}] /\ w.s \in Shares
  BY <1>1, ReleaseFacts DEF IInv, TypeOK
<1>3. CASE Unmounted(w.s) /\ ReleaseReturns(NothingLeft(w.s))
  <2>1. NothingLeft(w.s) => kernel'[w.s] # Foreign
    BY <1>2, <1>3, ForeignAssumption DEF Unmounted, NothingLeft
  <2>2. NothingLeft(w.s) \in BOOLEAN
    BY DEF NothingLeft
  <2> QED
    BY <1>1, <1>3, <2>1, <2>2, ReleaseReturned
<1>4. CASE ReleaseReturns(FALSE)
  BY <1>1, <1>4, ReleaseReturned
<1> QED
  BY <1>3, <1>4 DEF Detach

-----------------------------------------------------------------------------
(* Requests, refresh and reconciliation.                                   *)

(* A step between two pieces of work, after which the file need not follow *)
(* the table until the pass that is running ends.                          *)
LEMMA PassPromises ==
  ASSUME IInv, IInv', Promises, UNCHANGED <<disk, unsaved>>, ~Watched(w'),
         w'.pc \notin {"check", "try", "record", "recheck", "detach"},
         (UNCHANGED ans /\ w.pc \notin {"idle", "down"}) \/ ans' = None
  PROVE  Promises'
<1>1. AnswerInv'
  BY AnswerOutstanding, AnswerGone DEF Promises
<1>2. FileInv'
  BY FileKept DEF Promises
<1> QED
  BY <1>1, <1>2, Away DEF Promises

(* A step that leaves both alone and changes what the worker is about.     *)
LEMMA QuietPromises ==
  ASSUME IInv, IInv', Promises, UNCHANGED <<rec, disk, unsaved>>, Watched(w') => Watched(w),
         w'.pc \notin {"check", "try", "record", "recheck", "detach"}, AnswerInv'
  PROVE  Promises'
BY SameTable, FileKept, Away DEF Promises

LEMMA RequestMountPromises ==
  ASSUME IInv, IInv', Promises, NEW s \in Shares, NEW op \in {"once", "remember"},
         RequestMount(s, op)
  PROVE  Promises'
<1>1. w.pc = "idle" /\ UNCHANGED <<rec, disk, unsaved>> /\ Watched(w)
  BY DEF RequestMount, store, Watched
<1>2. CASE Answers(op, s, FALSE)
  BY <1>1, <1>2, OtherAnswer, QuietPromises DEF Answers, Idle
<1>3. ASSUME NEW v, w' = [Idle EXCEPT !.pc = "prepare", !.s = s, !.op = op, !.srv = v],
             ans' = None
      PROVE  Promises'
  <2>1. w'.pc = "prepare"
    BY <1>3 DEF Idle
  <2> QED
    BY <1>1, <1>3, <2>1, AnswerGone, QuietPromises
<1> QED
  BY <1>2, <1>3 DEF RequestMount

LEMMA ForgetRecordPromises ==
  ASSUME IInv, IInv', Promises, NEW s \in Shares, ForgetRecord(s)
  PROVE  Promises'
<1>0. PICK ok \in BOOLEAN : Answers("unmount", s, ok)
  BY DEF ForgetRecord
<1>1. w'.pc = "idle" /\ AnswerInv'
  BY <1>0, OtherAnswer DEF Answers, Idle
<1>2. SaveOk(rec') \/ SaveFails
  BY DEF ForgetRecord
<1>3. FileInv'
  BY <1>2, FileKept DEF Promises
<1> QED
  BY <1>1, <1>3, Away DEF Promises

LEMMA ForgetPromises == ASSUME IInv, IInv', Promises, Forget PROVE Promises'
<1>1. w.s \in Shares /\ w.pc = "forget"
  BY DEF Forget, IInv, LocalsOK
<1>2. CASE ForgetRecord(w.s)
  BY <1>1, <1>2, ForgetRecordPromises
<1>3. CASE Answers("unmount", w.s, FALSE) /\ UNCHANGED <<rec, disk, unsaved>>
  BY <1>1, <1>3, OtherAnswer, QuietPromises DEF Answers, Idle, Watched
<1> QED
  BY <1>2, <1>3 DEF Forget, store

LEMMA RequestUnmountPromises ==
  ASSUME IInv, IInv', Promises, NEW s \in Shares, RequestUnmount(s)
  PROVE  Promises'
<1>1. w.pc = "idle" /\ Watched(w)
  BY DEF RequestUnmount, Watched
<1>2. CASE ForgetRecord(s)
  BY <1>2, ForgetRecordPromises
<1>3. CASE \E ok \in BOOLEAN : Answers("unmount", s, ok) /\ UNCHANGED <<rec, disk, unsaved>>
  BY <1>1, <1>3, OtherAnswer, QuietPromises DEF Answers, Idle
<1>4. CASE /\ w' = [Idle EXCEPT !.pc = "release", !.s = s, !.op = "unmount", !.then = "forget"]
           /\ ans' = None /\ UNCHANGED <<rec, disk, unsaved>>
  <2>1. w'.pc = "release"
    BY <1>4 DEF Idle
  <2> QED
    BY <1>1, <1>4, <2>1, AnswerGone, QuietPromises
<1> QED
  BY <1>2, <1>3, <1>4 DEF RequestUnmount, store

LEMMA StartLoopPromises ==
  ASSUME IInv, IInv', Promises, StartRefresh \/ StartReconcile
  PROVE  Promises'
<1>1. /\ w.pc = "idle" /\ UNCHANGED <<rec, disk, unsaved>> /\ ans' = None
      /\ w'.pc \in {"refresh", "reconcile"}
  BY DEF StartRefresh, StartReconcile, store, Idle
<1>2. Watched(w)
  BY <1>1 DEF Watched
<1> QED
  BY <1>1, <1>2, AnswerGone, QuietPromises

LEMMA RefreshOnePromises ==
  ASSUME IInv, IInv', Promises, NEW s \in Shares, RefreshOne(s)
  PROVE  Promises'
<1>1. PICK table : /\ rec' = table
                   /\ w' = [w EXCEPT !.todo = @ \ {s}, !.dirty = @ \/ table # rec]
  BY DEF RefreshOne
<1>2. w.pc = "refresh" /\ w \in Worker /\ w.op = "none" /\ UNCHANGED <<disk, unsaved, ans>>
  BY DEF RefreshOne, store, IInv, TypeOK, LocalsOK
<1>3. PICK q \in BOOLEAN : q = (w.dirty \/ table # rec)
  OBVIOUS
<1>4. w' = [w EXCEPT !.todo = @ \ {s}, !.dirty = q]
  BY <1>1, <1>3, Zenon
<1>5. w'.pc = "refresh" /\ w'.op = "none" /\ w'.dirty = q
  BY <1>2, <1>4 DEF Worker
<1>6. CASE q
  <2>1. ~Watched(w')
    BY <1>5, <1>6 DEF Watched
  <2> QED
    BY <1>2, <1>5, <2>1, PassPromises
<1>7. CASE ~q
  <2>1. Watched(w) /\ rec' = rec
    BY <1>1, <1>2, <1>3, <1>7, Zenon DEF Watched
  <2>2. AnswerInv'
    BY <1>2, AnswerOutstanding DEF Promises
  <2> QED
    BY <1>2, <1>5, <2>1, <2>2, QuietPromises
<1> QED
  BY <1>6, <1>7

LEMMA EndLoopPromises ==
  ASSUME IInv, IInv', Promises, EndRefresh \/ EndReconcile
  PROVE  Promises'
<1>1. /\ w.pc \in {"refresh", "reconcile"} /\ w'.pc = "idle" /\ UNCHANGED <<rec, ans>>
      /\ w.op = "none"
  BY DEF EndRefresh, EndReconcile, Idle, IInv, LocalsOK
<1>2. AnswerInv'
  BY <1>1, AnswerOutstanding DEF Promises
<1>3. CASE SaveOk(rec) \/ SaveFails
  <2>1. FileInv'
    BY <1>1, <1>3, FileKept DEF Promises
  <2> QED
    BY <1>1, <1>2, <2>1, Away DEF Promises
<1>4. CASE ~(SaveOk(rec) \/ SaveFails)
  <2>1. w.pc = "refresh" /\ ~w.dirty /\ UNCHANGED <<disk, unsaved>>
    BY <1>4 DEF EndRefresh, EndReconcile
  <2>2. Watched(w)
    BY <2>1 DEF Watched
  <2> QED
    BY <1>1, <1>2, <2>1, <2>2, QuietPromises
<1> QED
  BY <1>3, <1>4

(* A pass takes the next record, or calls perform_mount for the one in hand. *)
LEMMA Onward ==
  ASSUME w \in Worker, NEW s, NEW v, NEW op \in {"retry", "reconnect"},
         NextRecord(s) \/ CallMount(s, op, v)
  PROVE  ~Watched(w') /\ w'.pc \notin {"check", "try", "record", "recheck", "detach"}
<1>1. CASE NextRecord(s)
  BY <1>1 DEF NextRecord, Idle, Watched
<1>2. CASE CallMount(s, op, v)
  <2>1. w'.pc = "prepare" /\ w'.op = op
    BY <1>2 DEF CallMount, Worker
  <2> QED
    BY <2>1 DEF Watched
<1> QED
  BY <1>1, <1>2

LEMMA LookPromises ==
  ASSUME IInv, IInv', Promises, NEW s \in Shares, LookHealthy(s) \/ LookAiling(s)
  PROVE  Promises'
<1>1. /\ w.pc = "reconcile" /\ w.op = "none" /\ w \in Worker
      /\ UNCHANGED <<disk, unsaved, ans>>
  BY DEF LookHealthy, LookAiling, store, IInv, TypeOK, LocalsOK
<1>2. \/ \E v : \/ NextRecord(s)
                \/ \E op \in {"retry", "reconnect"} : CallMount(s, op, v)
      \/ \E v : w' = [w EXCEPT !.pc = "again", !.s = s, !.srv = v]
  BY DEF LookHealthy, LookAiling
<1>3. ~Watched(w') /\ w'.pc \notin {"check", "try", "record", "recheck", "detach"}
  <2>1. CASE \E v : \/ NextRecord(s)
                    \/ \E op \in {"retry", "reconnect"} : CallMount(s, op, v)
    BY <1>1, <2>1, Onward
  <2>2. CASE \E v : w' = [w EXCEPT !.pc = "again", !.s = s, !.srv = v]
    <3>1. w'.pc = "again" /\ w'.op = "none"
      BY <1>1, <2>2 DEF Worker
    <3> QED
      BY <3>1 DEF Watched
  <2> QED
    BY <1>2, <2>1, <2>2
<1> QED
  BY <1>1, <1>3, PassPromises

LEMMA AgainPromises == ASSUME IInv, IInv', Promises, Again PROVE Promises'
<1>1. w.pc = "again" /\ w \in Worker /\ UNCHANGED <<disk, unsaved, ans>>
  BY DEF Again, store, IInv, TypeOK
<1>2. ~Watched(w') /\ w'.pc \notin {"check", "try", "record", "recheck", "detach"}
  <2>1. CASE CallMount(w.s, "reconnect", w.srv)
    BY <1>1, <2>1, Onward
  <2>2. CASE w' = [w EXCEPT !.pc = "release", !.op = "expire", !.then = "released"]
    <3>1. w'.pc = "release" /\ w'.op = "expire"
      BY <1>1, <2>2 DEF Worker
    <3> QED
      BY <3>1 DEF Watched
  <2> QED
    BY <2>1, <2>2 DEF Again
<1> QED
  BY <1>1, <1>2, PassPromises

LEMMA ReleasedPromises == ASSUME IInv, IInv', Promises, Released PROVE Promises'
<1>1. w.pc = "released" /\ w \in Worker /\ UNCHANGED <<disk, unsaved, ans>>
  BY DEF Released, store, IInv, TypeOK
<1>2. NextRecord(w.s) \/ CallMount(w.s, "reconnect", w.srv)
  BY DEF Released
<1> QED
  BY <1>1, <1>2, Onward, PassPromises

-----------------------------------------------------------------------------
(* The environment, crashes and restarts.                                  *)

LEMMA OutsidePromises ==
  ASSUME IInv, IInv', Promises, UNCHANGED <<rec, w, disk, unsaved, ans>>
  PROVE  FileInv' /\ AnswerInv'
<1>1. FileInv'
  BY SameTable, FileKept DEF Promises, Watched
<1>2. AnswerInv'
  BY DEF Promises, AnswerInv, AckedMountIsDurable
<1> QED
  BY <1>1, <1>2

LEMMA NetPromises ==
  ASSUME IInv, IInv', Promises,
         \/ \E a \in Addrs : FlipNfs(a) \/ FlipRpc(a)
         \/ FlipTailscale
         \/ \E v \in Servers : Discover(v)
  PROVE  Promises'
<1>1. /\ UNCHANGED <<rec, w, disk, unsaved, ans, kernel, leaf, intruded, late>>
      /\ UNCHANGED <<nfs, seenDown>> \/ seenDown' = seenDown \cup (Addrs \ nfs')
  BY DEF FlipNfs, FlipRpc, FlipTailscale, Discover, memory, store, world, mounts, net
<1>2. SourceInv' /\ EmptyInv'
  BY <1>1 DEF Promises, SourceInv, EmptyInv
<1> QED
  BY <1>1, <1>2, OutsidePromises DEF Promises

LEMMA WorldPromises ==
  ASSUME IInv, IInv', Promises, NEW s \in Shares,
         UseMount(s) \/ WriteLeaf(s) \/ AdminUnmount(s) \/ ForeignMount(s)
  PROVE  Promises'
<1>1. /\ UNCHANGED <<rec, w, disk, unsaved, ans, nfs, seenDown>>
      /\ kernel \in [Shares -> Source \cup {None, Foreign}]
      /\ leaf \in [Shares -> {"absent", "empty", "files"}]
      /\ w.pc \in {"check", "try", "record", "recheck", "detach"} => w.s \in Shares
  BY DEF UseMount, WriteLeaf, AdminUnmount, ForeignMount, memory, store, net, IInv, TypeOK,
         LocalsOK
<1>2. EmptyInv'
  <2>1. CASE UNCHANGED <<leaf, late>>
    BY <1>1, <2>1 DEF Promises, EmptyInv
  <2>2. CASE WriteLeaf(s)
    BY <1>1, <2>2 DEF WriteLeaf, Promises, EmptyInv
  <2> QED
    BY <2>1, <2>2 DEF UseMount, AdminUnmount, ForeignMount
<1>3. SourceInv'
  <2>1. CASE UNCHANGED <<kernel, intruded>>
    BY <1>1, <2>1 DEF Promises, SourceInv
  <2>2. CASE AdminUnmount(s)
    <3>1. UNCHANGED kernel \/ kernel' = [kernel EXCEPT ![s] = None]
      BY <2>2 DEF AdminUnmount, Unmounted
    <3>2. intruded' = intruded
      BY <2>2 DEF AdminUnmount
    <3> QED
      BY <1>1, <3>1, <3>2, ForeignAssumption DEF Promises, SourceInv
  <2>3. CASE ForeignMount(s)
    <3>1. kernel' = [kernel EXCEPT ![s] = Foreign] /\ intruded' = intruded \cup {s}
      BY <2>3 DEF ForeignMount
    <3> QED
      BY <1>1, <3>1 DEF Promises, SourceInv
  <2> QED
    BY <2>1, <2>2, <2>3 DEF UseMount, WriteLeaf, mounts
<1> QED
  BY <1>1, <1>2, <1>3, OutsidePromises DEF Promises

LEMMA LostPromises == ASSUME IInv, IInv', Promises, Crash \/ Reboot PROVE Promises'
<1>1. UNCHANGED <<disk, unsaved, ans>> /\ w'.pc = "down" /\ w'.op = "none"
  BY DEF Crash, Reboot, Lost, store, Idle
<1>2. AnswerInv'
  BY <1>1, AnswerStands DEF Promises
<1>3. FileInv'
  BY <1>1, FileKept DEF Promises, Watched
<1> QED
  BY <1>1, <1>2, <1>3, Away DEF Promises

LEMMA StartPromises == ASSUME IInv, IInv', Promises, Start PROVE Promises'
<1>1. rec' = disk /\ disk' = disk /\ w'.pc = "idle" /\ ans' = ans
  BY DEF Start, Idle
<1>2. AnswerInv'
  BY <1>1, AnswerStands DEF Promises
<1>3. FileInv'
  BY <1>1 DEF Promises, FileInv
<1> QED
  BY <1>1, <1>2, <1>3, Away DEF Promises

LEMMA InitPromises == ASSUME Init PROVE Promises
<1>1. w.pc = "idle" /\ ans = None /\ disk = rec
  BY DEF Init, Idle
<1>2. disk = Image(disk)
  BY DEF Init, Image
<1> QED
  BY <1>1, <1>2 DEF Promises, FileInv, AnswerInv, AckedMountIsDurable, SourceInv, EmptyInv

LEMMA NextPromises == ASSUME IInv, IInv', Promises, [Next]_vars PROVE Promises'
<1>1. CASE PerformMount
  BY <1>1, PreparePromises, InspectPromises, OfflinePromises, CheckPromises, TryPromises,
     CommitPromises DEF PerformMount
<1>2. CASE ReleaseMount
  BY <1>2, ReleasePromises, RecheckPromises, DetachPromises DEF ReleaseMount
<1>3. CASE Requests \/ Forget
  BY <1>3, RequestMountPromises, RequestUnmountPromises, ForgetPromises DEF Requests
<1>4. CASE RefreshPeers \/ StartRefresh \/ StartReconcile
  BY <1>4, StartLoopPromises, RefreshOnePromises, EndLoopPromises DEF RefreshPeers
<1>5. CASE Reconcile
  BY <1>5, LookPromises, AgainPromises, ReleasedPromises, EndLoopPromises DEF Reconcile
<1>6. CASE Environment
  BY <1>6, NetPromises, WorldPromises, LostPromises DEF Environment
<1>7. CASE Start
  BY <1>7, StartPromises
<1>8. CASE UNCHANGED vars
  <2>1. /\ UNCHANGED <<rec, w, disk, unsaved, ans, kernel, leaf, made, late, nfs>>
        /\ UNCHANGED <<seenDown, intruded>>
    BY <1>8 DEF vars
  <2>2. SourceInv' /\ EmptyInv'
    BY <2>1 DEF Promises, SourceInv, EmptyInv
  <2> QED
    BY <2>1, <2>2, OutsidePromises DEF Promises
<1> QED
  BY <1>1, <1>2, <1>3, <1>4, <1>5, <1>6, <1>7, <1>8 DEF Next, Daemon, Step

(* What the file, the answers, the mounts being taken away and the mountpoints *)
(* being mounted over obey, on every path and beside every outside event.  *)
THEOREM PromisesKept == Spec => []Promises
<1>1. Init => Promises
  BY InitPromises
<1>2. IInv /\ IInv' /\ Promises /\ [Next]_vars => Promises'
  BY NextPromises
<1> QED
  BY <1>1, <1>2, Invariant, PTL DEF Spec

(* The remembered-mounts file agrees with the table whenever the worker is *)
(* idle and its last save did not fail.                                    *)
THEOREM FileFollowsTable == Spec => []DiskCurrent
<1>1. Promises => DiskCurrent
  BY DEF Promises, FileInv, Watched, DiskCurrent
<1> QED
  BY <1>1, PromisesKept, PTL

(* A share acknowledged as mounted with --remember is on disk for as long as *)
(* that answer is the last one.                                            *)
THEOREM AckedMountsSurvive == Spec => []AckedMountIsDurable
<1>1. Promises => AckedMountIsDurable
  BY DEF Promises, AnswerInv
<1> QED
  BY <1>1, PromisesKept, PTL

-----------------------------------------------------------------------------
(* What no step does.                                                      *)

(* Only four steps of the daemon change the kernel's mount table, all for the *)
(* share in hand.                                                          *)
LEMMA KernelSteps ==
  ASSUME IInv, [Next]_vars, DaemonStep
  PROVE  UNCHANGED kernel \/ Try \/ Commit \/ Release \/ Detach
<1>1. ASSUME NEW move, Spend(move) PROVE FALSE
  BY <1>1 DEF Spend, DaemonStep, IInv, TypeOK, Budget
<1>2. CASE Environment
  BY <1>1, <1>2 DEF Environment, FlipNfs, FlipRpc, FlipTailscale, Discover, UseMount,
     WriteLeaf, AdminUnmount, ForeignMount, Crash, Reboot
<1>3. CASE PerformMount \/ ReleaseMount
  BY <1>3 DEF PerformMount, ReleaseMount, Prepare, Inspect, Offline, Check, Recheck, world, mounts
<1>4. CASE Requests \/ Forget
  BY <1>4 DEF Requests, Forget, RequestMount, RequestUnmount, world, mounts
<1>5. CASE RefreshPeers \/ StartRefresh \/ StartReconcile \/ Start
  BY <1>5 DEF RefreshPeers, StartRefresh, StartReconcile, Start, RefreshOne, EndRefresh, world, mounts
<1>6. CASE Reconcile
  BY <1>6 DEF Reconcile, LookHealthy, LookAiling, Again, Released, EndReconcile, world, mounts
<1> QED
  BY <1>2, <1>3, <1>4, <1>5, <1>6 DEF Next, Daemon, Step, vars

LEMMA KernelFacts ==
  ASSUME IInv, Try \/ Commit \/ Release \/ Detach, NEW s \in Shares, kernel'[s] # kernel[s]
  PROVE  /\ s = w.s /\ kernel[s] \in Source \cup {None, Foreign}
         /\ \/ w.pc = "try" /\ kernel[s] = None
            \/ w.pc = "try" /\ kernel'[s] = None /\ s \notin busy
            \/ w.pc = "record" /\ kernel'[s] = None /\ s \notin busy
            \/ /\ w.pc = "release" /\ kernel'[s] = None /\ s \notin busy
               /\ rec[s] # None /\ kernel[s] \in Source
            \/ w.pc = "detach" /\ kernel'[s] = None
<1>1. kernel \in [Shares -> Source \cup {None, Foreign}]
  BY DEF IInv, TypeOK
<1>2. ASSUME NEW x, MountOver(w.s, x) PROVE s = w.s /\ kernel[s] = None
  BY <1>1, <1>2 DEF MountOver
<1>3. ASSUME Unmounted(w.s) PROVE s = w.s /\ kernel'[s] = None
  BY <1>1, <1>3 DEF Unmounted
<1>4. CASE Try
  <2>1. w.pc = "try"
    BY <1>4 DEF Try
  <2>2. (\E x : MountOver(w.s, x)) \/ (Unmounted(w.s) /\ w.s \notin busy)
    BY <1>4 DEF Try, RolledBack, mounts
  <2> QED
    BY <1>1, <1>2, <1>3, <2>1, <2>2 DEF Unmounted
<1>5. CASE Commit
  <2>1. w.pc = "record" /\ w.s \notin busy /\ Unmounted(w.s)
    BY <1>5 DEF Commit, RolledBack, mounts
  <2> QED
    BY <1>1, <2>1 DEF Unmounted
<1>6. CASE Release
  <2>1. /\ w.pc = "release" /\ w.s \notin busy /\ Unmounted(w.s) /\ rec[w.s] # None
        /\ RecordedAddr(rec[w.s], rec[w.s].exp, kernel[w.s]) # None
    BY <1>6 DEF Release, mounts
  <2>2. kernel[w.s] \in Source
    BY <2>1 DEF RecordedAddr
  <2> QED
    BY <1>1, <2>1, <2>2 DEF Unmounted
<1>7. CASE Detach
  BY <1>1, <1>7 DEF Detach, Unmounted, mounts
<1> QED
  BY <1>4, <1>5, <1>6, <1>7

(* What another program has mounted is taken away only by the roll-back of *)
(* a mount attempt or by a lazy detach, and only if it was mounted after   *)
(* the daemon's last look at that mountpoint.                              *)
THEOREM ForeignMountsStay == Spec => OnlyManagedReleased
<1> DEFINE Managed == DaemonStep => \A s \in Shares :
              kernel[s] = Foreign /\ kernel'[s] # Foreign =>
                s \in intruded /\ w.s = s /\ w.pc \in {"try", "record", "detach"}
<1>1. ASSUME IInv, Promises, [Next]_vars PROVE Managed
  <2>1. SUFFICES ASSUME DaemonStep, NEW s \in Shares, kernel[s] = Foreign, kernel'[s] # Foreign
                 PROVE  s \in intruded /\ w.s = s /\ w.pc \in {"try", "record", "detach"}
    BY DEF Managed
  <2>2. Try \/ Commit \/ Release \/ Detach
    BY <1>1, <2>1, KernelSteps
  <2>3. s = w.s /\ w.pc \in {"try", "record", "detach"}
    BY <1>1, <2>1, <2>2, KernelFacts, ForeignAssumption
  <2> QED
    BY <1>1, <2>1, <2>3 DEF Promises, SourceInv
<1>2. IInv /\ Promises /\ [Next]_vars => [Managed]_vars
  BY <1>1
<1> QED
  BY <1>2, Invariant, PromisesKept, PTL DEF OnlyManagedReleased, Spec

(* A mount with open files goes only after its endpoint was seen down after*)
(* the failed unmount.                                                     *)
THEOREM BusyMountsStay == Spec => BusyDetachedOnlyWhenDown
<1> DEFINE Down == DaemonStep => \A s \in busy :
              kernel[s] \in Source /\ kernel'[s] # kernel[s] =>
                w.pc = "detach" /\ kernel[s].addr \in seenDown
<1>1. ASSUME IInv, Promises, [Next]_vars PROVE Down
  <2>1. SUFFICES ASSUME DaemonStep, NEW s \in busy,
                        kernel[s] \in Source, kernel'[s] # kernel[s]
                 PROVE  w.pc = "detach" /\ kernel[s].addr \in seenDown
    BY DEF Down
  <2>2. Try \/ Commit \/ Release \/ Detach
    BY <1>1, <2>1, KernelSteps
  <2>3. s \in Shares
    BY <1>1 DEF IInv, TypeOK
  <2>4. s = w.s /\ w.pc = "detach"
    BY <1>1, <2>1, <2>2, <2>3, KernelFacts, NoneAssumption
  <2> QED
    BY <1>1, <2>1, <2>4, NoneAssumption, ForeignAssumption DEF Promises, SourceInv
<1>2. IInv /\ Promises /\ [Next]_vars => [Down]_vars
  BY <1>1
<1> QED
  BY <1>2, Invariant, PromisesKept, PTL DEF BusyDetachedOnlyWhenDown, Spec

(* A mount covers files only if they were written after the attempt had    *)
(* found the mountpoint empty.                                             *)
THEOREM FilesStayVisible == Spec => NeverHidesFiles
<1> DEFINE Late == DaemonStep => \A s \in Shares :
              kernel[s] = None /\ kernel'[s] # None /\ leaf[s] = "files" => s \in late
<1>1. ASSUME IInv, Promises, [Next]_vars PROVE Late
  <2>1. SUFFICES ASSUME DaemonStep, NEW s \in Shares,
                        kernel[s] = None, kernel'[s] # None, leaf[s] = "files"
                 PROVE  s \in late
    BY DEF Late
  <2>2. Try \/ Commit \/ Release \/ Detach
    BY <1>1, <2>1, KernelSteps
  <2>3. s = w.s /\ w.pc = "try"
    BY <1>1, <2>1, <2>2, KernelFacts
  <2> QED
    BY <1>1, <2>1, <2>3 DEF Promises, EmptyInv
<1>2. IInv /\ Promises /\ [Next]_vars => [Late]_vars
  BY <1>1
<1> QED
  BY <1>2, Invariant, PromisesKept, PTL DEF NeverHidesFiles, Spec

(* A step that writes the file writes an image of the table, in which no   *)
(* record that was remembered before is missing but the one being forgotten. *)
LEMMA DiskSteps ==
  ASSUME IInv, IInv', [Next]_vars, NEW s \in Shares, disk[s] # None, disk'[s] = None
  PROVE  \/ /\ ans' # None /\ ans'.op = "unmount" /\ ans'.s = s
         \/ rec[s] = None
         \/ ~rec[s].remembered
<1>1. /\ rec \in [Shares -> Opt(Record)] /\ disk' # disk
      /\ SaveFails => UNCHANGED disk
  BY DEF IInv, TypeOK, SaveFails
<1>2. SUFFICES ASSUME rec[s] # None, rec[s].remembered
               PROVE  ans' # None /\ ans'.op = "unmount" /\ ans'.s = s
  OBVIOUS
<1>3. rec[s] \in Record
  BY <1>1, <1>2 DEF Opt
<1>4. ASSUME NEW table \in [Shares -> Opt(Record)], SaveOk(table),
             table[s] # None, table[s].remembered
      PROVE  FALSE
  <2>1. disk'[s] = Saved(table[s])
    BY <1>4 DEF SaveOk, Image
  <2> QED
    BY <1>4, <2>1, SavedType, NoneAssumption DEF Opt
<1>5. ASSUME NEW r \in Shares, NEW q \in Record, SaveOk([rec EXCEPT ![r] = q]),
             rec[r] # None /\ rec[r].remembered => q.remembered
      PROVE  FALSE
  <2>1. [rec EXCEPT ![r] = q] \in [Shares -> Opt(Record)]
    BY <1>1 DEF Opt
  <2>2. CASE r = s
    BY <1>1, <1>2, <1>4, <1>5, <2>1, <2>2, NoneAssumption
  <2>3. CASE r # s
    BY <1>1, <1>2, <1>4, <1>5, <2>1, <2>3
  <2> QED
    BY <2>2, <2>3
<1>6. ASSUME w.pc \in MountPCs, NEW a \in Addrs,
             SaveOk([rec EXCEPT ![w.s] = Filled(rec[w.s], w.srv, Remembers(w.op), a)])
      PROVE  FALSE
  <2>1. w.s \in Shares /\ w.srv \in View /\ rec[w.s] \in Opt(Record)
    BY <1>6, MountFacts
  <2>2. Remembers(w.op) \in BOOLEAN
    BY DEF Remembers
  <2>3. PICK q \in Record : /\ q = Filled(rec[w.s], w.srv, Remembers(w.op), a)
                            /\ q.remembered = ((rec[w.s] # None /\ rec[w.s].remembered)
                                                 \/ Remembers(w.op))
    BY <2>1, <2>2, FilledRemembered
  <2>4. SaveOk([rec EXCEPT ![w.s] = q])
    BY <1>6, <2>3
  <2> QED
    BY <1>5, <2>1, <2>3, <2>4
<1>7. CASE Prepare
  <2>1. w.s \in Shares /\ w.srv \in View /\ rec[w.s] \in Opt(Record)
    BY <1>7, MountFacts DEF Prepare, MountPCs
  <2>2. PICK t \in Opt(Ts) :
           LET r   == rec[w.s]
               v   == [Seeded(w.srv, r) EXCEPT !.ts = OrElse(t, @)]
               new == IF r = None THEN None ELSE Updated(r, v)
           IN  new # r /\ SaveOk([rec EXCEPT ![w.s] = new])
    <3>1. Refreshed \subseteq Opt(Ts)
      BY DEF Refreshed, Opt
    <3> QED
      BY <1>1, <1>7, <3>1, Zenon DEF Prepare
  <2>3. PICK v \in View : v = [Seeded(w.srv, rec[w.s]) EXCEPT !.ts = OrElse(t, @)]
    BY <2>1, SeededType
  <2>4. rec[w.s] \in Record /\ SaveOk([rec EXCEPT ![w.s] = Updated(rec[w.s], v)])
    BY <2>1, <2>2, <2>3 DEF Opt
  <2>5. /\ Updated(rec[w.s], v) \in Record
        /\ Updated(rec[w.s], v).remembered = rec[w.s].remembered
    BY <2>4, UpdatedType, UpdatedRemembered
  <2> QED
    BY <1>5, <2>1, <2>4, <2>5
<1>8. CASE Inspect
  <2>1. PICK a : /\ a # None /\ a = SourceAddr(rec[w.s], w.srv, kernel[w.s])
                 /\ SaveOk([rec EXCEPT ![w.s] = Filled(rec[w.s], w.srv, Remembers(w.op), a)])
    BY <1>1, <1>8 DEF Inspect, Adopt
  <2>2. w.pc \in MountPCs /\ w.srv \in View
    BY <1>8, MountFacts DEF Inspect, MountPCs
  <2>3. a \in Addrs
    BY <2>1, <2>2, RecordedSource DEF Opt
  <2> QED
    BY <1>6, <2>1, <2>2, <2>3
<1>9. CASE Commit
  <2>1. SaveOk([rec EXCEPT ![w.s] = Filled(rec[w.s], w.srv, Remembers(w.op), w.addr)])
    BY <1>1, <1>9 DEF Commit
  <2>2. w.pc \in MountPCs /\ w.addr \in Addrs
    BY <1>9, MountFacts DEF Commit, MountPCs
  <2> QED
    BY <1>6, <2>1, <2>2
<1>10. ASSUME NEW r \in Shares, ForgetRecord(r)
       PROVE  ans' # None /\ ans'.op = "unmount" /\ ans'.s = s
  <2>1. SaveOk([rec EXCEPT ![r] = None]) /\ Answers("unmount", r, TRUE)
    BY <1>1, <1>10 DEF ForgetRecord
  <2>2. [rec EXCEPT ![r] = None] \in [Shares -> Opt(Record)]
    BY <1>1 DEF Opt
  <2>3. r = s
    BY <1>1, <1>2, <1>4, <2>1, <2>2
  <2>4. ans' = [op |-> "unmount", s |-> s, ok |-> TRUE]
    BY <2>1, <2>3 DEF Answers
  <2>5. ans' \in Answer
    BY <1>1, <2>3, <2>4 DEF Answer
  <2>6. ans' # None
    BY <2>5, NoneAssumption
  <2> QED
    BY <2>4, <2>6
<1>11. CASE Forget
  <2>1. w.s \in Shares
    BY <1>11 DEF Forget, IInv, LocalsOK
  <2> QED
    BY <1>1, <1>10, <1>11, <2>1 DEF Forget, store
<1>12. ASSUME NEW r \in Shares, RequestUnmount(r)
       PROVE  ans' # None /\ ans'.op = "unmount" /\ ans'.s = s
  BY <1>1, <1>10, <1>12 DEF RequestUnmount, store
<1>13. CASE EndRefresh \/ EndReconcile
  BY <1>1, <1>2, <1>4, <1>13 DEF EndRefresh, EndReconcile
<1>14. CASE Offline \/ Check \/ Try \/ ReleaseMount
  BY <1>1, <1>14 DEF ReleaseMount, Offline, Check, Try, Release, Recheck, Detach, store
<1>15. CASE StartRefresh \/ StartReconcile \/ Start
  BY <1>1, <1>15 DEF StartRefresh, StartReconcile, Start, store
<1>16. ASSUME NEW r \in Shares, NEW op, RequestMount(r, op) \/ RefreshOne(r)
       PROVE  FALSE
  BY <1>1, <1>16 DEF RequestMount, RefreshOne, store
<1>17. ASSUME NEW r \in Shares,
              Again \/ Released \/ LookHealthy(r) \/ LookAiling(r)
       PROVE  FALSE
  BY <1>1, <1>17 DEF Again, Released, LookHealthy, LookAiling, store
<1>18. CASE Environment
  BY <1>1, <1>18 DEF Environment, FlipNfs, FlipRpc, FlipTailscale, Discover, UseMount,
     WriteLeaf, AdminUnmount, ForeignMount, Crash, Reboot, store
<1>19. CASE PerformMount
  BY <1>7, <1>8, <1>9, <1>14, <1>19 DEF PerformMount
<1>20. CASE Requests \/ RefreshPeers \/ Reconcile
  BY <1>12, <1>13, <1>16, <1>17, <1>20 DEF Requests, RefreshPeers, Reconcile
<1> QED
  BY <1>1, <1>11, <1>14, <1>15, <1>18, <1>19, <1>20 DEF Next, Daemon, Step, vars

(* Neither an outage, nor a later mount without --remember, nor a failing  *)
(* roll-back drops a remembered share from the file: only UNMOUNT does, or a *)
(* save made after memory had lost the record.                             *)
THEOREM RememberedSharesStay == Spec => SavesKeepRemembered
<1> DEFINE Kept == \A s \in Shares : disk[s] # None /\ disk'[s] = None =>
                     \/ ans' # None /\ ans'.op = "unmount" /\ ans'.s = s
                     \/ rec[s] = None
                     \/ ~rec[s].remembered
<1>1. ASSUME IInv, [Next]_vars PROVE Kept
  <2>1. IInv'
    BY <1>1, NextInvariant
  <2> QED
    BY <1>1, <2>1, DiskSteps, Zenon DEF Kept
<1>2. IInv /\ [Next]_vars => [Kept]_vars
  BY <1>1
<1> QED
  BY <1>2, Invariant, PTL DEF SavesKeepRemembered, Spec
=============================================================================
