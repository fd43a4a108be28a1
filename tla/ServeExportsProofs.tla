------------------------- MODULE ServeExportsProofs -------------------------
(***************************************************************************)
(* Every value of the constants: the surfaces a server publishes through   *)
(* agree with its configuration unless their update is due, failed or was  *)
(* given up (SurfacesAgree), a filesystem never has two names              *)
(* (OneNamePerDrive), and everything keeps its type (TypeOK).              *)
(***************************************************************************)
EXTENDS ServeExports, TLAPS

-----------------------------------------------------------------------------
(* Types, in the parts that actions disturb separately.                     *)

MemoryOK  == role \in {"server", "client"} /\ config \in Config /\ tailnet \in BOOLEAN
WorkOK    == w \in Worker
FilesOK   == disk \in Config /\ fstab \subseteq Entry /\ exports \in Export /\ smb \in Samba
ServedOK  == kernel \in Export /\ smbd \subseteq Section /\ publisher \in BOOLEAN
WorldOK   == mounted \in World /\ tailscale \in BOOLEAN
HistoryOK == ans \in Opt(Answer) /\ behind \subseteq Surfaces
BudgetOK  == budget \in Budget

LEMMA Parts ==
  TypeOK <=> MemoryOK /\ WorkOK /\ FilesOK /\ ServedOK /\ WorldOK /\ HistoryOK /\ BudgetOK
BY DEF TypeOK, MemoryOK, WorkOK, FilesOK, ServedOK, WorldOK, HistoryOK, BudgetOK

LEMMA PartsNext ==
  TypeOK' <=> /\ MemoryOK' /\ WorkOK' /\ FilesOK' /\ ServedOK' /\ WorldOK'
              /\ HistoryOK' /\ BudgetOK'
BY DEF TypeOK, MemoryOK, WorkOK, FilesOK, ServedOK, WorldOK, HistoryOK, BudgetOK

(* What a step leaves alone keeps its type. *)
LEMMA Unchanged ==
  ASSUME TypeOK
  PROVE  /\ UNCHANGED memory => MemoryOK'
         /\ UNCHANGED w => WorkOK'
         /\ UNCHANGED files => FilesOK'
         /\ UNCHANGED served => ServedOK'
         /\ UNCHANGED world => WorldOK'
         /\ UNCHANGED <<ans, behind>> => HistoryOK'
         /\ UNCHANGED budget => BudgetOK'
BY DEF TypeOK, MemoryOK, WorkOK, FilesOK, ServedOK, WorldOK, HistoryOK, BudgetOK,
       memory, files, served, world

LEMMA FaultType ==
  ASSUME BudgetOK, Fault(1) \/ Fault(2)
  PROVE  BudgetOK'
<1>1. PICK k \in {1, 2} : Fault(k)
  OBVIOUS
<1>2. budget.faults \in Nat /\ budget.faults - k \in Nat
  BY <1>1 DEF Fault, BudgetOK, Budget
<1>3. budget' = [budget EXCEPT !.faults = budget.faults - k]
  BY <1>1, Zenon DEF Fault
<1> QED
  BY <1>2, <1>3 DEF BudgetOK, Budget

LEMMA SpendType ==
  ASSUME BudgetOK, NEW move, Spend(move)
  PROVE  BudgetOK'
<1>1. budget.moves \in Nat /\ budget.moves - 1 \in Nat
  BY DEF Spend, BudgetOK, Budget
<1>2. budget' = [budget EXCEPT !.moves = budget.moves - 1]
  BY Zenon DEF Spend
<1> QED
  BY <1>1, <1>2 DEF BudgetOK, Budget

-----------------------------------------------------------------------------
(* What the operators on configurations preserve.                           *)

LEMMA ShareNotNone == None \notin Share
BY NoneAssumption

LEMMA ShareType ==
  ASSUME NEW c \in Config, NEW n \in Names, c[n] # None
  PROVE  /\ c[n] \in Share /\ c[n].fs \in Drives /\ c[n].path \in Paths
         /\ c[n].owner \in Users /\ c[n].cur \in Opt(Paths)
BY DEF Config, Opt, Share

(* The same shares, wherever their drives are. *)
SameShares(d, c) ==
  \A n \in Names :
    /\ d[n] = None <=> c[n] = None
    /\ c[n] # None => d[n].fs = c[n].fs /\ d[n].path = c[n].path /\ d[n].owner = c[n].owner

(* A configuration that gives each share of another a place. *)
LEMMA Placed ==
  ASSUME NEW c \in Config, NEW d, NEW where \in [Names -> Opt(Paths)],
         d = [n \in Names |-> IF c[n] = None THEN None ELSE [c[n] EXCEPT !.cur = where[n]]]
  PROVE  /\ d \in Config /\ SameShares(d, c)
         /\ \A n \in Names : c[n] # None => d[n] = [fs |-> c[n].fs, path |-> c[n].path,
                                                   owner |-> c[n].owner, cur |-> where[n]]
<1>1. ASSUME NEW s \in Share, NEW p \in Opt(Paths)
      PROVE  [s EXCEPT !.cur = p] = [fs |-> s.fs, path |-> s.path, owner |-> s.owner, cur |-> p]
  BY <1>1 DEF Share
<1>2. ASSUME NEW n \in Names, c[n] # None
      PROVE  d[n] = [fs |-> c[n].fs, path |-> c[n].path, owner |-> c[n].owner, cur |-> where[n]]
  <2>1. c[n] \in Share /\ where[n] \in Opt(Paths)
    BY <1>2, ShareType
  <2>2. d[n] = [c[n] EXCEPT !.cur = where[n]]
    BY <1>2
  <2> QED
    BY <1>1, <2>1, <2>2
<1>3. ASSUME NEW n \in Names, c[n] # None
      PROVE  d[n] \in Share
  BY <1>2, <1>3, ShareType DEF Share
<1>4. ASSUME NEW n \in Names, c[n] = None
      PROVE  d[n] = None
  BY <1>4
<1>5. d \in Config
  <2>1. \A n \in Names : d[n] \in Opt(Share)
    BY <1>3, <1>4 DEF Opt
  <2> QED
    BY <2>1 DEF Config
<1>6. SameShares(d, c)
  <2>1. \A n \in Names : d[n] = None <=> c[n] = None
    BY <1>3, <1>4, ShareNotNone
  <2> QED
    BY <1>2, <2>1 DEF SameShares
<1> QED
  BY <1>2, <1>5, <1>6

(* Looking for the drives changes neither names nor filesystems. *)
LEMMA RefreshedKeeps ==
  ASSUME NEW c \in Config, NEW r, mounted \in World
  PROVE  Refreshed(c, r) \in Config /\ SameShares(Refreshed(c, r), c)
<1> DEFINE where == [n \in Names |->
                       IF c[n] # None /\ r = "server" THEN mounted[c[n].fs] ELSE None]
<1>1. ASSUME NEW n \in Names PROVE where[n] \in Opt(Paths)
  <2>1. CASE c[n] # None
    BY <2>1, ShareType DEF World, Opt
  <2>2. CASE c[n] = None
    BY <2>2 DEF Opt
  <2> QED
    BY <2>1, <2>2
<1>2. where \in [Names -> Opt(Paths)]
  BY <1>1
<1>3. Refreshed(c, r) = [n \in Names |-> IF c[n] = None THEN None
                                          ELSE [c[n] EXCEPT !.cur = where[n]]]
  BY DEF Refreshed
<1> HIDE DEF where
<1> QED
  BY <1>2, <1>3, Placed

LEMMA ImageKeeps ==
  ASSUME NEW c \in Config
  PROVE  /\ Image(c) \in Config /\ SameShares(Image(c), c)
         /\ \A n \in Names : c[n] # None =>
              Image(c)[n] = [fs |-> c[n].fs, path |-> c[n].path,
                             owner |-> c[n].owner, cur |-> None]
<1> DEFINE where == [n \in Names |-> None]
<1>1. where \in [Names -> Opt(Paths)] /\ \A n \in Names : where[n] = None
  BY DEF Opt
<1>2. Image(c) = [n \in Names |-> IF c[n] = None THEN None
                                   ELSE [c[n] EXCEPT !.cur = where[n]]]
  BY DEF Image
<1> HIDE DEF where
<1> QED
  BY <1>1, <1>2, Placed

(* The file does not depend on where the drives are. *)
LEMMA SameImage ==
  ASSUME NEW c \in Config, NEW d \in Config, SameShares(d, c)
  PROVE  Image(d) = Image(c)
<1>1. ASSUME NEW n \in Names PROVE Image(d)[n] = Image(c)[n]
  <2>1. CASE c[n] = None
    BY <2>1 DEF SameShares, Image
  <2>2. CASE c[n] # None
    <3>1. d[n] # None /\ d[n].fs = c[n].fs /\ d[n].path = c[n].path /\ d[n].owner = c[n].owner
      BY <2>2 DEF SameShares
    <3>2. Image(c)[n] = [fs |-> c[n].fs, path |-> c[n].path, owner |-> c[n].owner, cur |-> None]
      BY <2>2, ImageKeeps
    <3>3. Image(d)[n] = [fs |-> d[n].fs, path |-> d[n].path, owner |-> d[n].owner, cur |-> None]
      BY <3>1, ImageKeeps
    <3> QED
      BY <3>1, <3>2, <3>3
  <2> QED
    BY <2>1, <2>2
<1> QED
  BY <1>1 DEF Image

LEMMA ImageOfRefreshed ==
  ASSUME NEW c \in Config, NEW r, mounted \in World
  PROVE  Image(Refreshed(c, r)) = Image(c)
BY RefreshedKeeps, SameImage

LEMMA ImageOfImage ==
  ASSUME NEW c \in Config
  PROVE  Image(Image(c)) = Image(c)
BY ImageKeeps, SameImage

LEMMA SameDistinct ==
  ASSUME NEW c, NEW d, SameShares(d, c), Distinct(c)
  PROVE  Distinct(d)
BY DEF SameShares, Distinct

LEMMA RenderedType ==
  ASSUME config \in Config, tailnet \in BOOLEAN
  PROVE  /\ Rendered \in Export /\ Installed \in Samba /\ Nothing \in Export
         /\ MountedAtBoot \subseteq Entry
<1>1. \A n \in Names : config[n] # None => config[n] \in Share
  BY DEF Config, Opt
<1>2. \A n \in Active(config) : /\ n \in Names /\ config[n].cur \in Paths
                                /\ config[n].owner \in Users
  BY <1>1 DEF Active, Share, Opt
<1>3. Lines(config) \subseteq Line /\ Sections(config) \subseteq Section
  BY <1>2 DEF Lines, Sections, Line, Section
<1>4. MountedAtBoot \subseteq Entry
  BY <1>1 DEF MountedAtBoot, Entry, Share
<1> QED
  BY <1>3, <1>4 DEF Rendered, Installed, Nothing, Export, Samba

-----------------------------------------------------------------------------
(* The work at hand.                                                        *)

LEMMA Order ==
  /\ \A s \in Surfaces : At(s) => s \in w.todo /\ "restore" \notin w.todo
  /\ ~(At("exports") /\ At("samba"))
  /\ w.todo \subseteq Stages /\ At("publish") => w.todo \subseteq {"publish", "stop"}
<1>1. /\ Rank["restore"] = 0 /\ Rank["config"] = 1 /\ Rank["fstab"] = 2 /\ Rank["exports"] = 3
      /\ Rank["samba"] = 4 /\ Rank["publish"] = 5 /\ Rank["stop"] = 6
  BY DEF Rank, Stages, Surfaces
<1> QED
  BY <1>1 DEF At, Stages, Surfaces

(* The fields of the work after each way of going on. *)
LEMMA TurnFields ==
  ASSUME WorkOK, NEW todo \in SUBSET Stages, NEW undo \in BOOLEAN,
         w' = [w EXCEPT !.undo = undo, !.todo = todo, !.loading = FALSE,
                        !.before = None, !.samba = None]
  PROVE  /\ WorkOK' /\ w'.op = w.op /\ w'.name = w.name /\ w'.old = w.old
         /\ w'.todo = todo /\ w'.undo = undo /\ ~w'.loading
<1>1. /\ w.op \in Ops /\ w.name \in Opt(Names) /\ w.old \in Opt(Config)
      /\ w = [op |-> w.op, name |-> w.name, todo |-> w.todo, loading |-> w.loading,
              undo |-> w.undo, old |-> w.old, before |-> w.before, samba |-> w.samba]
  BY DEF WorkOK, Worker
<1>2. w' = [op |-> w.op, name |-> w.name, todo |-> todo, loading |-> FALSE,
            undo |-> undo, old |-> w.old, before |-> None, samba |-> None]
  BY <1>1, Zenon
<1>3. None \in Opt(Export) /\ None \in Opt(Samba)
  BY DEF Opt
<1>4. w' \in Worker
  BY <1>1, <1>2, <1>3, Zenon DEF Worker
<1> QED
  BY <1>2, <1>4, Zenon DEF WorkOK

LEMMA LoadFields ==
  ASSUME WorkOK, NEW before \in Opt(Export), NEW samba \in Opt(Samba), ThenLoad(before, samba)
  PROVE  /\ WorkOK' /\ w'.op = w.op /\ w'.name = w.name /\ w'.old = w.old
         /\ w'.todo = w.todo /\ w'.undo = w.undo /\ w'.loading
         /\ UNCHANGED <<ans, behind>>
<1>1. /\ w.op \in Ops /\ w.name \in Opt(Names) /\ w.old \in Opt(Config)
      /\ w.todo \in SUBSET Stages /\ w.undo \in BOOLEAN
      /\ w = [op |-> w.op, name |-> w.name, todo |-> w.todo, loading |-> w.loading,
              undo |-> w.undo, old |-> w.old, before |-> w.before, samba |-> w.samba]
  BY DEF WorkOK, Worker
<1>2. /\ w' = [w EXCEPT !.loading = TRUE, !.before = before, !.samba = samba]
      /\ UNCHANGED <<ans, behind>>
  BY DEF ThenLoad
<1>3. w' = [op |-> w.op, name |-> w.name, todo |-> w.todo, loading |-> TRUE,
            undo |-> w.undo, old |-> w.old, before |-> before, samba |-> samba]
  BY <1>1, <1>2, Zenon
<1>4. w' \in Worker
  BY <1>1, <1>3, Zenon DEF Worker
<1> QED
  BY <1>2, <1>3, <1>4, Zenon DEF WorkOK

LEMMA BeginFields ==
  ASSUME NEW op \in Ops, NEW name \in Opt(Names), NEW old \in Opt(Config),
         NEW todo \in SUBSET Stages, Begin(op, name, old, todo)
  PROVE  /\ WorkOK' /\ w'.op = op /\ w'.name = name /\ w'.old = old
         /\ w'.todo = todo /\ ~w'.undo /\ ~w'.loading
<1>1. w' = [op |-> op, name |-> name, todo |-> todo, loading |-> FALSE,
            undo |-> FALSE, old |-> old, before |-> None, samba |-> None]
  BY Zenon DEF Begin, Idle
<1>2. None \in Opt(Export) /\ None \in Opt(Samba)
  BY DEF Opt
<1>3. w' \in Worker
  BY <1>1, <1>2, Zenon DEF Worker
<1> QED
  BY <1>1, <1>3, Zenon DEF WorkOK

(* What an idle or stopped worker satisfies. *)
WorkInv == WorkOK /\ HistoryOK /\ WorkIsDue /\ OldIsKept /\ Phases /\ LoadsWritten

LEMMA DownType ==
  /\ Down \in Worker /\ Down.op = "down" /\ Down.todo = {} /\ ~Down.undo /\ ~Down.loading
<1>1. PICK nothing \in SUBSET Stages : nothing = {}
  OBVIOUS
<1>2. Down = [[op |-> "idle", name |-> None, todo |-> nothing, loading |-> FALSE, undo |-> FALSE,
               old |-> None, before |-> None, samba |-> None] EXCEPT !.op = "down"]
  BY <1>1 DEF Down, Idle
<1>3. Down = [op |-> "down", name |-> None, todo |-> nothing, loading |-> FALSE, undo |-> FALSE,
              old |-> None, before |-> None, samba |-> None]
  BY <1>2, Zenon
<1>4. /\ None \in Opt(Names) /\ None \in Opt(Config) /\ None \in Opt(Export)
      /\ None \in Opt(Samba) /\ "down" \in Ops
  BY DEF Opt, Ops
<1>5. Down \in Worker
  BY <1>3, <1>4, Zenon DEF Worker
<1>6. Down.op = "down" /\ Down.todo = nothing /\ ~Down.undo /\ ~Down.loading
  BY <1>3, Zenon
<1> QED
  BY <1>1, <1>5, <1>6

LEMMA RestFields ==
  ASSUME w' = Idle \/ w' = Down
  PROVE  /\ WorkOK' /\ w'.op \in {"idle", "down"}
         /\ w'.todo = {} /\ ~w'.undo /\ ~w'.loading
<1>1. PICK todo \in SUBSET Stages : todo = {}
  OBVIOUS
<1>2. /\ None \in Opt(Names) /\ None \in Opt(Config) /\ None \in Opt(Export)
      /\ None \in Opt(Samba) /\ "idle" \in Ops /\ "down" \in Ops
  BY DEF Opt, Ops
<1> DEFINE r(op) == [op |-> op, name |-> None, todo |-> todo, loading |-> FALSE,
                     undo |-> FALSE, old |-> None, before |-> None, samba |-> None]
<1>3. Idle = r("idle")
  BY <1>1 DEF Idle
<1>4. Down = r("down")
  <2>1. Down = [r("idle") EXCEPT !.op = "down"]
    BY <1>3 DEF Down
  <2> QED
    BY <2>1, Zenon
<1>5. PICK op \in {"idle", "down"} : w' = r(op)
  BY <1>3, <1>4
<1>6. op \in Ops
  BY <1>2, <1>5
<1>7. r(op) \in Worker
  BY <1>2, <1>6, Zenon DEF Worker
<1>8. w'.op = op /\ w'.todo = todo /\ ~w'.undo /\ ~w'.loading
  BY <1>5, Zenon
<1> QED
  BY <1>1, <1>5, <1>7, <1>8 DEF WorkOK

LEMMA AtRest ==
  ASSUME w' = Idle \/ w' = Down, HistoryOK'
  PROVE  WorkInv'
BY RestFields DEF WorkInv, WorkOK, WorkIsDue, OldIsKept, Changing, Phases, LoadsWritten

LEMMA ContinueFields ==
  ASSUME WorkOK, NEW rest \in SUBSET Stages, rest # {}, Continue(rest)
  PROVE  /\ WorkOK' /\ w'.op = w.op /\ w'.name = w.name /\ w'.old = w.old
         /\ w'.todo = rest /\ w'.undo = w.undo /\ ~w'.loading
         /\ UNCHANGED ans
<1>1. /\ w' = [w EXCEPT !.todo = rest, !.loading = FALSE, !.before = None, !.samba = None]
      /\ UNCHANGED ans
  BY DEF Continue
<1>2. /\ w.undo \in BOOLEAN
      /\ w = [op |-> w.op, name |-> w.name, todo |-> w.todo, loading |-> w.loading,
              undo |-> w.undo, old |-> w.old, before |-> w.before, samba |-> w.samba]
  BY DEF WorkOK, Worker
<1>3. w' = [w EXCEPT !.undo = w.undo, !.todo = rest, !.loading = FALSE,
                     !.before = None, !.samba = None]
  BY <1>1, <1>2, Zenon
<1> QED
  BY <1>1, <1>2, <1>3, TurnFields

LEMMA AnswerType ==
  ASSUME WorkInv, w' = Idle,
         ans' = IF Changing THEN [op |-> w.op, name |-> w.name, ok |-> ~w.undo] ELSE ans
  PROVE  ans' \in Opt(Answer)
<1>1. CASE Changing
  <2>1. w.op \in {"share", "unshare"} /\ w.name \in Names /\ w.undo \in BOOLEAN
    BY <1>1 DEF WorkInv, OldIsKept, Changing, WorkOK, Worker
  <2>2. PICK ok \in BOOLEAN : ok = ~w.undo
    BY <2>1
  <2>3. ans' = [op |-> w.op, name |-> w.name, ok |-> ok]
    BY <1>1, <2>2
  <2>4. ASSUME NEW op \in {"share", "unshare"}, NEW n \in Names, NEW b \in BOOLEAN
        PROVE  [op |-> op, name |-> n, ok |-> b] \in Answer
    BY <2>4 DEF Answer
  <2>5. ans' \in Answer
    BY <2>1, <2>2, <2>3, <2>4
  <2> QED
    BY <2>5 DEF Opt
<1>2. CASE ~Changing
  BY <1>2 DEF WorkInv, HistoryOK
<1> QED
  BY <1>1, <1>2

(* A surface was dealt with, well or badly, and the work goes on. *)
LEMMA ContinueKeeps ==
  ASSUME WorkInv, NEW s \in Surfaces, At(s), Continue(w.todo \ {s}),
         behind' = behind \/ behind' = behind \ {s}
  PROVE  WorkInv'
<1>1. behind' \subseteq Surfaces
  BY DEF WorkInv, HistoryOK
<1>2. CASE w.todo \ {s} = {}
  <2>1. w' = Idle /\ ans' = IF Changing THEN [op |-> w.op, name |-> w.name, ok |-> ~w.undo] ELSE ans
    BY <1>2 DEF Continue
  <2>2. HistoryOK'
    BY <1>1, <2>1, AnswerType DEF HistoryOK
  <2> QED
    BY <2>1, <2>2, AtRest
<1>3. CASE w.todo \ {s} # {}
  <2>1. w.todo \subseteq Stages
    BY DEF WorkInv, WorkOK, Worker
  <2>2. /\ WorkOK' /\ w'.op = w.op /\ w'.name = w.name /\ w'.old = w.old
        /\ w'.todo = w.todo \ {s} /\ w'.undo = w.undo /\ ~w'.loading
        /\ UNCHANGED ans
    BY <1>3, <2>1, ContinueFields DEF WorkInv
  <2>3. HistoryOK'
    BY <1>1, <2>2 DEF WorkInv, HistoryOK
  <2>4. s \in w.todo /\ "restore" \notin w.todo
    BY Order
  <2>5. WorkIsDue'
    BY <2>2, <2>4 DEF WorkInv, WorkIsDue
  <2>6. ASSUME Changing PROVE s # "publish"
    <3>1. SUFFICES ASSUME s = "publish" PROVE FALSE
      OBVIOUS
    <3>2. w.todo \subseteq {"publish", "stop"}
      BY <2>1, <3>1, Order
    <3>3. "stop" \notin w.todo
      BY <2>6 DEF WorkInv, Phases, Rollback, Surfaces
    <3> QED
      BY <1>3, <3>1, <3>2, <3>3
  <2>7. OldIsKept'
    BY <2>2, <2>6 DEF WorkInv, OldIsKept, Changing, Distinct
  <2>8. Phases'
    BY <2>2, <2>6 DEF WorkInv, Phases, Changing
  <2>9. LoadsWritten'
    BY <2>2 DEF LoadsWritten
  <2> QED
    BY <2>2, <2>3, <2>5, <2>7, <2>8, <2>9 DEF WorkInv
<1> QED
  BY <1>2, <1>3

LEMMA DoKeeps ==
  ASSUME WorkInv, NEW s \in Surfaces, At(s), Do(s)
  PROVE  WorkInv' /\ behind' = behind \ {s}
BY ContinueKeeps DEF Do

LEMMA FailKeeps ==
  ASSUME WorkInv, NEW s \in Surfaces, At(s), Fail(s)
  PROVE  WorkInv' /\ behind' = behind
<1>1. behind' = behind /\ w.undo \in BOOLEAN
  BY DEF Fail, WorkInv, WorkOK, Worker
<1>2. CASE w.undo
  BY <1>1, <1>2, ContinueKeeps DEF Fail
<1>3. CASE ~w.undo /\ Changing
  <2>1. Turn(Rollback, TRUE)
    BY <1>3 DEF Fail
  <2>2. Rollback \in SUBSET Stages
    BY DEF Rollback, Stages, Surfaces
  <2>3. /\ WorkOK' /\ w'.op = w.op /\ w'.name = w.name /\ w'.old = w.old
        /\ w'.todo = Rollback /\ w'.undo /\ ~w'.loading /\ UNCHANGED ans
    BY <2>1, <2>2, TurnFields DEF Turn, WorkInv
  <2> QED
    BY <1>1, <1>3, <2>3 DEF WorkInv, HistoryOK, WorkIsDue, OldIsKept, Distinct, Changing,
                            Phases, Rollback, LoadsWritten
<1>4. CASE ~w.undo /\ ~Changing /\ w.op = "pass"
  <2>1. Turn({"stop"}, FALSE)
    BY <1>4 DEF Fail
  <2>2. {"stop"} \in SUBSET Stages
    BY DEF Stages
  <2>3. /\ WorkOK' /\ w'.op = w.op /\ w'.name = w.name /\ w'.old = w.old
        /\ w'.todo = {"stop"} /\ ~w'.undo /\ ~w'.loading /\ UNCHANGED ans
    BY <2>1, <2>2, TurnFields DEF Turn, WorkInv
  <2> QED
    BY <1>1, <1>4, <2>3 DEF WorkInv, HistoryOK, WorkIsDue, Writing, OldIsKept, Changing,
                            Phases, LoadsWritten
<1>5. CASE ~w.undo /\ ~Changing /\ w.op # "pass"
  <2>1. w' = Idle /\ UNCHANGED ans
    BY <1>5 DEF Fail
  <2> QED
    BY <1>1, <2>1, AtRest DEF WorkInv, HistoryOK
<1> QED
  BY <1>1, <1>2, <1>3, <1>4, <1>5

(* The second half of a surface follows with what the first half wrote. *)
LEMMA LoadKeeps ==
  ASSUME WorkInv, NEW before \in Opt(Export), NEW samba \in Opt(Samba),
         ThenLoad(before, samba),
         At("exports") => exports' = Rendered' ,
         At("samba") => smb' = Installed'
  PROVE  WorkInv' /\ behind' = behind
<1>1. /\ WorkOK' /\ w'.op = w.op /\ w'.name = w.name /\ w'.old = w.old
      /\ w'.todo = w.todo /\ w'.undo = w.undo /\ w'.loading
      /\ UNCHANGED <<ans, behind>>
  BY LoadFields DEF WorkInv
<1>2. HistoryOK' /\ WorkIsDue' /\ OldIsKept' /\ Phases'
  BY <1>1 DEF WorkInv, HistoryOK, WorkIsDue, OldIsKept, Distinct, Changing, Phases
<1>3. LoadsWritten'
  BY <1>1 DEF LoadsWritten, At
<1> QED
  BY <1>1, <1>2, <1>3 DEF WorkInv

(* An operation begins, its surfaces due. *)
LEMMA BeginKeeps ==
  ASSUME NEW op \in Ops \ {"share", "unshare"}, NEW todo \in SUBSET Surfaces,
         Begin(op, None, None, todo),
         todo \cap Writing \subseteq behind', behind' \subseteq Surfaces,
         ans' \in Opt(Answer)
  PROVE  WorkInv'
<1>1. None \in Opt(Names) /\ None \in Opt(Config) /\ todo \in SUBSET Stages
  BY DEF Opt, Stages
<1>2. /\ WorkOK' /\ w'.op = op /\ w'.todo = todo /\ ~w'.undo /\ ~w'.loading
  BY <1>1, BeginFields
<1> QED
  BY <1>2 DEF WorkInv, HistoryOK, WorkIsDue, OldIsKept, Changing, Phases, LoadsWritten, Surfaces

LEMMA RequestKeeps ==
  ASSUME NEW op \in {"share", "unshare"}, NEW n \in Names, NEW old \in Config, Distinct(old),
         Begin(op, n, old, Surfaces), behind' = Surfaces, ans' = None
  PROVE  WorkInv'
<1>1. op \in Ops /\ n \in Opt(Names) /\ old \in Opt(Config) /\ Surfaces \in SUBSET Stages
  BY DEF Opt, Stages, Ops
<1>2. /\ WorkOK' /\ w'.op = op /\ w'.name = n /\ w'.old = old
      /\ w'.todo = Surfaces /\ ~w'.undo /\ ~w'.loading
  BY <1>1, BeginFields
<1> QED
  BY <1>2 DEF WorkInv, HistoryOK, WorkIsDue, OldIsKept, Distinct, Changing, Phases,
              LoadsWritten, Surfaces, Opt

-----------------------------------------------------------------------------
(* The whole invariant, part by part.                                       *)

LEMMA Now ==
  Core <=> /\ MemoryOK /\ FilesOK /\ ServedOK /\ WorldOK /\ BudgetOK /\ WorkInv
           /\ ConfigAgrees /\ FstabAgrees /\ ExportsAgrees /\ SambaAgrees /\ PublishAgrees
           /\ Distinct(config) /\ Distinct(disk) /\ DiskIsImage
BY Parts DEF Core, SurfacesAgree, OneNamePerDrive, LocalsOK, WorkInv

LEMMA Then ==
  Core' <=> /\ MemoryOK' /\ FilesOK' /\ ServedOK' /\ WorldOK' /\ BudgetOK' /\ WorkInv'
            /\ ConfigAgrees' /\ FstabAgrees' /\ ExportsAgrees' /\ SambaAgrees' /\ PublishAgrees'
            /\ Distinct(config)' /\ Distinct(disk)' /\ DiskIsImage'
BY PartsNext DEF Core, SurfacesAgree, OneNamePerDrive, LocalsOK, WorkInv

(* What the surfaces should hold depends on nothing else. *)
LEMMA SameContent ==
  /\ UNCHANGED config => Image(config)' = Image(config) /\ Active(config)' = Active(config)
  /\ UNCHANGED <<config, tailnet>> => UNCHANGED Rendered
  /\ UNCHANGED config => UNCHANGED Installed
  /\ UNCHANGED <<config, role>> => UNCHANGED MountedAtBoot
  /\ UNCHANGED <<config, role>> => (Publishable' <=> Publishable)
  /\ UNCHANGED <<config, smb>> => (Unneeded' <=> Unneeded)
BY DEF Image, Active, Rendered, Lines, Installed, Sections, MountedAtBoot, Publishable, Unneeded

(* A surface nobody touched still agrees, but for the one just done. *)
LEMMA StillAgrees ==
  ASSUME SurfacesAgree, NEW s \in Surfaces, behind \subseteq behind' \cup {s}
  PROVE  /\ s # "config" /\ UNCHANGED <<disk, config>> => ConfigAgrees'
         /\ s # "fstab" /\ UNCHANGED <<fstab, config, role>> => FstabAgrees'
         /\ s # "exports" /\ UNCHANGED <<exports, kernel, config, tailnet>> => ExportsAgrees'
         /\ s # "samba" /\ UNCHANGED <<smb, smbd, config>> => SambaAgrees'
         /\ s # "publish" /\ UNCHANGED <<publisher, config, role>> => PublishAgrees'
<1>1. s # "config" /\ UNCHANGED <<disk, config>> => ConfigAgrees'
  BY SameContent DEF SurfacesAgree, ConfigAgrees
<1>2. s # "fstab" /\ UNCHANGED <<fstab, config, role>> => FstabAgrees'
  BY SameContent DEF SurfacesAgree, FstabAgrees
<1>3. s # "exports" /\ UNCHANGED <<exports, kernel, config, tailnet>> => ExportsAgrees'
  BY SameContent DEF SurfacesAgree, ExportsAgrees
<1>4. s # "samba" /\ UNCHANGED <<smb, smbd, config>> => SambaAgrees'
  BY SameContent DEF SurfacesAgree, SambaAgrees, View
<1>5. s # "publish" /\ UNCHANGED <<publisher, config, role>> => PublishAgrees'
  BY SameContent DEF SurfacesAgree, PublishAgrees
<1> QED
  BY <1>1, <1>2, <1>3, <1>4, <1>5

LEMMA AllStillAgree ==
  ASSUME SurfacesAgree, behind \subseteq behind'
  PROVE  /\ UNCHANGED <<disk, config>> => ConfigAgrees'
         /\ UNCHANGED <<fstab, config, role>> => FstabAgrees'
         /\ UNCHANGED <<exports, kernel, config, tailnet>> => ExportsAgrees'
         /\ UNCHANGED <<smb, smbd, config>> => SambaAgrees'
         /\ UNCHANGED <<publisher, config, role>> => PublishAgrees'
<1>1. behind \subseteq behind' \cup {"config"} /\ behind \subseteq behind' \cup {"fstab"}
  OBVIOUS
<1>2. "config" \in Surfaces /\ "fstab" \in Surfaces
  BY DEF Surfaces
<1> QED
  BY <1>1, <1>2, StillAgrees

(* A surface that is behind may hold anything. *)
LEMMA Behind ==
  /\ "config" \in behind' => ConfigAgrees'
  /\ "fstab" \in behind' => FstabAgrees'
  /\ "exports" \in behind' => ExportsAgrees'
  /\ "samba" \in behind' => SambaAgrees'
  /\ "publish" \in behind' => PublishAgrees'
BY DEF ConfigAgrees, FstabAgrees, ExportsAgrees, SambaAgrees, PublishAgrees

LEMMA SameNames ==
  ASSUME Core
  PROVE  /\ UNCHANGED config => Distinct(config)'
         /\ UNCHANGED disk => Distinct(disk)' /\ DiskIsImage'
BY Now DEF Distinct, DiskIsImage, Image

(* Every surface an operation is about to bring up to date is behind. *)
LEMMA DueNow ==
  ASSUME Core, NEW s \in Writing, At(s)
  PROVE  s \in behind /\ s \in Surfaces
BY Now, Order DEF Writing, Surfaces, WorkInv, WorkIsDue

LEMMA Ending ==
  ASSUME Core, NEW s \in Surfaces, At(s), Do(s) \/ Fail(s)
  PROVE  WorkInv' /\ behind \subseteq behind' \cup {s} /\ (Fail(s) => behind' = behind)
BY Now, DoKeeps, FailKeeps

LEMMA BudgetKept ==
  ASSUME Core, NoFault \/ Fault(1) \/ Fault(2)
  PROVE  BudgetOK'
BY Now, Unchanged, FaultType DEF NoFault, Core

-----------------------------------------------------------------------------
(* The steps keep the invariant.                                            *)

LEMMA SaveConfigKeeps ==
  ASSUME Core, SaveConfig PROVE Core'
<1>1. At("config") /\ UNCHANGED <<memory, fstab, exports, smb, served, world>>
  BY DEF SaveConfig
<1>2. WorkInv' /\ behind \subseteq behind' \cup {"config"} /\ BudgetOK'
  BY <1>1, Ending, BudgetKept DEF SaveConfig, Surfaces
<1>3. MemoryOK' /\ ServedOK' /\ WorldOK'
  BY <1>1, Unchanged DEF Core
<1>4. FstabAgrees' /\ ExportsAgrees' /\ SambaAgrees' /\ PublishAgrees' /\ Distinct(config)'
  BY <1>1, <1>2, StillAgrees, SameNames DEF Core, memory, served, Surfaces
<1>5. FilesOK' /\ ConfigAgrees' /\ Distinct(disk)' /\ DiskIsImage'
  <2>1. CASE disk' = Image(config)
    <3>1. config \in Config /\ Distinct(config) /\ config' = config
      BY <1>1, Now DEF MemoryOK, memory
    <3>2. /\ disk' \in Config /\ Distinct(disk)' /\ Image(disk') = disk'
          /\ disk' = Image(config')
      BY <2>1, <3>1, ImageKeeps, SameDistinct, ImageOfImage DEF Distinct
    <3> QED
      BY <1>1, <3>2, Now DEF FilesOK, ConfigAgrees, DiskIsImage, Image
  <2>2. CASE UNCHANGED disk /\ Fail("config")
    <3>1. "config" \in behind'
      BY <1>1, <2>2, DueNow, Ending DEF Writing, Surfaces
    <3> QED
      BY <1>1, <2>2, <3>1, Behind, SameNames, Now DEF FilesOK
  <2> QED
    BY <2>1, <2>2 DEF SaveConfig
<1> QED
  BY <1>2, <1>3, <1>4, <1>5, Then

LEMMA SyncFstabKeeps ==
  ASSUME Core, SyncFstab PROVE Core'
<1>1. At("fstab") /\ UNCHANGED <<memory, disk, exports, smb, served, world>>
  BY DEF SyncFstab
<1>2. WorkInv' /\ behind \subseteq behind' \cup {"fstab"} /\ BudgetOK'
  BY <1>1, Ending, BudgetKept DEF SyncFstab, Surfaces
<1>3. MemoryOK' /\ ServedOK' /\ WorldOK'
  BY <1>1, Unchanged DEF Core
<1>4. /\ ConfigAgrees' /\ ExportsAgrees' /\ SambaAgrees' /\ PublishAgrees'
      /\ Distinct(config)' /\ Distinct(disk)' /\ DiskIsImage'
  BY <1>1, <1>2, StillAgrees, SameNames DEF Core, memory, served, Surfaces
<1>5. FilesOK' /\ FstabAgrees'
  <2>1. CASE fstab' = MountedAtBoot
    <3>1. MountedAtBoot \subseteq Entry /\ UNCHANGED MountedAtBoot
      BY <1>1, Now, RenderedType, SameContent DEF MemoryOK, memory
    <3> QED
      BY <1>1, <2>1, <3>1, Now DEF FilesOK, FstabAgrees
  <2>2. CASE UNCHANGED fstab /\ Fail("fstab")
    <3>1. "fstab" \in behind'
      BY <1>1, <2>2, DueNow, Ending DEF Writing, Surfaces
    <3> QED
      BY <1>1, <2>2, <3>1, Behind, Now DEF FilesOK
  <2> QED
    BY <2>1, <2>2 DEF SyncFstab
<1> QED
  BY <1>2, <1>3, <1>4, <1>5, Then

LEMMA RestoreWork ==
  ASSUME Core, Restore PROVE WorkInv' /\ {"fstab", "exports", "samba", "publish"} \subseteq behind'
<1>1. /\ At("restore") /\ "restore" \in w.todo /\ Continue(w.todo \ {"restore"})
      /\ w.todo \subseteq Stages
  BY Now DEF Restore, At, WorkInv, WorkOK, Worker
<1>2. Changing /\ w.undo /\ w.todo \subseteq Rollback
  BY <1>1, Now DEF WorkInv, Phases, WorkOK, Worker, Surfaces
<1>3. "publish" \in behind /\ behind \subseteq Surfaces
  BY <1>2, Now DEF WorkInv, OldIsKept, HistoryOK
<1>4. /\ behind' \subseteq Surfaces
      /\ {"fstab", "exports", "samba", "publish"} \subseteq behind'
  BY <1>3 DEF Restore, Surfaces
<1>5. CASE w.todo \ {"restore"} = {}
  <2>1. w' = Idle /\ ans' = IF Changing THEN [op |-> w.op, name |-> w.name, ok |-> ~w.undo] ELSE ans
    BY <1>1, <1>5 DEF Continue
  <2>2. HistoryOK'
    BY <1>4, <2>1, AnswerType, Now DEF HistoryOK
  <2> QED
    BY <1>4, <2>1, <2>2, AtRest
<1>6. CASE w.todo \ {"restore"} # {}
  <2>1. /\ WorkOK' /\ w'.op = w.op /\ w'.name = w.name /\ w'.old = w.old
        /\ w'.todo = w.todo \ {"restore"} /\ w'.undo = w.undo /\ ~w'.loading
        /\ UNCHANGED ans
    BY <1>1, <1>6, ContinueFields, Now DEF WorkInv
  <2>2. HistoryOK' /\ LoadsWritten'
    BY <1>4, <2>1, Now DEF WorkInv, HistoryOK, LoadsWritten
  <2>3. WorkIsDue'
    BY <1>2, <1>4, <2>1 DEF WorkIsDue, Rollback
  <2>4. OldIsKept'
    BY <1>4, <2>1, Now DEF WorkInv, OldIsKept, Changing, Distinct
  <2>5. Phases'
    BY <1>2, <2>1 DEF Phases, Changing
  <2> QED
    BY <1>4, <2>1, <2>2, <2>3, <2>4, <2>5 DEF WorkInv
<1> QED
  BY <1>5, <1>6

LEMMA RestoreKeeps ==
  ASSUME Core, Restore PROVE Core'
<1>1. /\ At("restore") /\ "restore" \in w.todo /\ config' = Refreshed(w.old, role)
      /\ UNCHANGED <<role, tailnet, fstab, exports, smb, served, world>>
  BY DEF Restore, At
<1>2. WorkInv' /\ {"fstab", "exports", "samba", "publish"} \subseteq behind'
  BY RestoreWork
<1>3. FstabAgrees' /\ ExportsAgrees' /\ SambaAgrees' /\ PublishAgrees'
  BY <1>2, Behind
<1>4. w.old \in Config /\ Distinct(w.old) /\ mounted \in World
  BY <1>1, Now DEF WorkInv, Phases, OldIsKept, WorldOK
<1>5. /\ config' \in Config /\ Distinct(config)' /\ Image(config') = Image(w.old)
  BY <1>1, <1>4, RefreshedKeeps, SameDistinct, ImageOfRefreshed DEF Distinct
<1>6. MemoryOK' /\ ServedOK' /\ WorldOK'
  BY <1>1, <1>5, Unchanged, Now DEF Core, MemoryOK
<1>7. FilesOK' /\ ConfigAgrees' /\ Distinct(disk)' /\ DiskIsImage' /\ BudgetOK'
  <2>1. CASE disk' = Image(w.old) /\ NoFault
    <3>1. disk' \in Config /\ Distinct(disk)' /\ Image(disk') = disk' /\ disk' = Image(config')
      BY <1>4, <1>5, <2>1, ImageKeeps, SameDistinct, ImageOfImage DEF Distinct
    <3> QED
      BY <1>1, <2>1, <3>1, BudgetKept, Now DEF FilesOK, ConfigAgrees, DiskIsImage, Image
  <2>2. CASE Fault(1) /\ UNCHANGED disk /\ "config" \in behind'
    BY <1>1, <2>2, Behind, SameNames, BudgetKept, Now DEF FilesOK
  <2> QED
    BY <2>1, <2>2 DEF Restore
<1> QED
  BY <1>2, <1>3, <1>5, <1>6, <1>7, Then

LEMMA WriteExportsKeeps ==
  ASSUME Core, WriteExports PROVE Core'
<1>1. At("exports") /\ UNCHANGED <<memory, disk, fstab, smb, served, world>>
  BY DEF WriteExports
<1>2. "exports" \in behind /\ "exports" \in Surfaces
  BY <1>1, DueNow DEF Writing
<1>3. Rendered \in Export /\ UNCHANGED Rendered /\ exports \in Export
  BY <1>1, Now, RenderedType, SameContent DEF MemoryOK, FilesOK, memory
<1>4. MemoryOK' /\ ServedOK' /\ WorldOK' /\ BudgetOK' /\ exports' \in Export
  BY <1>1, <1>3, Unchanged, BudgetKept DEF Core, WriteExports
<1>5. FilesOK'
  BY <1>1, <1>4, Now DEF FilesOK
<1>6. WorkInv' /\ behind \subseteq behind' \cup {"exports"} /\ ExportsAgrees'
  <2>1. CASE exports' = Rendered /\ ThenLoad(IF exports = Rendered THEN None ELSE exports, None)
    <3>1. (IF exports = Rendered THEN None ELSE exports) \in Opt(Export) /\ None \in Opt(Samba)
      BY <1>3 DEF Opt
    <3>2. exports' = Rendered' /\ ~At("samba")
      BY <1>1, <1>3, <2>1, Order
    <3>3. WorkInv' /\ behind' = behind
      BY <2>1, <3>1, <3>2, LoadKeeps, Now
    <3> QED
      BY <1>2, <3>3, Behind
  <2>2. CASE exports' = Rendered /\ ~ReloadNeeded /\ Do("exports")
    <3>1. WorkInv' /\ behind \subseteq behind' \cup {"exports"}
      BY <1>1, <1>2, <2>2, Ending
    <3>2. exports' = Rendered' /\ Active(config)' = {}
      BY <1>1, <1>3, <2>2, SameContent DEF ReloadNeeded, memory
    <3> QED
      BY <3>1, <3>2 DEF ExportsAgrees
  <2>3. CASE Fail("exports")
    <3>1. WorkInv' /\ behind' = behind
      BY <1>1, <1>2, <2>3, Ending
    <3> QED
      BY <1>2, <3>1, Behind
  <2> QED
    BY <2>1, <2>2, <2>3 DEF WriteExports
<1>7. /\ ConfigAgrees' /\ FstabAgrees' /\ SambaAgrees' /\ PublishAgrees'
      /\ Distinct(config)' /\ Distinct(disk)' /\ DiskIsImage'
  BY <1>1, <1>2, <1>6, StillAgrees, SameNames DEF Core, memory, served
<1> QED
  BY <1>4, <1>5, <1>6, <1>7, Then

LEMMA ReloadExportsKeeps ==
  ASSUME Core, ReloadExports PROVE Core'
<1>1. /\ At("exports") /\ w.loading
      /\ UNCHANGED <<memory, disk, fstab, smb, smbd, publisher, world>>
  BY DEF ReloadExports
<1>2. "exports" \in behind /\ "exports" \in Surfaces
  BY <1>1, DueNow DEF Writing
<1>3. exports = Rendered /\ UNCHANGED Rendered /\ exports \in Export /\ kernel \in Export
  BY <1>1, Now, SameContent DEF WorkInv, LoadsWritten, FilesOK, ServedOK, memory
<1>4. w.before # None => w.before \in Export
  BY Now DEF WorkInv, WorkOK, Worker, Opt
<1>5. exports' \in Export /\ kernel' \in Export
  BY <1>3, <1>4 DEF ReloadExports
<1>6. MemoryOK' /\ WorldOK' /\ BudgetOK'
  BY <1>1, Unchanged, BudgetKept DEF Core, ReloadExports
<1>7. FilesOK' /\ ServedOK'
  BY <1>1, <1>5, Now DEF FilesOK, ServedOK
<1>8. WorkInv' /\ behind \subseteq behind' \cup {"exports"} /\ ExportsAgrees'
  <2>1. CASE kernel' = exports /\ Do("exports") /\ UNCHANGED exports
    <3>1. WorkInv' /\ behind \subseteq behind' \cup {"exports"}
      BY <1>1, <1>2, <2>1, Ending
    <3> QED
      BY <1>3, <2>1, <3>1 DEF ExportsAgrees
  <2>2. CASE Fail("exports")
    <3>1. WorkInv' /\ behind' = behind
      BY <1>1, <1>2, <2>2, Ending
    <3> QED
      BY <1>2, <3>1, Behind
  <2> QED
    BY <2>1, <2>2 DEF ReloadExports
<1>9. /\ ConfigAgrees' /\ FstabAgrees' /\ SambaAgrees' /\ PublishAgrees'
      /\ Distinct(config)' /\ Distinct(disk)' /\ DiskIsImage'
  BY <1>1, <1>2, <1>8, StillAgrees, SameNames DEF Core, memory
<1> QED
  BY <1>6, <1>7, <1>8, <1>9, Then

LEMMA SambaTypes ==
  ASSUME NEW a \in Samba, NEW b \in Samba
  PROVE  Mixed(a, b) \subseteq Samba /\ View(a) \subseteq Section
<1>1. ASSUME NEW f \in Samba, NEW m \in Samba
      PROVE  [exists |-> f.exists, include |-> f.include, registered |-> m.registered] \in Samba
  <2>1. f.exists \in BOOLEAN /\ f.include \in SUBSET Section /\ m.registered \in BOOLEAN
    BY <1>1 DEF Samba
  <2> QED
    BY <2>1, Zenon DEF Samba
<1>2. Mixed(a, b) \subseteq Samba
  BY <1>1 DEF Mixed
<1>3. View(a) \subseteq Section
  BY DEF View, Samba
<1> QED
  BY <1>2, <1>3

LEMMA InstallSambaKeeps ==
  ASSUME Core, InstallSamba PROVE Core'
<1>1. At("samba") /\ UNCHANGED <<memory, disk, fstab, exports, kernel, publisher, world>>
  BY DEF InstallSamba
<1>2. "samba" \in behind /\ "samba" \in Surfaces
  BY <1>1, DueNow DEF Writing
<1>3. Installed \in Samba /\ UNCHANGED Installed /\ smb \in Samba /\ smbd \in SUBSET Section
  BY <1>1, Now, RenderedType, SameContent DEF MemoryOK, FilesOK, ServedOK, memory
<1>4. MemoryOK' /\ WorldOK' /\ BudgetOK'
  BY <1>1, Unchanged, BudgetKept DEF Core, InstallSamba
<1>5. smb' \in Samba /\ smbd' \in SUBSET Section
  <2>1. Mixed(smb, Installed) \subseteq Samba /\ View(smb) \subseteq Section
    BY <1>3, SambaTypes
  <2> QED
    BY <1>3, <2>1 DEF InstallSamba
<1>6. FilesOK' /\ ServedOK'
  BY <1>1, <1>5, Now DEF FilesOK, ServedOK
<1>7. WorkInv' /\ behind \subseteq behind' \cup {"samba"} /\ SambaAgrees'
  <2>1. CASE Unneeded /\ Do("samba") /\ UNCHANGED smb
    <3>1. WorkInv' /\ behind \subseteq behind' \cup {"samba"}
      BY <1>1, <1>2, <2>1, Ending
    <3>2. Unneeded'
      BY <1>1, <2>1, SameContent DEF memory
    <3> QED
      BY <3>1, <3>2 DEF SambaAgrees
  <2>2. CASE smb' = Installed /\ ThenLoad(None, IF smb = Installed THEN None ELSE smb)
    <3>1. (IF smb = Installed THEN None ELSE smb) \in Opt(Samba) /\ None \in Opt(Export)
      BY <1>3 DEF Opt
    <3>2. smb' = Installed' /\ ~At("exports")
      BY <1>1, <1>3, <2>2, Order
    <3>3. WorkInv' /\ behind' = behind
      BY <2>2, <3>1, <3>2, LoadKeeps, Now
    <3> QED
      BY <1>2, <3>3, Behind
  <2>3. CASE smb' = Installed /\ ~LoadNeeded /\ Do("samba")
    <3>1. WorkInv' /\ behind \subseteq behind' \cup {"samba"}
      BY <1>1, <1>2, <2>3, Ending
    <3>2. smb' = Installed' /\ Active(config)' = {}
      BY <1>1, <1>3, <2>3, SameContent DEF LoadNeeded, memory
    <3> QED
      BY <3>1, <3>2 DEF SambaAgrees
  <2>4. CASE Fail("samba")
    <3>1. WorkInv' /\ behind' = behind
      BY <1>1, <1>2, <2>4, Ending
    <3> QED
      BY <1>2, <3>1, Behind
  <2> QED
    BY <2>1, <2>2, <2>3, <2>4 DEF InstallSamba
<1>8. /\ ConfigAgrees' /\ FstabAgrees' /\ ExportsAgrees' /\ PublishAgrees'
      /\ Distinct(config)' /\ Distinct(disk)' /\ DiskIsImage'
  BY <1>1, <1>2, <1>7, StillAgrees, SameNames DEF Core, memory
<1> QED
  BY <1>4, <1>6, <1>7, <1>8, Then

LEMMA LoadSambaKeeps ==
  ASSUME Core, LoadSamba PROVE Core'
<1>1. /\ At("samba") /\ w.loading
      /\ UNCHANGED <<memory, disk, fstab, exports, kernel, publisher, world>>
  BY DEF LoadSamba
<1>2. "samba" \in behind /\ "samba" \in Surfaces
  BY <1>1, DueNow DEF Writing
<1>3. smb = Installed /\ UNCHANGED Installed /\ smb \in Samba /\ smbd \in SUBSET Section
  BY <1>1, Now, SameContent DEF WorkInv, LoadsWritten, FilesOK, ServedOK, memory
<1>4. MemoryOK' /\ WorldOK' /\ BudgetOK'
  BY <1>1, Unchanged, BudgetKept DEF Core, LoadSamba
<1>5. smb' \in Samba /\ smbd' \in SUBSET Section
  <2>1. View(smb) \subseteq Section
    BY <1>3, SambaTypes
  <2>2. w.samba # None => /\ w.samba \in Samba /\ View(w.samba) \subseteq Section
                          /\ Mixed(w.samba, smb) \subseteq Samba
    BY <1>3, SambaTypes, Now DEF WorkInv, WorkOK, Worker, Opt
  <2> QED
    BY <1>3, <2>1, <2>2 DEF LoadSamba
<1>6. FilesOK' /\ ServedOK'
  BY <1>1, <1>5, Now DEF FilesOK, ServedOK
<1>7. WorkInv' /\ behind \subseteq behind' \cup {"samba"} /\ SambaAgrees'
  <2>1. CASE smbd' = View(smb) /\ Do("samba") /\ UNCHANGED smb
    <3>1. WorkInv' /\ behind \subseteq behind' \cup {"samba"}
      BY <1>1, <1>2, <2>1, Ending
    <3>2. smb' = Installed' /\ smbd' = View(smb)'
      BY <1>3, <2>1 DEF View
    <3> QED
      BY <3>1, <3>2 DEF SambaAgrees
  <2>2. CASE Fail("samba")
    <3>1. WorkInv' /\ behind' = behind
      BY <1>1, <1>2, <2>2, Ending
    <3> QED
      BY <1>2, <3>1, Behind
  <2> QED
    BY <2>1, <2>2 DEF LoadSamba
<1>8. /\ ConfigAgrees' /\ FstabAgrees' /\ ExportsAgrees' /\ PublishAgrees'
      /\ Distinct(config)' /\ Distinct(disk)' /\ DiskIsImage'
  BY <1>1, <1>2, <1>7, StillAgrees, SameNames DEF Core, memory
<1> QED
  BY <1>4, <1>6, <1>7, <1>8, Then

LEMMA PublishKeeps ==
  ASSUME Core, Publish PROVE Core'
<1>1. /\ At("publish") /\ "publish" \in Surfaces
      /\ UNCHANGED <<memory, files, kernel, smbd, world>>
  BY DEF Publish, Surfaces
<1>2. MemoryOK' /\ FilesOK' /\ WorldOK' /\ BudgetOK'
  BY <1>1, Unchanged, BudgetKept DEF Core, Publish
<1>3. WorkInv' /\ behind \subseteq behind' \cup {"publish"}
  BY <1>1, Ending DEF Publish
<1>4. ServedOK' /\ PublishAgrees'
  <2>1. CASE publisher' = Publishable
    <3>1. Publishable' <=> Publishable
      BY <1>1, SameContent DEF memory
    <3>2. publisher' \in BOOLEAN
      BY <2>1 DEF Publishable
    <3>3. kernel' = kernel /\ smbd' = smbd
      BY <1>1
    <3> QED
      BY <2>1, <3>1, <3>2, <3>3, Now DEF ServedOK, PublishAgrees
  <2>2. CASE UNCHANGED publisher /\ Fail("publish")
    <3>1. behind' = behind
      BY <1>1, <2>2, Ending
    <3>2. PublishAgrees'
      BY <1>1, <2>2, <3>1, AllStillAgree DEF Core, memory
    <3> QED
      BY <1>1, <2>2, <3>2, Now DEF ServedOK
  <2> QED
    BY <2>1, <2>2 DEF Publish
<1>5. /\ ConfigAgrees' /\ FstabAgrees' /\ ExportsAgrees' /\ SambaAgrees'
      /\ Distinct(config)' /\ Distinct(disk)' /\ DiskIsImage'
  BY <1>1, <1>3, StillAgrees, SameNames DEF Core, memory, files
<1> QED
  BY <1>2, <1>3, <1>4, <1>5, Then

LEMMA StopPublisherKeeps ==
  ASSUME Core, StopPublisher PROVE Core'
<1>1. /\ publisher' = FALSE /\ w' = Idle
      /\ UNCHANGED <<memory, files, kernel, smbd, world, ans, behind, budget>>
  BY DEF StopPublisher
<1>2. MemoryOK' /\ FilesOK' /\ WorldOK' /\ BudgetOK' /\ HistoryOK' /\ ServedOK'
  BY <1>1, Unchanged, Now DEF Core, ServedOK
<1>3. WorkInv'
  BY <1>1, <1>2, AtRest
<1>4. /\ ConfigAgrees' /\ FstabAgrees' /\ ExportsAgrees' /\ SambaAgrees'
      /\ Distinct(config)' /\ Distinct(disk)' /\ DiskIsImage'
  BY <1>1, AllStillAgree, SameNames DEF Core, memory, files
<1>5. PublishAgrees'
  BY <1>1 DEF PublishAgrees
<1> QED
  BY <1>2, <1>3, <1>4, <1>5, Then

LEMMA StepKeeps == Core /\ Step => Core'
BY SaveConfigKeeps, RestoreKeeps, SyncFstabKeeps, WriteExportsKeeps, ReloadExportsKeeps,
   InstallSambaKeeps, LoadSambaKeeps, PublishKeeps, StopPublisherKeeps DEF Step

-----------------------------------------------------------------------------
(* What starts them keeps it as well.                                       *)

LEMMA AllBehind ==
  ASSUME behind' = Surfaces
  PROVE  ConfigAgrees' /\ FstabAgrees' /\ ExportsAgrees' /\ SambaAgrees' /\ PublishAgrees'
BY Behind DEF Surfaces

LEMMA RequestShareKeeps ==
  ASSUME Core, NEW u \in Users, NEW n \in Names, NEW d \in Drives, RequestShare(u, n, d)
  PROVE  Core'
<1>1. /\ mounted[d] # None /\ Unshared(n, d)
      /\ config' = [config EXCEPT ![n] = [fs |-> d, path |-> mounted[d], owner |-> u,
                                          cur |-> mounted[d]]]
      /\ Begin("share", n, config, Surfaces) /\ Due(Surfaces) /\ ans' = None
      /\ UNCHANGED <<role, tailnet, files, served, world, budget>>
  BY DEF RequestShare
<1>2. config \in Config /\ Distinct(config) /\ behind' = Surfaces
  BY <1>1, Now DEF MemoryOK, Due, WorkInv, HistoryOK
<1>3. WorkInv'
  BY <1>1, <1>2, RequestKeeps
<1>4. mounted[d] \in Paths
  BY <1>1, Now DEF WorldOK, World, Opt
<1>5. [fs |-> d, path |-> mounted[d], owner |-> u, cur |-> mounted[d]] \in Share
  BY <1>4 DEF Share, Opt
<1>6. config' \in Config
  BY <1>1, <1>2, <1>5 DEF Config, Opt
<1>7. Distinct(config)'
  BY <1>1, <1>2 DEF Distinct, Unshared, Config
<1>8. MemoryOK' /\ FilesOK' /\ ServedOK' /\ WorldOK' /\ BudgetOK'
  BY <1>1, <1>6, Unchanged, Now DEF Core, MemoryOK
<1>9. Distinct(disk)' /\ DiskIsImage'
  BY <1>1, SameNames DEF files
<1> QED
  BY <1>2, <1>3, <1>7, <1>8, <1>9, AllBehind, Then

LEMMA RequestUnshareKeeps ==
  ASSUME Core, NEW u \in Users, NEW n \in Names, RequestUnshare(u, n)
  PROVE  Core'
<1>1. /\ config' = [config EXCEPT ![n] = None]
      /\ Begin("unshare", n, config, Surfaces) /\ Due(Surfaces) /\ ans' = None
      /\ UNCHANGED <<role, tailnet, files, served, world, budget>>
  BY DEF RequestUnshare
<1>2. config \in Config /\ Distinct(config) /\ behind' = Surfaces
  BY <1>1, Now DEF MemoryOK, Due, WorkInv, HistoryOK
<1>3. WorkInv'
  BY <1>1, <1>2, RequestKeeps
<1>4. config' \in Config
  BY <1>1, <1>2 DEF Config, Opt
<1>5. Distinct(config)'
  BY <1>1, <1>2 DEF Distinct, Config
<1>6. MemoryOK' /\ FilesOK' /\ ServedOK' /\ WorldOK' /\ BudgetOK'
  BY <1>1, <1>4, Unchanged, Now DEF Core, MemoryOK
<1>7. Distinct(disk)' /\ DiskIsImage'
  BY <1>1, SameNames DEF files
<1> QED
  BY <1>2, <1>3, <1>5, <1>6, <1>7, AllBehind, Then

(* Looking for the drives leaves the configuration file and fstab right. *)
LEMMA AfterRefresh ==
  ASSUME Core, config' = Refreshed(config, role), UNCHANGED <<role, disk, fstab>>,
         behind \subseteq behind'
  PROVE  config' \in Config /\ Distinct(config)' /\ ConfigAgrees' /\ FstabAgrees'
<1>1. config \in Config /\ mounted \in World /\ Distinct(config)
  BY Now DEF MemoryOK, WorldOK
<1>2. config' \in Config /\ SameShares(config', config)
  BY <1>1, RefreshedKeeps
<1>3. Distinct(config)'
  BY <1>1, <1>2, SameDistinct DEF Distinct
<1>4. Image(config') = Image(config)
  BY <1>1, <1>2, SameImage
<1>5. ConfigAgrees'
  BY <1>4, Now DEF ConfigAgrees, Image
<1>6. MountedAtBoot' = MountedAtBoot
  BY <1>2 DEF MountedAtBoot, SameShares
<1>7. FstabAgrees'
  BY <1>6, Now DEF FstabAgrees
<1> QED
  BY <1>2, <1>3, <1>5, <1>7

LEMMA StartPassKeeps ==
  ASSUME Core, StartPass PROVE Core'
<1>1. /\ config' = Refreshed(config, role)
      /\ UNCHANGED <<role, tailnet, files, served, world, ans, budget>>
  BY DEF StartPass
<1>2. \/ /\ Begin("pass", None, None, {"exports", "samba", "publish"})
         /\ Due({"exports", "samba", "publish"})
      \/ /\ config' = config /\ Begin("watch", None, None, {"publish"}) /\ UNCHANGED behind
  BY <1>1 DEF StartPass, Changed
<1>3. behind \subseteq behind' /\ behind' \subseteq Surfaces /\ ans' \in Opt(Answer)
  BY <1>1, <1>2, Now DEF Due, WorkInv, HistoryOK, Surfaces
<1>4. WorkInv'
  <2>1. {"exports", "samba", "publish"} \in SUBSET Surfaces /\ {"publish"} \in SUBSET Surfaces
    BY DEF Surfaces
  <2>2. "pass" \in Ops \ {"share", "unshare"} /\ "watch" \in Ops \ {"share", "unshare"}
    BY DEF Ops
  <2>3. CASE Begin("pass", None, None, {"exports", "samba", "publish"})
             /\ Due({"exports", "samba", "publish"})
    BY <1>3, <2>1, <2>2, <2>3, BeginKeeps DEF Due
  <2>4. CASE Begin("watch", None, None, {"publish"}) /\ UNCHANGED behind
    <3>1. {"publish"} \cap Writing \subseteq behind'
      BY DEF Writing
    <3> QED
      BY <1>3, <2>1, <2>2, <2>4, <3>1, BeginKeeps
  <2> QED
    BY <1>2, <2>3, <2>4
<1>5. config' \in Config /\ Distinct(config)' /\ ConfigAgrees' /\ FstabAgrees'
  BY <1>1, <1>3, AfterRefresh DEF files
<1>6. MemoryOK' /\ FilesOK' /\ ServedOK' /\ WorldOK' /\ BudgetOK'
  BY <1>1, <1>5, Unchanged, Now DEF Core, MemoryOK
<1>7. Distinct(disk)' /\ DiskIsImage'
  BY <1>1, SameNames DEF files
<1>8. ExportsAgrees' /\ SambaAgrees' /\ PublishAgrees'
  <2>1. CASE Due({"exports", "samba", "publish"})
    BY <2>1, Behind DEF Due
  <2>2. CASE config' = config
    BY <1>1, <1>3, <2>2, AllStillAgree DEF Core, files, served
  <2> QED
    BY <1>2, <2>1, <2>2
<1> QED
  BY <1>4, <1>5, <1>6, <1>7, <1>8, Then

(* The work at hand looks at nothing else. *)
LEMMA SameWork ==
  ASSUME WorkInv, UNCHANGED <<w, ans, behind, exports, smb, config>>, UNCHANGED Rendered
  PROVE  WorkInv'
<1>1. UNCHANGED Installed
  BY SameContent
<1>2. LoadsWritten'
  BY <1>1 DEF WorkInv, LoadsWritten, At
<1> QED
  BY <1>2 DEF WorkInv, WorkOK, HistoryOK, WorkIsDue, OldIsKept, Changing, Distinct, Phases

LEMMA CheckTailnetKeeps ==
  ASSUME Core, CheckTailnet PROVE Core'
<1>1. /\ tailnet' = tailscale
      /\ UNCHANGED <<role, config, files, served, world, ans, budget>>
  BY DEF CheckTailnet
<1>2. MemoryOK' /\ FilesOK' /\ ServedOK' /\ WorldOK' /\ BudgetOK'
  BY <1>1, Unchanged, Now DEF Core, MemoryOK, WorldOK
<1>3. Distinct(config)' /\ Distinct(disk)' /\ DiskIsImage'
  BY <1>1, SameNames DEF files
<1>4. CASE Begin("tailscale", None, None, {"exports"}) /\ Due({"exports"})
  <2>1. "tailscale" \in Ops \ {"share", "unshare"} /\ {"exports"} \in SUBSET Surfaces
    BY DEF Ops, Surfaces
  <2>2. /\ behind \subseteq behind' /\ "exports" \in behind' /\ behind' \subseteq Surfaces
        /\ ans' \in Opt(Answer)
    BY <1>1, <1>4, <2>1, Now DEF Due, WorkInv, HistoryOK
  <2>3. WorkInv'
    BY <1>4, <2>1, <2>2, BeginKeeps
  <2>4. ConfigAgrees' /\ FstabAgrees' /\ SambaAgrees' /\ PublishAgrees'
    BY <1>1, <2>2, AllStillAgree DEF Core, files, served
  <2> QED
    BY <1>2, <1>3, <2>2, <2>3, <2>4, Behind, Then
<1>5. CASE Active(config) = {} /\ UNCHANGED <<w, behind>>
  <2>1. UNCHANGED Rendered
    BY <1>1, <1>5, SameContent DEF Rendered
  <2>2. WorkInv'
    BY <1>1, <1>5, <2>1, SameWork, Now DEF files
  <2>3. ConfigAgrees' /\ FstabAgrees' /\ SambaAgrees' /\ PublishAgrees'
    BY <1>1, <1>5, AllStillAgree DEF Core, files, served
  <2>4. ExportsAgrees'
    BY <1>1, <1>5, <2>1, SameContent, Now DEF ExportsAgrees, files
  <2> QED
    BY <1>2, <1>3, <2>2, <2>3, <2>4, Then
<1> QED
  BY <1>4, <1>5 DEF CheckTailnet

LEMMA ConfigureKeeps ==
  ASSUME Core, Configure PROVE Core'
<1>1. /\ config' = Refreshed(config, role) /\ tailnet' = tailscale
      /\ UNCHANGED <<role, files, served, world, ans, budget>>
  BY DEF Configure
<1>2. PICK todo \in SUBSET Surfaces :
        /\ Begin("configure", None, None, todo) /\ Due(todo) /\ "exports" \in todo
        /\ config' # config => "samba" \in todo /\ "publish" \in todo
  <2> DEFINE todo == IF Changed(config') THEN {"exports", "samba", "publish"} ELSE {"exports"}
  <2>1. todo \in SUBSET Surfaces /\ "exports" \in todo
    BY DEF Surfaces
  <2>2. Begin("configure", None, None, todo) /\ Due(todo)
    BY <1>1 DEF Configure, Changed
  <2>3. config' # config => "samba" \in todo /\ "publish" \in todo
    BY DEF Changed
  <2> HIDE DEF todo
  <2> QED
    BY <2>1, <2>2, <2>3
<1>3. behind \subseteq behind' /\ todo \subseteq behind' /\ behind' \subseteq Surfaces /\ ans' \in Opt(Answer)
  BY <1>1, <1>2, Now DEF Due, WorkInv, HistoryOK
<1>4. WorkInv'
  <2>1. "configure" \in Ops \ {"share", "unshare"} /\ todo \cap Writing \subseteq behind'
    BY <1>3 DEF Ops
  <2> QED
    BY <1>2, <1>3, <2>1, BeginKeeps
<1>5. config' \in Config /\ Distinct(config)' /\ ConfigAgrees' /\ FstabAgrees'
  BY <1>1, <1>3, AfterRefresh DEF files
<1>6. MemoryOK' /\ FilesOK' /\ ServedOK' /\ WorldOK' /\ BudgetOK'
  BY <1>1, <1>5, Unchanged, Now DEF Core, MemoryOK, WorldOK
<1>7. Distinct(disk)' /\ DiskIsImage'
  BY <1>1, SameNames DEF files
<1>8. ExportsAgrees' /\ SambaAgrees' /\ PublishAgrees'
  <2>1. ExportsAgrees'
    BY <1>2, <1>3, Behind
  <2>2. CASE config' # config
    BY <1>2, <1>3, <2>1, <2>2, Behind
  <2>3. CASE config' = config
    BY <1>1, <1>3, <2>1, <2>3, AllStillAgree DEF Core, files, served
  <2> QED
    BY <2>2, <2>3
<1> QED
  BY <1>4, <1>5, <1>6, <1>7, <1>8, Then

LEMMA StartKeeps ==
  ASSUME Core, Start PROVE Core'
<1>1. /\ role' \in Roles /\ tailnet' = tailscale /\ config' = Refreshed(disk, role')
      /\ Begin("startup", None, None, {"fstab", "exports", "samba", "publish"})
      /\ behind' = {"fstab", "exports", "samba", "publish"}
      /\ UNCHANGED <<files, served, world, ans, budget>>
  BY DEF Start
<1>2. WorkInv'
  <2>1. "startup" \in Ops \ {"share", "unshare"} /\ behind' \in SUBSET Surfaces
    BY <1>1 DEF Ops, Surfaces
  <2>2. ans' \in Opt(Answer) /\ behind' \cap Writing \subseteq behind'
    BY <1>1, Now DEF WorkInv, HistoryOK
  <2> QED
    BY <1>1, <2>1, <2>2, BeginKeeps
<1>3. disk \in Config /\ mounted \in World /\ Distinct(disk) /\ disk = Image(disk)
  BY Now DEF FilesOK, WorldOK, DiskIsImage
<1>4. /\ config' \in Config /\ SameShares(config', disk) /\ Image(config') = disk
  BY <1>1, <1>3, RefreshedKeeps, ImageOfRefreshed
<1>5. Distinct(config)'
  BY <1>3, <1>4, SameDistinct DEF Distinct
<1>6. ConfigAgrees'
  BY <1>1, <1>4 DEF ConfigAgrees, Image, files
<1>7. FstabAgrees' /\ ExportsAgrees' /\ SambaAgrees' /\ PublishAgrees'
  BY <1>1, Behind
<1>8. MemoryOK' /\ FilesOK' /\ ServedOK' /\ WorldOK' /\ BudgetOK'
  BY <1>1, <1>4, Unchanged, Now, ConstantsAssumption DEF Core, MemoryOK, WorldOK
<1>9. Distinct(disk)' /\ DiskIsImage'
  BY <1>1, SameNames DEF files
<1> QED
  BY <1>2, <1>4, <1>5, <1>6, <1>7, <1>8, <1>9, Then

LEMMA DaemonKeeps == Core /\ Daemon => Core'
BY StepKeeps, RequestShareKeeps, RequestUnshareKeeps, StartPassKeeps, CheckTailnetKeeps,
   ConfigureKeeps, StartKeeps DEF Daemon, Requests

-----------------------------------------------------------------------------
(* The environment cannot break it.                                         *)

LEMMA SurfacesUntouched ==
  ASSUME Core, UNCHANGED <<memory, files, kernel, smbd, w, ans, behind>>,
         publisher' = publisher \/ publisher' = FALSE,
         WorldOK', BudgetOK'
  PROVE  Core'
<1>1. UNCHANGED Rendered
  BY SameContent DEF memory
<1>2. WorkInv'
  BY <1>1, SameWork, Now DEF memory, files
<1>3. MemoryOK' /\ FilesOK' /\ ServedOK'
  BY Unchanged, Now DEF Core, ServedOK
<1>4. ConfigAgrees' /\ FstabAgrees' /\ ExportsAgrees' /\ SambaAgrees'
  BY AllStillAgree DEF Core, memory, files
<1>5. PublishAgrees'
  <2>1. CASE publisher' = publisher
    BY <2>1, AllStillAgree DEF Core, memory
  <2>2. CASE publisher' = FALSE
    BY <2>2 DEF PublishAgrees
  <2> QED
    BY <2>1, <2>2
<1>6. Distinct(config)' /\ Distinct(disk)' /\ DiskIsImage'
  BY SameNames DEF memory, files
<1> QED
  BY <1>2, <1>3, <1>4, <1>5, <1>6, Then

LEMMA GoesKeeps ==
  ASSUME Core, Goes, kernel' \in {kernel, exports}, smbd' \in {smbd, View(smb)}, BudgetOK'
  PROVE  Core'
<1>1. /\ w' = Down /\ config' = [n \in Names |-> None] /\ tailnet' = FALSE
      /\ publisher' = FALSE /\ behind' = Surfaces /\ ans' = None
      /\ UNCHANGED <<role, files, world>>
  BY DEF Goes
<1>2. HistoryOK'
  BY <1>1 DEF HistoryOK, Opt
<1>3. WorkInv'
  BY <1>1, <1>2, AtRest
<1>4. config' \in Config /\ Distinct(config)'
  BY <1>1 DEF Config, Opt, Distinct
<1>5. MemoryOK' /\ FilesOK' /\ WorldOK'
  BY <1>1, <1>4, Unchanged, Now DEF Core, MemoryOK
<1>6. ServedOK'
  <2>1. smb \in Samba /\ exports \in Export /\ kernel \in Export /\ smbd \in SUBSET Section
    BY Now DEF FilesOK, ServedOK
  <2>2. View(smb) \subseteq Section
    BY <2>1, SambaTypes
  <2> QED
    BY <1>1, <2>1, <2>2 DEF ServedOK
<1>7. Distinct(disk)' /\ DiskIsImage'
  BY <1>1, SameNames DEF files
<1> QED
  BY <1>1, <1>3, <1>4, <1>5, <1>6, <1>7, AllBehind, Then

LEMMA EnvironmentKeeps ==
  ASSUME Core, Environment PROVE Core'
<1>1. ASSUME NEW d \in Drives, NEW p \in Opt(Paths), MoveDrive(d, p) PROVE Core'
  <2>1. /\ Spend("drives") /\ mounted' = [mounted EXCEPT ![d] = p]
        /\ UNCHANGED <<memory, w, files, served, tailscale, ans, behind>>
    BY <1>1 DEF MoveDrive
  <2>2. WorldOK' /\ BudgetOK'
    BY <2>1, SpendType, Now DEF WorldOK, World
  <2> QED
    BY <2>1, <2>2, SurfacesUntouched DEF served
<1>2. CASE ToggleTailscale
  <2>1. /\ Spend("tailscale") /\ tailscale' = ~tailscale
        /\ UNCHANGED <<memory, w, files, served, mounted, ans, behind>>
    BY <1>2 DEF ToggleTailscale
  <2>2. WorldOK' /\ BudgetOK'
    BY <2>1, SpendType, Now DEF WorldOK
  <2> QED
    BY <2>1, <2>2, SurfacesUntouched DEF served
<1>3. CASE PublisherDies
  <2>1. /\ Spend("publisher") /\ publisher' = FALSE
        /\ UNCHANGED <<memory, w, files, kernel, smbd, world, ans, behind>>
    BY <1>3 DEF PublisherDies
  <2>2. WorldOK' /\ BudgetOK'
    BY <2>1, SpendType, Unchanged, Now DEF Core
  <2> QED
    BY <2>1, <2>2, SurfacesUntouched
<1>4. CASE Crash
  BY <1>4, SpendType, GoesKeeps, Now DEF Crash
<1>5. CASE Reboot
  BY <1>5, SpendType, GoesKeeps, Now DEF Reboot
<1> QED
  BY <1>1, <1>2, <1>3, <1>4, <1>5 DEF Environment

-----------------------------------------------------------------------------
(* What a request has come to.                                              *)

(* A step that deals with one surface. *)
Deals(s) ==
  /\ At(s) /\ UNCHANGED memory
  /\ \/ Do(s) \/ Fail(s)
     \/ \E b \in Opt(Export), a \in Opt(Samba) : ThenLoad(b, a)

LEMMA StepDeals ==
  ASSUME Core, Step
  PROVE  (\E s \in Surfaces : Deals(s)) \/ Restore \/ StopPublisher
<1>1. /\ "config" \in Surfaces /\ "fstab" \in Surfaces /\ "exports" \in Surfaces
      /\ "samba" \in Surfaces /\ "publish" \in Surfaces
  BY DEF Surfaces
<1>2. /\ None \in Opt(Export) /\ None \in Opt(Samba)
      /\ exports \in Opt(Export) /\ smb \in Opt(Samba)
  BY Now DEF FilesOK, Opt
<1>3. SaveConfig => Deals("config")
  BY DEF SaveConfig, Deals
<1>4. SyncFstab => Deals("fstab")
  BY DEF SyncFstab, Deals
<1>5. WriteExports \/ ReloadExports => Deals("exports")
  <2>1. (IF exports = Rendered THEN None ELSE exports) \in Opt(Export)
    BY <1>2
  <2> QED
    BY <1>2, <2>1 DEF WriteExports, ReloadExports, Deals
<1>6. InstallSamba \/ LoadSamba => Deals("samba")
  <2>1. (IF smb = Installed THEN None ELSE smb) \in Opt(Samba)
    BY <1>2
  <2> QED
    BY <1>2, <2>1 DEF InstallSamba, LoadSamba, Deals
<1>7. Publish => Deals("publish")
  BY DEF Publish, Deals
<1> QED
  BY <1>1, <1>3, <1>4, <1>5, <1>6, <1>7 DEF Step

LEMMA RestStands ==
  ASSUME w'.op \notin {"share", "unshare"}, ~w'.undo PROVE RequestStands'
BY DEF RequestStands, Changing

LEMMA DealsStands ==
  ASSUME Core, RequestStands, NEW s \in Surfaces, Deals(s)
  PROVE  RequestStands'
<1>1. /\ At(s) /\ config' = config /\ role' = role /\ w.todo \subseteq Stages
      /\ WorkOK /\ w.undo \in BOOLEAN
  BY Now DEF Deals, memory, WorkInv, WorkOK, Worker
<1>2. s \in w.todo /\ "restore" \notin w.todo
  BY <1>1, Order
<1>3. Image(config)' = Image(config) /\ Active(config)' = Active(config)
  BY <1>1, SameContent
<1>4. CASE Continue(w.todo \ {s}) /\ (w.undo \/ behind' = behind \ {s})
  <2>1. CASE w.todo \ {s} = {}
    BY <1>4, <2>1, RestFields, RestStands DEF Continue
  <2>2. CASE w.todo \ {s} # {}
    <3>1. /\ w'.op = w.op /\ w'.name = w.name /\ w'.old = w.old
          /\ w'.todo = w.todo \ {s} /\ w'.undo = w.undo
      BY <1>1, <1>4, <2>2, ContinueFields
    <3> QED
      BY <1>1, <1>2, <1>3, <1>4, <3>1 DEF RequestStands, Changing, Image
  <2> QED
    BY <2>1, <2>2
<1>5. CASE Fail(s) /\ ~w.undo /\ Changing
  <2>1. Turn(Rollback, TRUE)
    BY <1>5 DEF Fail
  <2>2. Rollback \in SUBSET Stages /\ "restore" \in Rollback
    BY DEF Rollback, Stages, Surfaces
  <2>3. w'.op = w.op /\ w'.todo = Rollback /\ w'.undo
    BY <1>1, <2>1, <2>2, TurnFields DEF Turn
  <2> QED
    BY <1>1, <2>2, <2>3 DEF RequestStands, Changing
<1>6. CASE Fail(s) /\ ~w.undo /\ ~Changing /\ w.op = "pass"
  <2>1. Turn({"stop"}, FALSE) /\ {"stop"} \in SUBSET Stages
    BY <1>6 DEF Fail, Stages
  <2>2. w'.op = w.op /\ ~w'.undo
    BY <1>1, <2>1, TurnFields DEF Turn
  <2> QED
    BY <1>6, <2>2, RestStands
<1>7. CASE Fail(s) /\ ~w.undo /\ ~Changing /\ w.op # "pass"
  BY <1>7, RestFields, RestStands DEF Fail
<1>8. CASE \E b \in Opt(Export), a \in Opt(Samba) : ThenLoad(b, a)
  <2>1. PICK b \in Opt(Export), a \in Opt(Samba) : ThenLoad(b, a)
    BY <1>8
  <2>2. /\ w'.op = w.op /\ w'.name = w.name /\ w'.old = w.old
        /\ w'.todo = w.todo /\ w'.undo = w.undo /\ behind' = behind
    BY <1>1, <2>1, LoadFields
  <2> QED
    BY <1>1, <1>3, <2>2 DEF RequestStands, Changing, Image
<1>9. Do(s) => Continue(w.todo \ {s}) /\ behind' = behind \ {s}
  BY DEF Do
<1>10. Fail(s) /\ w.undo => Continue(w.todo \ {s})
  BY DEF Fail
<1> QED
  BY <1>1, <1>4, <1>5, <1>6, <1>7, <1>8, <1>9, <1>10 DEF Deals

LEMMA RestoreStands ==
  ASSUME Core, RequestStands, Restore
  PROVE  RequestStands' /\ Image(config') = Image(w.old)
<1>1. /\ At("restore") /\ "restore" \in w.todo /\ Continue(w.todo \ {"restore"})
      /\ config' = Refreshed(w.old, role) /\ role' = role
      /\ w.todo \subseteq Stages /\ WorkOK /\ w.undo \in BOOLEAN
  BY Now DEF Restore, At, WorkInv, WorkOK, Worker
<1>2. Changing /\ w.undo /\ w.old \in Config /\ mounted \in World
  BY <1>1, Now DEF WorkInv, Phases, OldIsKept, WorldOK, Surfaces
<1>3. Image(config') = Image(w.old)
  BY <1>1, <1>2, ImageOfRefreshed
<1>4. CASE w.todo \ {"restore"} = {}
  BY <1>1, <1>3, <1>4, RestFields, RestStands DEF Continue
<1>5. CASE w.todo \ {"restore"} # {}
  <2>1. w'.op = w.op /\ w'.old = w.old /\ w'.undo = w.undo
    BY <1>1, <1>5, ContinueFields
  <2>2. Image(config)' = Image(w.old)'
    BY <1>3, <2>1 DEF Image
  <2> QED
    BY <1>1, <1>2, <1>3, <2>1, <2>2 DEF RequestStands, Changing
<1> QED
  BY <1>4, <1>5

LEMMA RequestsStand ==
  ASSUME Core, RequestStands, Requests PROVE RequestStands'
<1>1. \E op \in {"share", "unshare"}, n \in Names :
        /\ Begin(op, n, config, Surfaces) /\ Due(Surfaces) /\ role = "server" /\ role' = role
        /\ op = "share" => n \in Active(config)'
  <2>1. ASSUME NEW u \in Users, NEW n \in Names, NEW d \in Drives, RequestShare(u, n, d)
        PROVE  n \in Active(config)'
    <3> DEFINE new == [fs |-> d, path |-> mounted[d], owner |-> u, cur |-> mounted[d]]
    <3>1. mounted[d] # None /\ config' = [config EXCEPT ![n] = new]
      BY <2>1 DEF RequestShare
    <3>2. mounted[d] \in Paths /\ config \in Config
      BY <3>1, Now DEF WorldOK, World, Opt, MemoryOK
    <3>3. new \in Share /\ new.cur = mounted[d]
      BY <3>2 DEF Share, Opt
    <3>4. new # None
      BY <3>3, ShareNotNone
    <3>5. config'[n] = new
      BY <3>1, <3>2 DEF Config
    <3> QED
      BY <3>1, <3>3, <3>4, <3>5 DEF Active
  <2> QED
    BY <2>1 DEF Requests, RequestShare, RequestUnshare
<1>2. PICK op \in {"share", "unshare"}, n \in Names :
        /\ Begin(op, n, config, Surfaces) /\ Due(Surfaces) /\ role = "server" /\ role' = role
        /\ op = "share" => n \in Active(config)'
  BY <1>1
<1>3. op \in Ops /\ n \in Opt(Names) /\ config \in Opt(Config) /\ Surfaces \in SUBSET Stages
  BY Now DEF Ops, Opt, Stages, MemoryOK
<1>4. w'.op = op /\ w'.name = n /\ w'.todo = Surfaces /\ ~w'.undo
  BY <1>2, <1>3, BeginFields
<1>5. behind' \subseteq Surfaces
  BY <1>2, Now DEF Due, WorkInv, HistoryOK
<1> QED
  BY <1>2, <1>4, <1>5 DEF RequestStands

LEMMA OthersStand ==
  ASSUME Core, RequestStands, StartPass \/ CheckTailnet \/ Configure \/ Start
  PROVE  RequestStands'
<1>1. None \in Opt(Names) /\ None \in Opt(Config)
  BY DEF Opt
<1>2. ASSUME NEW op \in Ops \ {"share", "unshare"}, NEW todo \in SUBSET Surfaces,
             Begin(op, None, None, todo)
      PROVE  RequestStands'
  <2>1. todo \in SUBSET Stages
    BY DEF Stages
  <2> QED
    BY <1>1, <1>2, <2>1, BeginFields, RestStands
<1>3. /\ {"pass", "watch", "tailscale", "configure", "startup"} \subseteq Ops \ {"share", "unshare"}
      /\ {{"exports", "samba", "publish"}, {"publish"}, {"exports"},
          {"fstab", "exports", "samba", "publish"}} \subseteq SUBSET Surfaces
  BY DEF Ops, Surfaces
<1>4. CASE UNCHANGED <<w, behind, role, config>>
  BY <1>4, SameContent DEF RequestStands, Changing, Image
<1>5. \/ UNCHANGED <<w, behind, role, config>>
      \/ \E op \in {"pass", "watch", "tailscale", "configure", "startup"},
            todo \in {{"exports", "samba", "publish"}, {"publish"}, {"exports"},
                     {"fstab", "exports", "samba", "publish"}} : Begin(op, None, None, todo)
  BY DEF StartPass, CheckTailnet, Configure, Start
<1> QED
  BY <1>2, <1>3, <1>4, <1>5

LEMMA StandsKept ==
  ASSUME IInv, [Next]_vars PROVE RequestStands'
<1>1. Core /\ RequestStands
  BY DEF IInv
<1>2. CASE UNCHANGED <<w, behind, role, config>>
  BY <1>1, <1>2, SameContent DEF RequestStands, Changing, Image
<1>3. CASE w' = Down \/ w' = Idle
  BY <1>3, RestFields, RestStands
<1>4. CASE Step
  BY <1>1, <1>3, <1>4, StepDeals, DealsStands, RestoreStands DEF StopPublisher
<1>5. Environment => UNCHANGED <<w, behind, role, config>> \/ w' = Down
  BY DEF Environment, MoveDrive, ToggleTailscale, PublisherDies, Crash, Reboot, Goes, memory
<1> QED
  BY <1>1, <1>2, <1>3, <1>4, <1>5, RequestsStand, OthersStand DEF Next, Daemon, vars, memory

-----------------------------------------------------------------------------
(* The theorems.                                                            *)

LEMMA InitIsRight == Init => IInv
<1> SUFFICES ASSUME Init PROVE IInv
  OBVIOUS
<1>1. config \in Config /\ Distinct(config)
  BY DEF Init, Config, Opt, Distinct
<1>2. disk \in Config /\ Distinct(disk) /\ DiskIsImage
  BY <1>1 DEF Init, DiskIsImage, Image
<1>3. MemoryOK /\ FilesOK /\ ServedOK /\ WorldOK /\ BudgetOK
  BY <1>1, <1>2, ConstantsAssumption
     DEF Init, MemoryOK, FilesOK, ServedOK, WorldOK, BudgetOK, Nothing, Export, Samba
<1>4. ConfigAgrees /\ FstabAgrees /\ ExportsAgrees /\ SambaAgrees /\ PublishAgrees
  BY DEF Init, ConfigAgrees, FstabAgrees, ExportsAgrees, SambaAgrees, PublishAgrees, Surfaces
<1>5. w \in Worker /\ w.op = "down" /\ w.todo = {} /\ ~w.undo /\ ~w.loading
  BY DownType DEF Init
<1>6. HistoryOK
  BY DEF Init, HistoryOK, Opt
<1>7. WorkInv
  BY <1>5, <1>6 DEF WorkInv, WorkOK, WorkIsDue, OldIsKept, Changing, Phases, LoadsWritten
<1>8. RequestStands
  BY <1>5 DEF RequestStands, Changing
<1> QED
  BY <1>1, <1>2, <1>3, <1>4, <1>7, <1>8, Now DEF IInv

LEMMA NextKeeps == IInv /\ [Next]_vars => IInv'
<1> SUFFICES ASSUME IInv, [Next]_vars PROVE IInv'
  OBVIOUS
<1>1. Core
  BY DEF IInv
<1>2. CASE UNCHANGED vars
  BY <1>1, <1>2, SurfacesUntouched, Unchanged, StandsKept DEF vars, served, Core, IInv
<1>3. CASE Next
  BY <1>1, <1>3, DaemonKeeps, EnvironmentKeeps, StandsKept DEF Next, IInv
<1> QED
  BY <1>2, <1>3

(* The inductive invariant: between any two steps of any operation, failed  *)
(* or not, the work still to do marks its surfaces, a roll-back has a good  *)
(* configuration to go back to, and a server loads what was just rendered.  *)
THEOREM Invariant == Spec => []IInv
BY InitIsRight, NextKeeps, PTL DEF Spec

(* Memory, files, servers and the work at hand keep to their domains. *)
THEOREM TypeCorrect == Spec => []TypeOK
<1>1. IInv => TypeOK
  BY DEF IInv, Core
<1> QED
  BY <1>1, Invariant, PTL

(* However requests, roll-backs, maintenance, restarts and drives           *)
(* interleave, a surface that is out of step is one whose update is due,    *)
(* failed or was given up.                                                  *)
THEOREM AlwaysAgree == Spec => []SurfacesAgree
<1>1. IInv => SurfacesAgree
  BY DEF IInv, Core
<1> QED
  BY <1>1, Invariant, PTL

(* No filesystem is ever shared under two names, in memory or on disk. *)
THEOREM NamesUnique == Spec => []OneNamePerDrive
<1>1. IInv => OneNamePerDrive
  BY DEF IInv, Core
<1> QED
  BY <1>1, Invariant, PTL

-----------------------------------------------------------------------------
(* What an answer means.                                                    *)

(* The step that answers a request deals with its last surface, or restores *)
(* the configuration with nothing left to do.                               *)
LEMMA Answering ==
  ASSUME IInv, [Next]_vars, ans' # ans, ans' # None
  PROVE  /\ Changing /\ ans' = [op |-> w.op, name |-> w.name, ok |-> ~w.undo]
         /\ \/ Restore
            \/ \E s \in Surfaces : /\ Deals(s) /\ w.todo \ {s} = {}
                                   /\ w.undo \/ behind' = behind \ {s}
<1>1. Core
  BY DEF IInv
<1>2. Step
  BY Zenon DEF Next, Daemon, Environment, MoveDrive, ToggleTailscale, PublisherDies, Crash, Reboot,
               Goes, Requests, RequestShare, RequestUnshare, StartPass, CheckTailnet, Configure,
               Start, vars
<1>3. ~StopPublisher
  BY DEF StopPublisher
<1>4. ASSUME NEW rest, Continue(rest)
      PROVE  /\ Changing /\ ans' = [op |-> w.op, name |-> w.name, ok |-> ~w.undo]
             /\ rest = {}
  BY <1>4 DEF Continue
<1>5. CASE Restore
  BY <1>4, <1>5 DEF Restore
<1>6. ASSUME NEW s \in Surfaces, Deals(s)
      PROVE  Continue(w.todo \ {s}) /\ (w.undo \/ behind' = behind \ {s})
  <2>1. CASE Do(s)
    BY <2>1 DEF Do
  <2>2. CASE Fail(s)
    <3>1. ~(~w.undo /\ Changing)
      BY <2>2 DEF Fail, Turn
    <3>2. ~(~w.undo /\ ~Changing)
      BY <2>2 DEF Fail, Turn
    <3> QED
      BY <2>2, <3>1, <3>2 DEF Fail
  <2>3. CASE \E b \in Opt(Export), a \in Opt(Samba) : ThenLoad(b, a)
    BY <2>3 DEF ThenLoad
  <2> QED
    BY <1>6, <2>1, <2>2, <2>3 DEF Deals
<1>7. CASE \E s \in Surfaces : Deals(s)
  BY <1>4, <1>6, <1>7
<1> QED
  BY <1>1, <1>2, <1>3, <1>5, <1>7, StepDeals

(* A client told that its drive is shared finds it in the configuration     *)
(* file, in fstab, and with both servers.                                   *)
LEMMA AckedShare == IInv /\ IInv' /\ [Next]_vars => AckedShareIsServed
<1>1. ASSUME IInv, IInv', [Next]_vars,
             ans' # ans, ans' # None, ans'.ok, ans'.op = "share"
      PROVE  LET s == config'[ans'.name] IN
             /\ disk'[ans'.name] # None
             /\ [fs |-> s.fs, path |-> s.path] \in fstab'
             /\ [path |-> s.cur, owner |-> s.owner] \in kernel'.lines
             /\ [name |-> ans'.name, path |-> s.cur, owner |-> s.owner] \in smbd'
  <2>1. Changing /\ ans' = [op |-> w.op, name |-> w.name, ok |-> ~w.undo]
    BY <1>1, Answering
  <2>2. ~w.undo /\ w.op = "share" /\ ans'.name = w.name
    BY <1>1, <2>1
  <2>3. ~Restore
    BY <1>1, <2>2, Now DEF Restore, At, IInv, WorkInv, Phases, Surfaces
  <2>4. PICK s \in Surfaces : Deals(s) /\ w.todo \ {s} = {} /\ behind' = behind \ {s}
    BY <1>1, <2>2, <2>3, Answering
  <2>5. behind' = {} /\ config' = config /\ role' = role /\ role = "server"
    BY <1>1, <2>1, <2>2, <2>4 DEF IInv, RequestStands, Deals, memory
  <2>6. w.name \in Active(config') /\ w.name \in Names
    BY <1>1, <2>2, <2>5 DEF IInv, RequestStands, Active
  <2>7. /\ ConfigAgrees' /\ FstabAgrees' /\ ExportsAgrees' /\ SambaAgrees'
        /\ config' \in Config
    BY <1>1, Then DEF IInv, MemoryOK
  <2>8. disk'[w.name] # None
    <3>1. disk' = Image(config')
      BY <2>5, <2>7 DEF ConfigAgrees, Image
    <3>2. config'[w.name] # None
      BY <2>6 DEF Active
    <3> QED
      BY <2>6, <2>7, <3>1, <3>2, ImageKeeps DEF SameShares
  <2>9. [fs |-> config'[w.name].fs, path |-> config'[w.name].path] \in fstab'
    BY <2>5, <2>6, <2>7 DEF FstabAgrees, MountedAtBoot, Active
  <2>10. [path |-> config'[w.name].cur, owner |-> config'[w.name].owner] \in kernel'.lines
    <3>1. kernel' = Rendered'
      BY <2>5, <2>6, <2>7 DEF ExportsAgrees, Active
    <3>2. kernel'.lines = Lines(config')
      BY <2>6, <3>1 DEF Rendered, Active, Lines
    <3> QED
      BY <2>6, <3>2 DEF Lines
  <2>11. [name |-> w.name, path |-> config'[w.name].cur, owner |-> config'[w.name].owner] \in smbd'
    <3>1. smb' = Installed' /\ smbd' = View(smb)'
      BY <2>5, <2>6, <2>7 DEF SambaAgrees, Unneeded, Active
    <3>2. smbd' = Sections(config')
      BY <3>1 DEF View, Installed, Sections, Active
    <3> QED
      BY <2>6, <3>2 DEF Sections
  <2> QED
    BY <2>2, <2>8, <2>9, <2>10, <2>11
<1> QED
  BY <1>1 DEF AckedShareIsServed

(* A request that fails in the middle leaves the configuration as the       *)
(* client found it, on disk as well if the roll-back could save it.         *)
LEMMA FailedRequest == IInv /\ IInv' /\ [Next]_vars => FailedRequestUndone
<1>1. ASSUME IInv, IInv', [Next]_vars, ans' # ans, ans' # None, ~ans'.ok
      PROVE  Image(config') = Image(w.old) /\ ("config" \in behind' \/ disk' = Image(w.old))
  <2>1. w.undo
    <3>1. ans' = [op |-> w.op, name |-> w.name, ok |-> ~w.undo] /\ w.undo \in BOOLEAN
      BY <1>1, Answering, Now DEF IInv, WorkInv, WorkOK, Worker
    <3> QED
      BY <1>1, <3>1
  <2>2. Image(config') = Image(w.old)
    <3>1. CASE Restore
      BY <1>1, <3>1, RestoreStands DEF IInv
    <3>2. ASSUME NEW s \in Surfaces, Deals(s) PROVE Image(config') = Image(w.old)
      <4>1. "restore" \notin w.todo /\ config' = config
        BY <3>2, Order DEF Deals, memory
      <4> QED
        BY <1>1, <2>1, <4>1 DEF IInv, RequestStands
    <3> QED
      BY <1>1, <3>1, <3>2, Answering
  <2>3. ConfigAgrees'
    BY <1>1, Then DEF IInv
  <2> QED
    BY <2>2, <2>3 DEF ConfigAgrees, Image
<1> QED
  BY <1>1 DEF FailedRequestUndone

(* What the daemon answers to SHARE and UNSHARE is so at the step that       *)
(* answers, whatever failed, was rolled back or moved on the way.            *)
THEOREM AnswersTrue == Spec => AnswersAreTrue
<1>1. IInv /\ IInv' /\ [Next]_vars => [AckedShareIsServed /\ FailedRequestUndone]_vars
  BY AckedShare, FailedRequest
<1> QED
  BY <1>1, Invariant, PTL DEF Spec, AnswersAreTrue
=============================================================================
