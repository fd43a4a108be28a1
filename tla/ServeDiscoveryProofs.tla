------------------------ MODULE ServeDiscoveryProofs ------------------------
(***************************************************************************)
(* Every value of the constants: the tables and locals of the three        *)
(* threads stay in their domains (TypeOK); a dismissed peer comes back     *)
(* into the cache only under an address it is announced at                 *)
(* (DismissedAddressStaysGone); the cache keeps no ghosts                  *)
(* (CachedPeerHasService); no table overflows (TablesBounded); marked work *)
(* exists (MarkedWorkExists), and no service is forgotten                  *)
(* (NobodyForgotten).                                                      *)
(***************************************************************************)
EXTENDS ServeDiscovery, FiniteSetTheorems, TLAPS

-----------------------------------------------------------------------------
(* Types, in the parts that actions disturb separately. *)

TableOK  == /\ gen \in [Services -> Nat] /\ nextGen \in Nat
            /\ serverName \in [Services -> Names \cup {NoName}]
            /\ {requested, resolving, pending} \subseteq SUBSET Services
CacheOK  == remotes \in [Names -> Opt(Remote)]
JobsOK   == jobs \in Seq(Job) /\ contexts \subseteq Context
AvahiOK  == /\ client \in {"none", "connecting", "running", "failed"}
            /\ browser \in {"none", "up", "failed"}
            /\ {clientRestart, browserRestart} \subseteq BOOLEAN
            /\ announced \subseteq Services
AvOK     == /\ av \in [pc : {"poll", "starting", "resolved", "exited"},
                       ctx : Opt(Context), queued : BOOLEAN]
            /\ (av.ctx # None) = (av.pc \in {"starting", "resolved"})
WorkerOK == /\ worker \in [pc : {"check", "asleep", "fetch", "store", "exited"},
                           job : Opt(Job), got : Opt(Names)]
            /\ (worker.job # None) = (worker.pc \in {"fetch", "store"})
MainOK   == main \in {"running", "joining", "stopped"}
WorldOK  == /\ world \in WorldType
            /\ peer \in [Addrs -> Opt(Names)]
            /\ budget \in [moves : Nat, faults : Nat, asks : Nat]
            /\ dismissed \subseteq Names

LEMMA Parts ==
  TypeOK <=> /\ TableOK /\ CacheOK /\ JobsOK /\ AvahiOK
             /\ AvOK /\ WorkerOK /\ MainOK /\ WorldOK
BY DEF TypeOK, TableOK, CacheOK, JobsOK, AvahiOK, AvOK, WorkerOK, MainOK, WorldOK

LEMMA PartsNext ==
  TypeOK' <=> /\ TableOK' /\ CacheOK' /\ JobsOK' /\ AvahiOK'
              /\ AvOK' /\ WorkerOK' /\ MainOK' /\ WorldOK'
BY DEF TypeOK, TableOK, CacheOK, JobsOK, AvahiOK, AvOK, WorkerOK, MainOK, WorldOK

(* What a step leaves alone keeps its type. *)
LEMMA Unchanged ==
  ASSUME TypeOK
  PROVE  /\ UNCHANGED table => TableOK'
         /\ UNCHANGED remotes => CacheOK'
         /\ UNCHANGED <<jobs, contexts>> => JobsOK'
         /\ UNCHANGED <<avahi, announced>> => AvahiOK'
         /\ UNCHANGED av => AvOK'
         /\ UNCHANGED worker => WorkerOK'
         /\ UNCHANGED main => MainOK'
         /\ UNCHANGED <<outside, budget, dismissed>> => WorldOK'
BY DEF TypeOK, TableOK, CacheOK, JobsOK, AvahiOK, AvOK, WorkerOK, MainOK, WorldOK,
       table, avahi, outside

LEMMA SpendType ==
  ASSUME WorldOK, NEW what \in {"moves", "faults", "asks"}, Spend(what)
  PROVE  budget' \in [moves : Nat, faults : Nat, asks : Nat]
BY DEF WorldOK, Spend

LEMMA ContextType ==
  ASSUME TypeOK
  PROVE  /\ av.pc \in {"starting", "resolved"} => av.ctx \in Context
         /\ \A s \in Services : [svc |-> s, gen |-> gen[s]] \in Context
BY DEF TypeOK, Opt, Context

LEMMA WorkerType ==
  ASSUME TypeOK
  PROVE  /\ worker.pc \in {"fetch", "store"} => worker.job \in Job
         /\ WorkerIdle \in [pc : {"check"}, job : Opt(Job), got : Opt(Names)]
         /\ WorkerOK /\ (worker' = Woken => WorkerOK')
BY DEF TypeOK, Opt, WorkerIdle, Woken, WorkerOK

LEMMA AvIdleType == ASSUME av' = AvIdle PROVE AvOK'
BY DEF AvIdle, AvOK, Opt

LEMMA ResolvedType ==
  ASSUME NEW c \in Context, NEW q \in BOOLEAN, av' = Resolved(c, q) PROVE AvOK'
<1>1. c # None
  BY NoneAssumption
<1> QED BY <1>1 DEF Resolved, AvOK, Opt

LEMMA ClearType == ASSUME TypeOK, ClearDiscovery PROVE TableOK' /\ CacheOK' /\ jobs' \in Seq(Job)
BY DEF TypeOK, ClearDiscovery, TableOK, CacheOK, Opt

LEMMA UnresolvedType ==
  ASSUME TypeOK, av.ctx \in Context, Unresolved, UNCHANGED <<gen, nextGen, serverName, pending>>
  PROVE  TableOK'
BY DEF TypeOK, TableOK, Unresolved, Context, Live

LEMMA FaultType == ASSUME TypeOK, NEW k, Fault(k) PROVE budget' \in [moves : Nat, faults : Nat, asks : Nat]
BY SpendType, Parts DEF Fault

LEMMA MoveType == ASSUME TypeOK, NEW k, Move(k) PROVE budget' \in [moves : Nat, faults : Nat, asks : Nat]
BY SpendType, Parts DEF Move

-----------------------------------------------------------------------------
(* Each action keeps the types. *)

LEMMA BrowserNewType ==
  ASSUME TypeOK, NEW s \in Services, BrowserNew(s) PROVE TypeOK'
<1>1. announced' \subseteq Services /\ UNCHANGED avahi
  BY DEF BrowserNew, TypeOK
<1>2. TableOK'
  BY DEF BrowserNew, AddService, table, TypeOK, TableOK
<1> QED BY <1>1, <1>2, Unchanged, PartsNext, Parts DEF BrowserNew, AvahiOK, avahi, JobsOK, outside

LEMMA BrowserRemoveType ==
  ASSUME TypeOK, NEW s \in Services, BrowserRemove(s) PROVE TypeOK'
<1>1. announced' \subseteq Services /\ UNCHANGED avahi
  BY DEF BrowserRemove, TypeOK
<1>2. TableOK' /\ CacheOK'
  <2>1. CASE s \in Known
    <3>1. DropSourced(gen[s]) /\ PassOn(s) /\ gen' = [gen EXCEPT ![s] = 0]
          /\ serverName' = [serverName EXCEPT ![s] = NoName]
          /\ resolving' = resolving \ {s} /\ pending' = pending \ {s} /\ nextGen' = nextGen
      BY <2>1 DEF BrowserRemove, RemoveService
    <3>2. CacheOK'
      BY <3>1 DEF DropSourced, CacheOK, TypeOK, Opt
    <3>3. requested' \subseteq Services
      BY <3>1 DEF PassOn, Heirs, Known, TypeOK
    <3> QED BY <3>1, <3>2, <3>3 DEF TableOK, TypeOK
  <2>2. CASE s \notin Known
    BY <2>2, Unchanged DEF BrowserRemove
  <2> QED BY <2>1, <2>2
<1> QED BY <1>1, <1>2, Unchanged, PartsNext, Parts DEF BrowserRemove, AvahiOK, avahi, JobsOK, outside

LEMMA BrowserFailsType == ASSUME TypeOK, BrowserFails PROVE TypeOK'
<1>1. TableOK' /\ CacheOK' /\ JobsOK'
  BY ClearType DEF BrowserFails, JobsOK, TypeOK
<1>2. AvahiOK'
  BY DEF BrowserFails, AvahiOK, TypeOK
<1>3. WorldOK'
  BY FaultType DEF BrowserFails, WorldOK, TypeOK, outside
<1> QED BY <1>1, <1>2, <1>3, Unchanged, PartsNext DEF BrowserFails

LEMMA ClientFailsType == ASSUME TypeOK, ClientFails PROVE TypeOK'
<1>1. TableOK' /\ CacheOK' /\ JobsOK'
  BY ClearType DEF ClientFails, JobsOK, TypeOK
<1>2. AvahiOK'
  BY DEF ClientFails, AvahiOK, TypeOK
<1>3. WorldOK'
  BY FaultType DEF ClientFails, WorldOK, TypeOK, outside
<1> QED BY <1>1, <1>2, <1>3, Unchanged, PartsNext DEF ClientFails

LEMMA PollFailsType == ASSUME TypeOK, PollFails PROVE TypeOK'
<1>1. TableOK' /\ CacheOK' /\ JobsOK'
  BY ClearType DEF PollFails, JobsOK, TypeOK
<1>2. AvahiOK'
  BY DEF PollFails, AvahiOK, TypeOK
<1>3. WorldOK'
  BY FaultType DEF PollFails, WorldOK, TypeOK, outside
<1> QED BY <1>1, <1>2, <1>3, Unchanged, PartsNext DEF PollFails

LEMMA RestartClientType == ASSUME TypeOK, RestartClient PROVE TypeOK'
<1>1. JobsOK'
  BY DEF RestartClient, JobsOK, TypeOK
<1>2. AvahiOK'
  BY DEF RestartClient, AvahiOK, TypeOK
<1>3. WorldOK'
  BY FaultType DEF RestartClient, WorldOK, TypeOK, outside
<1> QED BY <1>1, <1>2, <1>3, Unchanged, PartsNext DEF RestartClient

LEMMA ClientRunsType == ASSUME TypeOK, ClientRuns PROVE TypeOK'
<1>2. AvahiOK'
  BY DEF ClientRuns, AvahiOK, TypeOK
<1>3. WorldOK'
  BY FaultType DEF ClientRuns, WorldOK, TypeOK, outside
<1> QED BY <1>2, <1>3, Unchanged, PartsNext DEF ClientRuns

LEMMA RestartBrowserType == ASSUME TypeOK, RestartBrowser PROVE TypeOK'
<1>2. AvahiOK'
  BY DEF RestartBrowser, AvahiOK, TypeOK
<1>3. WorldOK'
  BY FaultType DEF RestartBrowser, WorldOK, TypeOK, outside
<1> QED BY <1>2, <1>3, Unchanged, PartsNext DEF RestartBrowser

LEMMA StartResolverType ==
  ASSUME TypeOK, NEW s \in Services, StartResolver(s) PROVE TypeOK'
<1> DEFINE c == [svc |-> s, gen |-> gen[s]]
<1>1. c \in Context /\ c # None
  BY NoneAssumption, ContextType
<1>2. contexts' = contexts \cup {c} /\ av' = [pc |-> "starting", ctx |-> c, queued |-> FALSE]
  BY DEF StartResolver
<1> HIDE DEF c
<1>3. AvOK' /\ JobsOK'
  BY <1>1, <1>2 DEF AvOK, JobsOK, StartResolver, TypeOK, Opt
<1>4. TableOK'
  BY DEF StartResolver, TableOK, TypeOK
<1> QED BY <1>3, <1>4, Unchanged, PartsNext DEF StartResolver, avahi, AvahiOK

LEMMA ResolverStartsType == ASSUME TypeOK, ResolverStarts PROVE TypeOK'
BY AvIdleType, Unchanged, PartsNext DEF ResolverStarts

LEMMA ResolverRefusedType == ASSUME TypeOK, ResolverRefused PROVE TypeOK'
<1>1. TableOK' /\ AvOK'
  BY UnresolvedType, ContextType, AvIdleType DEF ResolverRefused
<1>2. JobsOK'
  BY DEF ResolverRefused, JobsOK, TypeOK
<1>3. WorldOK'
  BY FaultType DEF ResolverRefused, WorldOK, TypeOK, outside
<1> QED BY <1>1, <1>2, <1>3, Unchanged, PartsNext DEF ResolverRefused

LEMMA ResolverFoundType ==
  ASSUME TypeOK, NEW c \in contexts, ResolverFound(c) PROVE TypeOK'
<1>1. c \in Context /\ c.svc \in Services /\ c.gen \in Nat
  BY DEF TypeOK, Context
<1>2. world[c.svc].name \in Names /\ world[c.svc].addr \in Addrs
  BY <1>1 DEF ResolverFound, TypeOK, WorldType, Opt
<1>3. TableOK' /\ jobs' \in Seq(Job) /\ (worker' = worker \/ worker' = Woken)
  <2> DEFINE j == [svc |-> c.svc, gen |-> c.gen,
                   name |-> world[c.svc].name, addr |-> world[c.svc].addr]
  <2>1. j \in Job
    BY <1>1, <1>2 DEF Job
  <2>2. jobs' = jobs \/ jobs' = Append(jobs, j)
    BY DEF ResolverFound, QueueManifest
  <2>3. jobs' \in Seq(Job)
    <3>1. PICK k \in Job : jobs' = jobs \/ jobs' = Append(jobs, k)
      BY <2>1, <2>2, Zenon
    <3>2. jobs \in Seq(Job)
      BY DEF TypeOK
    <3> QED BY <3>1, <3>2
  <2>4. /\ serverName' = serverName \/ serverName' = [serverName EXCEPT ![c.svc] = world[c.svc].name]
        /\ pending' = pending \/ pending' = pending \cup {c.svc}
        /\ worker' = worker \/ worker' = Woken
    BY DEF ResolverFound, QueueManifest
  <2>5. UNCHANGED <<gen, nextGen, requested, resolving>>
    BY DEF ResolverFound
  <2>6. TableOK'
    BY <1>1, <1>2, <2>4, <2>5 DEF TypeOK, TableOK
  <2> QED BY <2>3, <2>4, <2>6
<1>4. AvOK'
  <2>1. PICK q \in BOOLEAN : av' = Resolved(c, q)
    BY DEF ResolverFound, QueueManifest
  <2> QED BY <1>1, <2>1, ResolvedType
<1>5. WorkerOK' /\ JobsOK'
  BY <1>3, WorkerType, Unchanged DEF ResolverFound, JobsOK, TypeOK
<1> QED BY <1>3, <1>4, <1>5, Unchanged, PartsNext DEF ResolverFound

LEMMA ResolverFailedType ==
  ASSUME TypeOK, NEW c \in contexts, ResolverFailed(c) PROVE TypeOK'
<1>1. AvOK'
  BY ResolvedType DEF ResolverFailed, TypeOK
<1>2. WorldOK'
  BY FaultType DEF ResolverFailed, WorldOK, TypeOK, outside
<1> QED BY <1>1, <1>2, Unchanged, PartsNext DEF ResolverFailed

LEMMA ResolverDoneType == ASSUME TypeOK, ResolverDone PROVE TypeOK'
<1>1. TableOK' /\ AvOK'
  <2>1. CASE av.queued
    BY <2>1, AvIdleType DEF ResolverDone, TableOK, TypeOK
  <2>2. CASE ~av.queued
    BY <2>2, UnresolvedType, ContextType, AvIdleType DEF ResolverDone
  <2> QED BY <2>1, <2>2
<1>2. JobsOK'
  BY DEF ResolverDone, JobsOK, TypeOK
<1> QED BY <1>1, <1>2, Unchanged, PartsNext DEF ResolverDone, outside

LEMMA AvahiThreadExitsType == ASSUME TypeOK, AvahiThreadExits PROVE TypeOK'
<1>1. AvOK'
  BY DEF AvahiThreadExits, AvOK, Opt
<1> QED BY <1>1, Unchanged, PartsNext DEF AvahiThreadExits

LEMMA WorkerStepType == ASSUME TypeOK, Worker PROVE TypeOK'
<1>1. CASE WorkerWaits
  <2>1. WorkerOK'
    BY <1>1 DEF WorkerWaits, WorkerOK, Opt
  <2> QED BY <1>1, <2>1, Unchanged, PartsNext DEF WorkerWaits
<1>2. CASE WorkerTakes
  <2>1. jobs' \in Seq(Job) /\ Head(jobs) \in Job
    BY <1>2 DEF WorkerTakes, TypeOK
  <2>2. Head(jobs) # None
    BY <2>1, NoneAssumption
  <2>3. WorkerOK' /\ JobsOK'
    BY <1>2, <2>1, <2>2 DEF WorkerTakes, WorkerOK, JobsOK, TypeOK, Opt
  <2> QED BY <1>2, <2>3, Unchanged, PartsNext DEF WorkerTakes
<1>3. CASE WorkerFetches
  <2>1. worker.job \in Job /\ worker.job.addr \in Addrs
    BY <1>3, WorkerType DEF WorkerFetches, Job
  <2>2. worker.job # None
    BY <2>1, NoneAssumption
  <2>3. PICK g \in Opt(Names) : worker' = Fetched(g)
    BY <1>3, <2>1 DEF WorkerFetches, TypeOK, Opt
  <2>4. WorkerOK'
    BY <2>1, <2>2, <2>3 DEF WorkerOK, Fetched, Opt
  <2>5. WorldOK'
    BY <1>3, FaultType DEF WorkerFetches, WorldOK, TypeOK, outside
  <2> QED BY <1>3, <2>4, <2>5, Unchanged, PartsNext DEF WorkerFetches
<1>4. CASE WorkerStores
  <2>1. PICK j \in Job : j = worker.job
    BY <1>4, WorkerType DEF WorkerStores
  <2>2. CacheManifest(j, worker.got) /\ worker.got \in Opt(Names)
    BY <1>4, <2>1 DEF WorkerStores, TypeOK
  <2>3. CacheOK' /\ pending' \subseteq Services /\ requested' \subseteq Services
    <3> DEFINE r == [addr |-> j.addr, source |-> j.gen]
    <3>1. r \in Remote /\ j.svc \in Services /\ j.name \in Names
      BY DEF Job, Remote
    <3>2. /\ remotes' = remotes \/ remotes' = [remotes EXCEPT ![j.name] = r]
          /\ pending' = pending \/ pending' = pending \ {j.svc}
          /\ requested' = requested \/ requested' = requested \cup {j.svc}
      BY <2>2 DEF CacheManifest
    <3> HIDE DEF r
    <3> QED BY <3>1, <3>2 DEF CacheOK, TypeOK, Opt
  <2>4. TableOK'
    BY <1>4, <2>3 DEF WorkerStores, TableOK, TypeOK
  <2>5. WorkerOK'
    BY <1>4 DEF WorkerStores, WorkerIdle, WorkerOK, Opt
  <2> QED BY <1>4, <2>3, <2>4, <2>5, Unchanged, PartsNext DEF WorkerStores, outside
<1>5. CASE WorkerExits
  <2>1. WorkerOK'
    BY <1>5 DEF WorkerExits, WorkerOK, Opt
  <2> QED BY <1>5, <2>1, Unchanged, PartsNext DEF WorkerExits
<1> QED BY <1>1, <1>2, <1>3, <1>4, <1>5 DEF Worker

(* The services of a dismissed peer are finitely many, so that the counter  *)
(* of generations stays a number.                                           *)
LEMMA CalledSize ==
  ASSUME NEW n PROVE Called(n) \subseteq Services /\ Cardinality(Called(n)) \in Nat
<1>1. Called(n) \subseteq Services
  BY DEF Called, Known
<1> QED BY <1>1, ConstantsAssumption, FS_Subset, FS_CardinalityType

LEMMA ControlType == ASSUME TypeOK, Control PROVE TypeOK'
<1>1. ASSUME NEW n \in Names \cup {NoName}, RequestRefresh(n) PROVE TypeOK'
  <2>1. TableOK'
    BY <1>1 DEF RequestRefresh, TableOK, TypeOK, Called, Known
  <2>2. WorldOK'
    BY <1>1, SpendType, Parts DEF RequestRefresh, WorldOK, outside
  <2> QED BY <1>1, <2>1, <2>2, Unchanged, PartsNext DEF RequestRefresh
<1>2. ASSUME NEW n \in Names, Invalidate(n) PROVE TypeOK'
  <2>1. gen' \in [Services -> Nat] /\ nextGen' \in Nat
    BY <1>2, CalledSize DEF Invalidate, Renewed, TypeOK
  <2>2. TableOK' /\ CacheOK'
    BY <1>2, <2>1, CalledSize DEF Invalidate, TableOK, CacheOK, TypeOK, Opt
  <2>3. WorldOK'
    BY <1>2, SpendType, Parts DEF Invalidate, WorldOK, outside
  <2> QED BY <1>2, <2>2, <2>3, Unchanged, PartsNext DEF Invalidate
<1>3. CASE Stop
  <2>1. MainOK' /\ WorkerOK'
    BY <1>3, WorkerType DEF Stop, MainOK
  <2> QED BY <1>3, <2>1, Unchanged, PartsNext DEF Stop
<1>4. CASE Joined
  <2>1. MainOK' /\ JobsOK' /\ AvahiOK'
    BY <1>4 DEF Joined, MainOK, JobsOK, AvahiOK, TypeOK
  <2> QED BY <1>4, <2>1, Unchanged, PartsNext DEF Joined
<1> QED BY <1>1, <1>2, <1>3, <1>4 DEF Control

LEMMA NetworkType == ASSUME TypeOK, Network PROVE TypeOK'
<1>1. ASSUME NEW x \in Changes, Announce(x) PROVE TypeOK'
  <2>1. x \in Announcement
    BY ConstantsAssumption
  <2>2. WorldOK'
    BY <1>1, <2>1, MoveType DEF Announce, WorldOK, TypeOK, WorldType, Announcement, Opt
  <2> QED BY <1>1, <2>2, Unchanged, PartsNext DEF Announce
<1>2. ASSUME NEW s \in Services, Withdraw(s) PROVE TypeOK'
  <2>1. WorldOK'
    BY <1>2, MoveType DEF Withdraw, WorldOK, TypeOK, WorldType, Opt
  <2> QED BY <1>2, <2>1, Unchanged, PartsNext DEF Withdraw
<1>3. ASSUME NEW a \in Addrs, AnswersChange(a) PROVE TypeOK'
  <2>1. WorldOK'
    BY <1>3, MoveType DEF AnswersChange, WorldOK, TypeOK, Opt
  <2> QED BY <1>3, <2>1, Unchanged, PartsNext DEF AnswersChange
<1> QED BY <1>1, <1>2, <1>3 DEF Network

-----------------------------------------------------------------------------
(* Type correctness: whatever the threads, the libraries and the network do *)
(* and however often, the tables, the cache, the queue and the locals of    *)
(* the threads (src/simpleserved.c, SSDaemon) stay in their domains.        *)
LEMMA TypeInit == ASSUME Init PROVE TypeOK
<1>1. world \in WorldType /\ peer \in [Addrs -> Opt(Names)]
      /\ budget \in [moves : Nat, faults : Nat, asks : Nat]
  BY ConstantsAssumption DEF Init
<1>2. AvOK /\ WorkerOK
  BY DEF Init, AvOK, WorkerOK, AvIdle, WorkerIdle, Opt
<1>3. TableOK /\ CacheOK
  BY DEF Init, TableOK, CacheOK, Opt
<1>4. JobsOK
  BY DEF Init, JobsOK
<1>5. AvahiOK /\ MainOK
  BY DEF Init, AvahiOK, MainOK
<1>6. WorldOK
  BY <1>1 DEF Init, WorldOK
<1> QED BY <1>2, <1>3, <1>4, <1>5, <1>6, Parts

LEMMA TypeStep == ASSUME TypeOK, [Next]_vars PROVE TypeOK'
<1>1. CASE AvahiThread
  BY <1>1, BrowserNewType, BrowserRemoveType, BrowserFailsType, ClientFailsType,
     PollFailsType, RestartClientType, ClientRunsType, RestartBrowserType,
     StartResolverType, ResolverStartsType, ResolverRefusedType, ResolverFoundType,
     ResolverFailedType, ResolverDoneType, AvahiThreadExitsType DEF AvahiThread
<1>2. CASE UNCHANGED vars
  BY <1>2, Unchanged, PartsNext DEF vars, table, avahi, outside
<1> QED BY <1>1, <1>2, WorkerStepType, ControlType, NetworkType DEF Next

THEOREM TypeCorrect == Spec => []TypeOK
<1>1. Init => TypeOK
  BY TypeInit
<1>2. TypeOK /\ [Next]_vars => TypeOK'
  BY TypeStep
<1> QED BY <1>1, <1>2, PTL DEF Spec

-----------------------------------------------------------------------------
(* Fetches under way. *)

(* Two fetches of one service and generation would be the same one; these   *)
(* are the facts of IInv about a single fetch.                              *)
LEMMA FetchFacts ==
  ASSUME IInv, NEW j \in InFlight
  PROVE  /\ j \in Job
         /\ j.gen <= nextGen
         /\ Live(j) => j.svc \in pending /\ serverName[j.svc] = j.name
         /\ Live(j) /\ j.name \in dismissed =>
              world[j.svc] = [name |-> j.name, addr |-> j.addr]
<1>1. j \in Job
  <2>1. CASE j \in {jobs[i] : i \in DOMAIN jobs}
    BY <2>1 DEF IInv, TypeOK
  <2>2. CASE j \in {worker.job} \ {None}
    BY <2>2 DEF IInv, TypeOK, Opt
  <2> QED BY <2>1, <2>2 DEF InFlight
<1> QED BY <1>1 DEF IInv, GenerationsOK, FetchesMarked, DismissedFetchCurrent

(* A step that starts no fetch and drops none keeps them in order, if those *)
(* that still count counted before and kept their mark and name.            *)
LEMMA FetchesKept ==
  ASSUME IInv, jobs' = jobs, worker'.job = worker.job,
         \A j \in InFlight : Live(j)' =>
            Live(j) /\ j.svc \in pending' /\ serverName'[j.svc] = j.name
  PROVE  FetchesMarked' /\ OneFetchEach'
<1>1. InFlight' = InFlight
  BY DEF InFlight
<1>2. FetchesMarked'
  BY <1>1 DEF FetchesMarked
<1>3. \A i \in DOMAIN jobs : Live(jobs[i])' => Live(jobs[i])
  BY DEF InFlight
<1>4. worker.job # None /\ Live(worker.job)' => Live(worker.job)
  BY DEF InFlight
<1>5. OneFetchEach'
  BY <1>3, <1>4 DEF IInv, OneFetchEach, Live
<1> QED BY <1>2, <1>5

LEMMA CurrentKept ==
  ASSUME IInv, jobs' = jobs, worker'.job = worker.job,
         \A j \in InFlight : Live(j)' => Live(j),
         UNCHANGED <<world, dismissed>>
  PROVE  DismissedFetchCurrent'
<1>1. InFlight' = InFlight
  BY DEF InFlight
<1> QED BY <1>1 DEF IInv, DismissedFetchCurrent

(* Nothing enters the cache. *)
LEMMA CacheKept ==
  ASSUME IInv, TypeOK', UNCHANGED <<world, dismissed>>,
         \A n \in Names : remotes'[n] = remotes[n] \/ remotes'[n] = None
  PROVE  DismissedAddressStaysGone'
BY DEF IInv, DismissedAddressStaysGone, Cached, Advertised

(* Steps that touch none of this. *)
LEMMA CoreSame ==
  ASSUME IInv, TypeOK', worker'.job = worker.job,
         UNCHANGED <<gen, nextGen, serverName, pending, remotes, jobs, world, dismissed>>
  PROVE  IInv'
<1>1. InFlight' = InFlight
  BY DEF InFlight
<1>2. \A j \in InFlight : Live(j)' <=> Live(j)
  BY DEF Live
<1>3. GenerationsOK'
  BY <1>1 DEF IInv, GenerationsOK, Known
<1>4. FetchesMarked' /\ OneFetchEach'
  BY <1>2, FetchesKept, FetchFacts
<1>5. DismissedFetchCurrent' /\ DismissedAddressStaysGone'
  BY <1>2, CurrentKept, CacheKept
<1> QED BY <1>3, <1>4, <1>5 DEF IInv

-----------------------------------------------------------------------------
(* The steps that change what the invariant is about. *)

(* A service that joins the table gets a generation nothing has seen.       *)
LEMMA BrowserNewCore ==
  ASSUME IInv, TypeOK', NEW s \in Services, BrowserNew(s) PROVE IInv'
<1>1. CASE UNCHANGED table
  BY <1>1, CoreSame DEF BrowserNew, table, outside
<1>2. CASE /\ gen[s] = 0 /\ nextGen' = nextGen + 1
           /\ gen' = [gen EXCEPT ![s] = nextGen + 1]
           /\ UNCHANGED <<serverName, pending>>
  <2>1. UNCHANGED <<remotes, jobs, worker, world, dismissed>>
    BY DEF BrowserNew, outside
  <2>2. gen \in [Services -> Nat] /\ nextGen \in Nat
    BY DEF IInv, TypeOK
  <2>3. \A j \in InFlight : j.svc \in Services /\ j.gen \in Nat /\ j.gen <= nextGen
    BY FetchFacts DEF Job
  <2>4. \A j \in InFlight : Live(j)' => Live(j)
    BY <1>2, <2>2, <2>3 DEF Live
  <2>5. FetchesMarked' /\ OneFetchEach'
    BY <1>2, <2>1, <2>4, FetchesKept, FetchFacts
  <2>6. DismissedFetchCurrent' /\ DismissedAddressStaysGone'
    BY <2>1, <2>4, CurrentKept, CacheKept
  <2>7. GenerationsOK'
    <3>1. InFlight' = InFlight
      BY <2>1 DEF InFlight
    <3>2. \A j \in InFlight : j.gen <= nextGen'
      BY <1>2, <2>2, <2>3
    <3>3. \A t \in Services : gen'[t] <= nextGen'
      BY <1>2, <2>2 DEF IInv, GenerationsOK
    <3>4. \A t, u \in Known' : gen'[t] = gen'[u] => t = u
      BY <1>2, <2>2 DEF IInv, GenerationsOK, Known
    <3> QED BY <3>1, <3>2, <3>3, <3>4 DEF GenerationsOK
  <2> QED BY <2>5, <2>6, <2>7 DEF IInv
<1> QED BY <1>1, <1>2 DEF BrowserNew, AddService

(* Services that leave the table take their mark and their fetch along.     *)
LEMMA BrowserRemoveCore ==
  ASSUME IInv, TypeOK', NEW s \in Services, BrowserRemove(s) PROVE IInv'
<1>1. CASE s \notin Known
  BY <1>1, CoreSame DEF BrowserRemove, table, outside
<1>2. CASE s \in Known
  <2>1. /\ DropSourced(gen[s]) /\ gen' = [gen EXCEPT ![s] = 0] /\ nextGen' = nextGen
        /\ serverName' = [serverName EXCEPT ![s] = NoName]
        /\ pending' = pending \ {s}
    BY <1>2 DEF BrowserRemove, RemoveService
  <2>2. UNCHANGED <<jobs, worker, world, dismissed>>
    BY DEF BrowserRemove, outside
  <2>3. /\ gen \in [Services -> Nat] /\ nextGen \in Nat
        /\ serverName \in [Services -> Names \cup {NoName}]
        /\ remotes \in [Names -> Opt(Remote)]
    BY DEF IInv, TypeOK
  <2>4. \A j \in InFlight : Live(j)' => Live(j) /\ j.svc # s
    BY <2>1, <2>3, FetchFacts DEF Live, Job
  <2>5. \A j \in InFlight : Live(j)' => j.svc \in pending' /\ serverName'[j.svc] = j.name
    BY <2>1, <2>3, <2>4, FetchFacts DEF Job
  <2>6. FetchesMarked' /\ OneFetchEach'
    BY <2>2, <2>4, <2>5, FetchesKept
  <2>7. \A n \in Names : remotes'[n] = remotes[n] \/ remotes'[n] = None
    BY <2>1, <2>3 DEF DropSourced
  <2>8. DismissedFetchCurrent' /\ DismissedAddressStaysGone'
    BY <2>2, <2>4, <2>7, CurrentKept, CacheKept
  <2>9. GenerationsOK'
    <3>1. InFlight' = InFlight
      BY <2>2 DEF InFlight
    <3> QED BY <2>1, <2>3, <3>1 DEF IInv, GenerationsOK, Known
  <2> QED BY <2>6, <2>8, <2>9 DEF IInv
<1> QED BY <1>1, <1>2

(* A cleared discovery has no fetch that counts. *)
LEMMA ClearCore ==
  ASSUME IInv, TypeOK', ClearDiscovery, UNCHANGED <<worker, world, dismissed>>
  PROVE  IInv'
<1>1. /\ gen' = [t \in Services |-> 0] /\ nextGen' = nextGen
      /\ jobs' = <<>> /\ remotes' = [n \in Names |-> None]
  BY DEF ClearDiscovery
<1>2. InFlight' \subseteq InFlight
  BY <1>1 DEF InFlight
<1>3. \A j \in InFlight' : j \in Job /\ j.gen <= nextGen' /\ ~Live(j)'
  BY <1>1, <1>2, FetchFacts DEF Live, Job
<1>4. GenerationsOK'
  BY <1>1, <1>3 DEF GenerationsOK, Known, IInv, TypeOK
<1>5. FetchesMarked' /\ DismissedFetchCurrent'
  BY <1>3 DEF FetchesMarked, DismissedFetchCurrent
<1>6. OneFetchEach'
  BY <1>1 DEF OneFetchEach
<1>7. DismissedAddressStaysGone'
  BY <1>1 DEF DismissedAddressStaysGone, Cached
<1> QED BY <1>4, <1>5, <1>6, <1>7 DEF IInv

(* A resolver leaves a fetch behind only for a service that has none, with  *)
(* the address that is announced.                                           *)
LEMMA ResolverFoundCore ==
  ASSUME IInv, TypeOK', NEW c \in contexts, ResolverFound(c) PROVE IInv'
<1>1. /\ c \in Context /\ c.svc \in Services /\ c.gen \in Nat
      /\ gen \in [Services -> Nat] /\ jobs \in Seq(Job)
      /\ serverName \in [Services -> Names \cup {NoName}]
  BY DEF IInv, TypeOK, Context
<1>2. UNCHANGED <<gen, nextGen, remotes, world, dismissed>>
  BY DEF ResolverFound, outside
<1>3. Woken.job = worker.job
  BY DEF IInv, TypeOK, Woken, WorkerIdle
<1>4. CASE UNCHANGED <<jobs, serverName, pending, worker>>
  BY <1>2, <1>4, CoreSame
<1>5. ASSUME NEW j \in Job,
             j.svc = c.svc, j.gen = c.gen,
             world[j.svc] = [name |-> j.name, addr |-> j.addr],
             Live(c), c.svc \notin pending,
             jobs' = Append(jobs, j),
             serverName' = [serverName EXCEPT ![c.svc] = j.name],
             pending' = pending \cup {c.svc},
             worker' = Woken
      PROVE IInv'
  <2>1. /\ DOMAIN jobs' = DOMAIN jobs \cup {Len(jobs) + 1}
        /\ \A i \in DOMAIN jobs : jobs'[i] = jobs[i]
        /\ jobs'[Len(jobs) + 1] = j /\ Len(jobs) + 1 \notin DOMAIN jobs
    BY <1>1, <1>5
  <2>2. InFlight' = InFlight \cup {j}
    BY <1>3, <1>5, <2>1 DEF InFlight
  <2>3. \A x : Live(x)' <=> Live(x)
    BY <1>2 DEF Live
  <2>4. \A x \in InFlight : Live(x) => x.svc # c.svc
    BY <1>5, FetchFacts
  <2>5. Live(j) /\ j.gen <= nextGen
    BY <1>1, <1>5 DEF Live, IInv, GenerationsOK
  <2>6. GenerationsOK'
    BY <1>2, <2>2, <2>5 DEF IInv, GenerationsOK, Known
  <2>7. FetchesMarked'
    <3>1. \A x \in InFlight : Live(x) => x.svc \in pending' /\ serverName'[x.svc] = x.name
      BY <1>1, <1>5, <2>4, FetchFacts DEF Job
    <3>2. j.svc \in pending' /\ serverName'[j.svc] = j.name
      BY <1>1, <1>5
    <3> QED BY <2>2, <2>3, <3>1, <3>2 DEF FetchesMarked
  <2>8. OneFetchEach'
    <3>1. \A i \in DOMAIN jobs : Live(jobs[i]) => jobs[i].svc # j.svc
      BY <1>5, <2>4 DEF InFlight
    <3>2. worker.job # None /\ Live(worker.job) => worker.job.svc # j.svc
      BY <1>5, <2>4 DEF InFlight
    <3> QED BY <1>3, <1>5, <2>1, <2>3, <3>1, <3>2 DEF IInv, OneFetchEach
  <2>9. DismissedFetchCurrent'
    BY <1>2, <1>5, <2>2, <2>3, FetchFacts DEF DismissedFetchCurrent
  <2>10. DismissedAddressStaysGone'
    BY <1>2, CacheKept
  <2> QED BY <2>6, <2>7, <2>8, <2>9, <2>10 DEF IInv
<1>6. CASE ~UNCHANGED <<jobs, serverName, pending, worker>>
  <2> DEFINE a == world[c.svc]
             j == [svc |-> c.svc, gen |-> c.gen, name |-> a.name, addr |-> a.addr]
  <2>1. a \in [name : Names, addr : Addrs]
    BY <1>1 DEF ResolverFound, IInv, TypeOK, WorldType, Opt
  <2>2. j \in Job /\ a = [name |-> a.name, addr |-> a.addr]
    BY <1>1, <2>1 DEF Job
  <2>3. /\ Live(c) /\ c.svc \notin pending
        /\ jobs' = Append(jobs, j)
        /\ serverName' = [serverName EXCEPT ![c.svc] = a.name]
        /\ pending' = pending \cup {c.svc}
        /\ worker' = Woken
    BY <1>6, Zenon DEF ResolverFound, QueueManifest
  <2>4. j.svc = c.svc /\ j.gen = c.gen /\ j.name = a.name /\ j.addr = a.addr
    OBVIOUS
  <2>5. world[j.svc] = [name |-> j.name, addr |-> j.addr]
    BY <2>2, <2>4
  <2> HIDE DEF j
  <2> QED BY <1>5, <2>2, <2>3, <2>4, <2>5
<1> QED BY <1>4, <1>6

(* The worker takes the first fetch of the queue: none is lost or doubled.  *)
LEMMA WorkerTakesCore == ASSUME IInv, TypeOK', WorkerTakes PROVE IInv'
<1>1. /\ worker'.job = Head(jobs) /\ jobs' = Tail(jobs) /\ jobs # <<>>
      /\ UNCHANGED <<gen, nextGen, serverName, pending, remotes, world, dismissed>>
  BY DEF WorkerTakes, table, outside
<1>2. jobs \in Seq(Job) /\ worker.job = None
  BY DEF IInv, TypeOK, WorkerTakes
<1>3. /\ Head(jobs) = jobs[1] /\ 1 \in DOMAIN jobs
      /\ \A i \in DOMAIN jobs' : i + 1 \in DOMAIN jobs /\ i + 1 # 1 /\ jobs'[i] = jobs[i + 1]
      /\ DOMAIN jobs' \subseteq Int
  BY <1>1, <1>2
<1>4. InFlight' \subseteq InFlight
  BY <1>1, <1>3 DEF InFlight
<1>5. \A x : Live(x)' <=> Live(x)
  BY <1>1 DEF Live
<1>6. GenerationsOK' /\ FetchesMarked' /\ DismissedFetchCurrent'
  BY <1>1, <1>4, <1>5 DEF IInv, GenerationsOK, Known, FetchesMarked, DismissedFetchCurrent
<1>7. OneFetchEach'
  <2>1. ASSUME NEW i \in DOMAIN jobs', NEW k \in DOMAIN jobs',
               Live(jobs'[i]), Live(jobs'[k]), jobs'[i].svc = jobs'[k].svc
        PROVE  i = k
    <3>1. i + 1 = k + 1
      BY <1>3, <2>1 DEF IInv, OneFetchEach
    <3> QED BY <1>3, <3>1
  <2>2. ASSUME NEW i \in DOMAIN jobs', Live(jobs[1]), Live(jobs'[i])
        PROVE  jobs'[i].svc # jobs[1].svc
    BY <1>3, <2>2 DEF IInv, OneFetchEach
  <2> QED BY <1>1, <1>3, <1>5, <2>1, <2>2 DEF OneFetchEach
<1>8. DismissedAddressStaysGone'
  BY <1>1, CacheKept
<1> QED BY <1>6, <1>7, <1>8 DEF IInv

(* What the worker stores for a dismissed peer is an address the peer is    *)
(* announced at, and no other fetch of that service counts.                 *)
LEMMA WorkerStoresCore == ASSUME IInv, TypeOK', WorkerStores PROVE IInv'
<1> DEFINE j == worker.job
<1>1. /\ CacheManifest(j, worker.got) /\ worker'.job = None
      /\ UNCHANGED <<gen, nextGen, serverName, jobs, world, dismissed>>
  BY DEF WorkerStores, WorkerIdle, outside
<1>2. j # None /\ j \in InFlight
  BY DEF WorkerStores, IInv, TypeOK, InFlight
<1>3. j \in Job /\ j.svc \in Services /\ j.name \in Names
  BY <1>2, FetchFacts DEF Job
<1>4. InFlight' = {jobs[i] : i \in DOMAIN jobs}
  BY <1>1 DEF InFlight
<1>5. InFlight' \subseteq InFlight
  BY <1>4 DEF InFlight
<1>6. \A x : Live(x)' <=> Live(x)
  BY <1>1 DEF Live
<1>7. GenerationsOK' /\ DismissedFetchCurrent'
  BY <1>1, <1>5, <1>6 DEF IInv, GenerationsOK, Known, DismissedFetchCurrent
<1>8. OneFetchEach'
  BY <1>1, <1>6 DEF IInv, OneFetchEach
<1>9. FetchesMarked'
  <2>1. pending' = pending \/ (Live(j) /\ pending' = pending \ {j.svc})
    BY <1>1 DEF CacheManifest
  <2>2. ASSUME NEW x \in InFlight', Live(x) PROVE x.svc \in pending' /\ serverName[x.svc] = x.name
    <3>1. x.svc \in pending /\ serverName[x.svc] = x.name
      BY <1>5, <2>2, FetchFacts
    <3>2. Live(j) => x.svc # j.svc
      BY <1>2, <1>4, <2>2 DEF IInv, OneFetchEach
    <3> QED BY <2>1, <3>1, <3>2
  <2> QED BY <1>1, <1>6, <2>2 DEF FetchesMarked
<1>10. DismissedAddressStaysGone'
  <2>1. CASE remotes' = remotes
    BY <1>1, <2>1, CacheKept
  <2>2. CASE remotes' # remotes
    <3>1. /\ Live(j)
          /\ remotes' = [remotes EXCEPT ![j.name] = [addr |-> j.addr, source |-> j.gen]]
      BY <1>1, <2>2 DEF CacheManifest
    <3>2. remotes \in [Names -> Opt(Remote)] /\ world \in WorldType
      BY DEF IInv, TypeOK
    <3>3. ASSUME NEW n \in dismissed, n \in Cached', n = j.name
          PROVE \E s \in Advertised(n) : world[s].addr = remotes'[n].addr
      <4>1. world[j.svc] = [name |-> j.name, addr |-> j.addr]
        BY <1>2, <3>1, <3>3, FetchFacts
      <4>2. world[j.svc].name = n /\ world[j.svc].addr = j.addr /\ world[j.svc] # None
        <5>1. [name |-> j.name, addr |-> j.addr] \in [name : Names, addr : Addrs]
          BY <1>3 DEF Job
        <5> QED BY <3>3, <4>1, <5>1, NoneAssumption
      <4>3. remotes'[n].addr = j.addr
        BY <1>3, <3>1, <3>2, <3>3
      <4> QED BY <1>3, <4>2, <4>3 DEF Advertised
    <3>4. ASSUME NEW n \in dismissed, n \in Cached', n # j.name
          PROVE \E s \in Advertised(n) : world[s].addr = remotes'[n].addr
      <4>1. n \in Names /\ remotes'[n] = remotes[n] /\ n \in Cached
        BY <3>1, <3>2, <3>4 DEF Cached
      <4> QED BY <4>1 DEF IInv, DismissedAddressStaysGone
    <3>5. dismissed' = dismissed /\ world' = world
      BY <1>1
    <3> QED BY <3>3, <3>4, <3>5 DEF DismissedAddressStaysGone, Advertised
  <2> QED BY <2>1, <2>2
<1> QED BY <1>7, <1>8, <1>9, <1>10 DEF IInv

(* A dismissal outdates every fetch that knows the peer's old address: it   *)
(* goes by the name of its service, and every service of that name starts   *)
(* under a generation that no fetch has.                                    *)
LEMMA InvalidateCore ==
  ASSUME IInv, TypeOK', NEW n \in Names, Invalidate(n) PROVE IInv'
<1> DEFINE S == Called(n)
           k == Cardinality(S)
<1>1. S \subseteq Services /\ k \in Nat
  BY CalledSize
<1>2. /\ gen \in [Services -> Nat] /\ nextGen \in Nat
      /\ remotes \in [Names -> Opt(Remote)]
  BY DEF IInv, TypeOK
<1>3. /\ Renewed(S)
      /\ remotes' = [remotes EXCEPT ![n] = None]
      /\ pending' = pending \ S
      /\ dismissed' = dismissed \cup {n}
      /\ UNCHANGED <<serverName, jobs, worker, world>>
  BY DEF Invalidate, outside
<1>4. /\ gen' \in [Services -> 0..(nextGen + k)]
      /\ \A s \in S : gen'[s] > nextGen
      /\ \A s \in Services \ S : gen'[s] = gen[s]
      /\ \A s, t \in S : gen'[s] = gen'[t] => s = t
      /\ nextGen' = nextGen + k
  BY <1>3 DEF Renewed
<1>5. \A j \in InFlight : j \in Job /\ j.svc \in Services /\ j.gen \in Nat /\ j.gen <= nextGen
  BY FetchFacts DEF Job
<1>6. ASSUME NEW j \in InFlight, Live(j)' PROVE Live(j) /\ j.svc \notin S /\ j.name # n
  <2>1. gen'[j.svc] # 0 /\ gen'[j.svc] = j.gen
    BY <1>6 DEF Live
  <2>2. j.svc \notin S
    BY <1>2, <1>4, <1>5, <2>1
  <2>3. Live(j)
    BY <1>4, <1>5, <2>1, <2>2 DEF Live
  <2>4. j.name # n
    BY <1>5, <2>2, <2>3, FetchFacts DEF Called, Known, Live
  <2> QED BY <2>2, <2>3, <2>4
<1>7. InFlight' = InFlight
  BY <1>3 DEF InFlight
<1>8. FetchesMarked' /\ OneFetchEach'
  BY <1>3, <1>6, FetchesKept, FetchFacts
<1>9. DismissedFetchCurrent'
  BY <1>3, <1>6, <1>7, FetchFacts DEF DismissedFetchCurrent
<1>10. DismissedAddressStaysGone'
  <2>1. \A m \in Cached' : m \in Cached /\ m # n /\ remotes'[m] = remotes[m]
    BY <1>2, <1>3 DEF Cached
  <2> QED BY <1>3, <2>1 DEF IInv, DismissedAddressStaysGone, Advertised
<1>11. GenerationsOK'
  <2>1. \A j \in InFlight : j.gen <= nextGen'
    BY <1>1, <1>2, <1>4, <1>5
  <2>2. \A s \in Services : gen'[s] <= nextGen'
    BY <1>1, <1>2, <1>4
  <2>3. \A s \in Services : gen[s] <= nextGen
    BY DEF IInv, GenerationsOK
  <2>4. ASSUME NEW s \in Services, NEW t \in Services,
               gen'[s] # 0, gen'[t] # 0, gen'[s] = gen'[t]
        PROVE  s = t
    <3>1. CASE s \in S /\ t \in S
      BY <1>4, <2>4, <3>1
    <3>2. CASE s \notin S /\ t \notin S
      BY <1>4, <2>4, <3>2 DEF IInv, GenerationsOK, Known
    <3>3. CASE s \in S /\ t \notin S
      <4>1. gen'[s] > nextGen /\ gen'[t] = gen[t] /\ gen[t] <= nextGen
        BY <1>4, <2>3, <3>3
      <4> QED BY <1>2, <2>4, <4>1
    <3>4. CASE s \notin S /\ t \in S
      <4>1. gen'[t] > nextGen /\ gen'[s] = gen[s] /\ gen[s] <= nextGen
        BY <1>4, <2>3, <3>4
      <4> QED BY <1>2, <2>4, <4>1
    <3> QED BY <3>1, <3>2, <3>3, <3>4
  <2> QED BY <1>7, <2>1, <2>2, <2>4 DEF GenerationsOK, Known
<1> QED BY <1>8, <1>9, <1>10, <1>11 DEF IInv

(* When a peer announces itself at another address it is no longer held to  *)
(* the old one.                                                             *)
LEMMA NetworkCore == ASSUME IInv, TypeOK', Network PROVE IInv'
<1>1. ASSUME NEW a \in Addrs, AnswersChange(a) PROVE IInv'
  BY <1>1, CoreSame DEF AnswersChange, table
<1>2. ASSUME NEW s \in Services, NEW y \in Opt([name : Names, addr : Addrs]),
             world' = [world EXCEPT ![s] = y],
             dismissed' \subseteq dismissed \ AnnouncedBy(s),
             UNCHANGED <<gen, nextGen, serverName, pending, remotes, jobs, worker>>
      PROVE  IInv'
  <2>1. world \in WorldType /\ dismissed \subseteq Names
    BY DEF IInv, TypeOK
  <2>2. InFlight' = InFlight /\ \A x : Live(x)' <=> Live(x)
    BY <1>2 DEF InFlight, Live
  <2>3. GenerationsOK' /\ FetchesMarked' /\ OneFetchEach'
    BY <1>2, <2>2 DEF IInv, GenerationsOK, Known, FetchesMarked, OneFetchEach
  <2>4. ASSUME NEW j \in InFlight, Live(j), j.name \in dismissed'
        PROVE  world'[j.svc] = [name |-> j.name, addr |-> j.addr]
    <3>1. j \in Job /\ j.svc \in Services /\ j.name \in Names /\ j.addr \in Addrs
      BY FetchFacts DEF Job
    <3>2. world[j.svc] = [name |-> j.name, addr |-> j.addr]
      BY <1>2, <2>4, FetchFacts
    <3>3. world[j.svc] # None /\ world[j.svc].name = j.name
      BY <3>1, <3>2, NoneAssumption
    <3>4. j.svc # s
      BY <1>2, <2>4, <3>1, <3>3 DEF AnnouncedBy, Advertised
    <3> QED BY <1>2, <2>1, <3>1, <3>2, <3>4 DEF WorldType
  <2>5. DismissedFetchCurrent'
    BY <2>2, <2>4 DEF DismissedFetchCurrent
  <2>6. ASSUME NEW n \in dismissed', n \in Cached
        PROVE  \E t \in Advertised(n)' : world'[t].addr = remotes[n].addr
    <3>1. PICK t \in Advertised(n) : world[t].addr = remotes[n].addr
      BY <1>2, <2>6 DEF IInv, DismissedAddressStaysGone
    <3>2. t # s
      BY <1>2, <2>1, <2>6, <3>1 DEF AnnouncedBy
    <3>3. t \in Services /\ world'[t] = world[t]
      BY <1>2, <2>1, <3>1, <3>2 DEF Advertised, WorldType
    <3> QED BY <3>1, <3>3 DEF Advertised
  <2>7. DismissedAddressStaysGone'
    BY <1>2, <2>6 DEF DismissedAddressStaysGone, Cached
  <2> QED BY <2>3, <2>5, <2>7 DEF IInv
<1>3. ASSUME NEW x \in Changes, Announce(x) PROVE IInv'
  <2>1. x.svc \in Services /\ [name |-> x.name, addr |-> x.addr] \in [name : Names, addr : Addrs]
    BY ConstantsAssumption DEF Announcement
  <2> QED BY <1>2, <1>3, <2>1 DEF Announce, table, Opt
<1>4. ASSUME NEW s \in Services, Withdraw(s) PROVE IInv'
  BY <1>2, <1>4 DEF Withdraw, table, Opt
<1> QED BY <1>1, <1>3, <1>4 DEF Network

-----------------------------------------------------------------------------
LEMMA InvInit == ASSUME Init PROVE IInv
<1>1. TypeOK
  BY TypeInit
<1>2. InFlight = {} /\ Known = {} /\ Cached = {}
  BY DEF Init, InFlight, WorkerIdle, Known, Cached
<1>3. OneFetchEach
  BY DEF Init, OneFetchEach, WorkerIdle
<1>4. GenerationsOK
  BY <1>2 DEF Init, GenerationsOK
<1> QED BY <1>1, <1>2, <1>3, <1>4
        DEF IInv, FetchesMarked, DismissedFetchCurrent, DismissedAddressStaysGone

(* Steps of the Avahi thread. *)
LEMMA AvahiCore == ASSUME IInv, TypeOK', AvahiThread PROVE IInv'
<1>1. CASE BrowserFails \/ ClientFails \/ PollFails
  BY <1>1, ClearCore DEF BrowserFails, ClientFails, PollFails, outside
<1>2. CASE RestartClient \/ ClientRuns \/ RestartBrowser \/ ResolverStarts \/ AvahiThreadExits
  BY <1>2, CoreSame
     DEF RestartClient, ClientRuns, RestartBrowser, ResolverStarts, AvahiThreadExits, table, outside
<1>3. CASE ResolverRefused \/ ResolverDone
  BY <1>3, CoreSame DEF ResolverRefused, ResolverDone, outside
<1>4. ASSUME NEW s \in Services, StartResolver(s) PROVE IInv'
  BY <1>4, CoreSame DEF StartResolver, outside
<1>5. ASSUME NEW c \in contexts, ResolverFailed(c) PROVE IInv'
  BY <1>5, CoreSame DEF ResolverFailed, table, outside
<1> QED BY <1>1, <1>2, <1>3, <1>4, <1>5, BrowserNewCore, BrowserRemoveCore,
           ResolverFoundCore DEF AvahiThread

LEMMA WorkerCore == ASSUME IInv, TypeOK', Worker PROVE IInv'
<1>1. CASE WorkerWaits \/ WorkerExits
  <2>1. worker.job = None /\ worker'.job = None
    BY <1>1 DEF WorkerWaits, WorkerExits, IInv, TypeOK
  <2> QED BY <1>1, <2>1, CoreSame DEF WorkerWaits, WorkerExits, table, outside
<1>2. CASE WorkerFetches
  <2>1. worker'.job = worker.job
    BY <1>2 DEF WorkerFetches, Fetched
  <2> QED BY <1>2, <2>1, CoreSame DEF WorkerFetches, table, outside
<1> QED BY <1>1, <1>2, WorkerTakesCore, WorkerStoresCore DEF Worker

LEMMA ControlCore == ASSUME IInv, TypeOK', Control PROVE IInv'
<1>1. ASSUME NEW n \in Names \cup {NoName}, RequestRefresh(n) PROVE IInv'
  BY <1>1, CoreSame DEF RequestRefresh, outside
<1>2. CASE Stop
  <2>1. worker'.job = worker.job
    BY <1>2 DEF Stop, Woken, WorkerIdle, IInv, TypeOK
  <2> QED BY <1>2, <2>1, CoreSame DEF Stop, table, outside
<1>3. CASE Joined
  BY <1>3, CoreSame DEF Joined, table, outside
<1> QED BY <1>1, <1>2, <1>3, InvalidateCore DEF Control

LEMMA InvStep == ASSUME IInv, [Next]_vars PROVE IInv'
<1>1. TypeOK'
  BY TypeStep DEF IInv
<1>2. CASE UNCHANGED vars
  BY <1>1, <1>2, CoreSame DEF vars
<1> QED BY <1>1, <1>2, AvahiCore, WorkerCore, ControlCore, NetworkCore DEF Next

(* The invariant behind the next theorem: generations are never reused, a   *)
(* fetch that still counts is marked, unique in its service, filed under    *)
(* the name its service goes by (queue_manifest_locked), and, once its peer *)
(* has been dismissed, current.                                             *)
THEOREM Invariant == Spec => []IInv
<1>1. Init => IInv
  BY InvInit
<1>2. IInv /\ [Next]_vars => IInv'
  BY InvStep
<1> QED BY <1>1, <1>2, PTL DEF Spec

(* invalidate_remote_and_refresh keeps its promise: whatever resolvers,     *)
(* queued fetches and a fetch in flight know of the peer at the time, the   *)
(* peer is cached again only under an address it is announced at.           *)
THEOREM DismissedStaysGone == Spec => []DismissedAddressStaysGone
<1>1. IInv => DismissedAddressStaysGone
  BY DEF IInv
<1> QED BY <1>1, Invariant, PTL

-----------------------------------------------------------------------------
(* The cache without ghosts.  A service goes by one server name for good, as *)
(* the publisher sees to (it derives the instance name from the server      *)
(* name); NameOf is that name.                                              *)

StableNames(NameOf) ==
  /\ NameOf \in [Services -> Names]
  /\ \A W \in Worlds, s \in Services : W[s] # None => W[s].name = NameOf[s]
  /\ \A x \in Changes : x.name = NameOf[x.svc]

NamesKept(NameOf) ==
  /\ \A s \in Services : world[s] # None => world[s].name = NameOf[s]
  /\ \A s \in Services : serverName[s] \in {NoName, NameOf[s]}
  /\ \A j \in InFlight : j.name = NameOf[j.svc]

NoGhosts(NameOf) ==
  \A n \in Cached : \E s \in Known : gen[s] = remotes[n].source /\ NameOf[s] = n

LEMMA NamesInit ==
  ASSUME NEW NameOf, StableNames(NameOf), Init
  PROVE  NamesKept(NameOf) /\ NoGhosts(NameOf)
<1>1. InFlight = {} /\ Cached = {}
  BY DEF Init, InFlight, WorkerIdle, Cached
<1> QED BY <1>1 DEF Init, NamesKept, NoGhosts, StableNames

(* Names: what is announced, filed and fetched. *)
LEMMA NamesStep ==
  ASSUME NEW NameOf, StableNames(NameOf), IInv, NamesKept(NameOf), [Next]_vars
  PROVE  NamesKept(NameOf)'
<1>0. TypeOK /\ TypeOK'
  BY TypeStep DEF IInv
<1>1. ASSUME world' = world, serverName' = serverName, InFlight' \subseteq InFlight
      PROVE  NamesKept(NameOf)'
  BY <1>1 DEF NamesKept
<1>2. ASSUME NEW s \in Services, BrowserNew(s) PROVE NamesKept(NameOf)'
  BY <1>1, <1>2 DEF BrowserNew, AddService, table, outside, InFlight
<1>3. ASSUME NEW s \in Services, BrowserRemove(s) PROVE NamesKept(NameOf)'
  <2>1. InFlight' = InFlight /\ world' = world
    BY <1>3 DEF BrowserRemove, InFlight, outside
  <2>2. \A t \in Services : serverName'[t] \in {serverName[t], NoName}
    BY <1>0, <1>3 DEF BrowserRemove, RemoveService, table, TypeOK
  <2> QED BY <2>1, <2>2 DEF NamesKept
<1>4. CASE BrowserFails \/ ClientFails \/ PollFails
  <2>1. /\ serverName' = [s \in Services |-> NoName] /\ jobs' = <<>>
        /\ worker' = worker /\ world' = world
    BY <1>4 DEF BrowserFails, ClientFails, PollFails, ClearDiscovery, outside
  <2>2. InFlight' \subseteq InFlight
    BY <2>1 DEF InFlight
  <2> QED BY <2>1, <2>2 DEF NamesKept
<1>5. CASE RestartClient \/ ClientRuns \/ RestartBrowser \/ ResolverStarts \/ AvahiThreadExits
  BY <1>1, <1>5
     DEF RestartClient, ClientRuns, RestartBrowser, ResolverStarts, AvahiThreadExits,
         table, outside, InFlight
<1>6. CASE ResolverRefused \/ ResolverDone
  BY <1>1, <1>6 DEF ResolverRefused, ResolverDone, outside, InFlight
<1>7. ASSUME NEW s \in Services, StartResolver(s) PROVE NamesKept(NameOf)'
  BY <1>1, <1>7 DEF StartResolver, outside, InFlight
<1>8. ASSUME NEW c \in contexts, ResolverFailed(c) PROVE NamesKept(NameOf)'
  BY <1>1, <1>8 DEF ResolverFailed, table, outside, InFlight
<1>9. ASSUME NEW c \in contexts, ResolverFound(c) PROVE NamesKept(NameOf)'
  <2> DEFINE n == world[c.svc].name
             j == [svc |-> c.svc, gen |-> c.gen, name |-> n, addr |-> world[c.svc].addr]
  <2>1. c.svc \in Services /\ world[c.svc] # None /\ n = NameOf[c.svc]
    BY <1>0, <1>9 DEF ResolverFound, NamesKept, TypeOK, Context
  <2>2. world' = world /\ Woken.job = worker.job
    BY <1>0, <1>9 DEF ResolverFound, outside, TypeOK, Woken, WorkerIdle
  <2>3. CASE UNCHANGED <<jobs, serverName, worker>>
    BY <1>1, <2>2, <2>3 DEF InFlight
  <2>4. CASE /\ jobs' = Append(jobs, j) /\ worker' = Woken
             /\ serverName' = [serverName EXCEPT ![c.svc] = n]
    <3>1. \A i \in DOMAIN jobs' : jobs'[i] = j \/ (i \in DOMAIN jobs /\ jobs'[i] = jobs[i])
      <4> HIDE DEF j
      <4> QED BY <1>0, <2>4 DEF TypeOK
    <3>2. \A x \in InFlight' : x = j \/ x \in InFlight
      BY <2>2, <2>4, <3>1 DEF InFlight
    <3>3. j.name = NameOf[j.svc]
      BY <2>1
    <3>4. \A t \in Services : serverName'[t] = serverName[t] \/ (t = c.svc /\ serverName'[t] = n)
      BY <1>0, <2>4 DEF TypeOK
    <3> HIDE DEF j, n
    <3> QED BY <2>1, <2>2, <3>2, <3>3, <3>4 DEF NamesKept
  <2> QED BY <1>9, <2>3, <2>4, Zenon DEF ResolverFound, QueueManifest
<1>10. CASE Worker
  <2>1. world' = world /\ serverName' = serverName
    BY <1>10 DEF Worker, WorkerWaits, WorkerTakes, WorkerFetches, WorkerStores,
                 WorkerExits, table, outside
  <2>2. CASE WorkerTakes
    <3>1. jobs # <<>> /\ jobs \in Seq(Job)
      BY <1>0, <2>2 DEF WorkerTakes, TypeOK
    <3>2. /\ Head(jobs) = jobs[1] /\ 1 \in DOMAIN jobs
          /\ \A i \in DOMAIN Tail(jobs) : i + 1 \in DOMAIN jobs /\ Tail(jobs)[i] = jobs[i + 1]
      BY <3>1
    <3>3. InFlight' \subseteq InFlight
      BY <2>2, <3>2 DEF WorkerTakes, InFlight
    <3> QED BY <1>1, <2>1, <3>3
  <2>3. CASE WorkerWaits \/ WorkerExits \/ WorkerFetches \/ WorkerStores
    <3>1. jobs' = jobs /\ (worker'.job = worker.job \/ worker'.job = None)
      BY <2>3 DEF WorkerWaits, WorkerExits, WorkerFetches, WorkerStores, WorkerIdle, Fetched
    <3>2. InFlight' \subseteq InFlight
      BY <3>1 DEF InFlight
    <3> QED BY <1>1, <2>1, <3>2
  <2> QED BY <1>10, <2>2, <2>3 DEF Worker
<1>11. CASE Control
  <2>1. /\ world' = world /\ serverName' = serverName /\ jobs' = jobs
        /\ worker' = worker \/ worker' = Woken
    BY <1>11 DEF Control, RequestRefresh, Invalidate, Stop, Joined, table, outside
  <2>2. InFlight' \subseteq InFlight
    BY <2>1 DEF InFlight, Woken, WorkerIdle
  <2> QED BY <1>1, <2>1, <2>2
<1>12. CASE Network
  <2>1. serverName' = serverName /\ InFlight' = InFlight
    BY <1>12 DEF Network, Announce, Withdraw, AnswersChange, table, InFlight
  <2>2. \A s \in Services : world'[s] # None => world'[s].name = NameOf[s]
    <3>1. ASSUME NEW x \in Changes, Announce(x) PROVE \A s \in Services : world'[s] # None => world'[s].name = NameOf[s]
      <4>1. world' = [world EXCEPT ![x.svc] = [name |-> x.name, addr |-> x.addr]]
        BY <3>1 DEF Announce
      <4>2. \A s \in Services : world'[s] = world[s] \/ (s = x.svc /\ world'[s].name = x.name)
        BY <1>0, <4>1 DEF TypeOK, WorldType
      <4> QED BY <4>2 DEF NamesKept, StableNames
    <3>2. ASSUME NEW t \in Services, Withdraw(t) PROVE \A s \in Services : world'[s] # None => world'[s].name = NameOf[s]
      BY <1>0, <3>2 DEF Withdraw, TypeOK, WorldType, NamesKept
    <3>3. ASSUME NEW a \in Addrs, AnswersChange(a) PROVE \A s \in Services : world'[s] # None => world'[s].name = NameOf[s]
      BY <3>3 DEF AnswersChange, NamesKept
    <3> QED BY <1>12, <3>1, <3>2, <3>3 DEF Network
  <2> QED BY <2>1, <2>2 DEF NamesKept
<1>13. CASE UNCHANGED vars
  BY <1>1, <1>13 DEF vars, InFlight
<1> QED BY <1>2, <1>3, <1>4, <1>5, <1>6, <1>7, <1>8, <1>9, <1>10, <1>11, <1>12, <1>13
        DEF Next, AvahiThread

(* The cache: what is added belongs to a service, what belongs to a service *)
(* goes with it.                                                            *)
LEMMA GhostsStep ==
  ASSUME NEW NameOf, StableNames(NameOf), IInv, NamesKept(NameOf), NoGhosts(NameOf),
         [Next]_vars
  PROVE  NoGhosts(NameOf)'
<1>0. /\ gen \in [Services -> Nat] /\ nextGen \in Nat
      /\ remotes \in [Names -> Opt(Remote)] /\ remotes' \in [Names -> Opt(Remote)]
      /\ serverName \in [Services -> Names \cup {NoName}]
  BY TypeStep DEF IInv, TypeOK
<1>1. ASSUME remotes' = remotes, \A s \in Known : gen'[s] = gen[s]
      PROVE  NoGhosts(NameOf)'
  BY <1>1 DEF NoGhosts, Cached, Known
<1>2. ASSUME NEW s \in Services, BrowserNew(s) PROVE NoGhosts(NameOf)'
  <2>1. remotes' = remotes /\ \A t \in Known : gen'[t] = gen[t]
    BY <1>0, <1>2 DEF BrowserNew, AddService, table, Known
  <2> QED BY <1>1, <2>1
<1>3. ASSUME NEW s \in Services, BrowserRemove(s) PROVE NoGhosts(NameOf)'
  <2>1. CASE s \notin Known
    BY <1>1, <1>3, <2>1 DEF BrowserRemove, table
  <2>2. CASE s \in Known
    <3>1. DropSourced(gen[s]) /\ gen' = [gen EXCEPT ![s] = 0]
      BY <1>3, <2>2 DEF BrowserRemove, RemoveService
    <3>2. ASSUME NEW n \in Cached' PROVE n \in Cached /\ remotes'[n] = remotes[n]
      BY <1>0, <3>1 DEF DropSourced, Cached
    <3>3. ASSUME NEW n \in Cached'
          PROVE  \E t \in Known' : gen'[t] = remotes'[n].source /\ NameOf[t] = n
      <4>1. PICK t \in Known : gen[t] = remotes[n].source /\ NameOf[t] = n
        BY <3>2 DEF NoGhosts
      <4>2. t # s
        <5>1. CASE \A m \in Cached : remotes[m].source # gen[s]
          BY <3>2, <4>1, <5>1
        <5>2. CASE \E m \in Cached : /\ remotes[m].source = gen[s]
                                     /\ remotes' = [remotes EXCEPT ![m] = None]
          <6>1. PICK m \in Cached : /\ remotes[m].source = gen[s]
                                    /\ remotes' = [remotes EXCEPT ![m] = None]
            BY <5>2
          <6>2. n # m
            BY <1>0, <6>1 DEF Cached
          <6>3. PICK u \in Known : gen[u] = remotes[m].source /\ NameOf[u] = m
            BY DEF NoGhosts
          <6>4. u = s
            BY <2>2, <6>1, <6>3 DEF IInv, GenerationsOK
          <6> QED BY <4>1, <6>2, <6>3, <6>4
        <5> QED BY <3>1, <5>1, <5>2 DEF DropSourced
      <4>3. t \in Known' /\ gen'[t] = gen[t]
        BY <1>0, <3>1, <4>1, <4>2 DEF Known
      <4> QED BY <3>2, <4>1, <4>3
    <3> QED BY <3>3 DEF NoGhosts
  <2> QED BY <2>1, <2>2
<1>4. CASE BrowserFails \/ ClientFails \/ PollFails
  BY <1>4 DEF BrowserFails, ClientFails, PollFails, ClearDiscovery, NoGhosts, Cached
<1>5. CASE WorkerStores
  <2> DEFINE j == worker.job
  <2>1. CacheManifest(j, worker.got) /\ gen' = gen
    BY <1>5 DEF WorkerStores
  <2>2. CASE remotes' = remotes
    BY <1>1, <2>1, <2>2
  <2>3. CASE remotes' # remotes
    <3>1. Live(j) /\ remotes' = [remotes EXCEPT ![j.name] = [addr |-> j.addr, source |-> j.gen]]
      BY <2>1, <2>3 DEF CacheManifest
    <3>2. j \in InFlight
      BY <1>5 DEF WorkerStores, IInv, TypeOK, InFlight
    <3>3. j.svc \in Services /\ j.name \in Names /\ j.name = NameOf[j.svc]
      BY <3>2, FetchFacts DEF Job, NamesKept
    <3>4. ASSUME NEW n \in Cached'
          PROVE  \E t \in Known : gen[t] = remotes'[n].source /\ NameOf[t] = n
      <4>1. CASE n = j.name
        <5>1. remotes'[n].source = j.gen
          BY <1>0, <3>1, <3>3, <4>1
        <5> QED BY <3>1, <3>3, <4>1, <5>1 DEF Live, Known
      <4>2. CASE n # j.name
        BY <1>0, <3>1, <4>2 DEF NoGhosts, Cached
      <4> QED BY <4>1, <4>2
    <3> QED BY <2>1, <3>4 DEF NoGhosts, Known
  <2> QED BY <2>2, <2>3
<1>6. ASSUME NEW n \in Names, Invalidate(n) PROVE NoGhosts(NameOf)'
  <2>1. remotes' = [remotes EXCEPT ![n] = None] /\ Renewed(Called(n))
    BY <1>6 DEF Invalidate
  <2>2. ASSUME NEW m \in Cached'
        PROVE  \E t \in Known' : gen'[t] = remotes'[m].source /\ NameOf[t] = m
    <3>1. m \in Cached /\ m # n /\ remotes'[m] = remotes[m]
      BY <1>0, <2>1 DEF Cached
    <3>2. PICK t \in Known : gen[t] = remotes[m].source /\ NameOf[t] = m
      BY <3>1 DEF NoGhosts
    <3>3. t \in Services /\ t \notin Called(n)
      <4>1. n # NoName
        BY ConstantsAssumption
      <4> QED BY <3>1, <3>2, <4>1 DEF Called, Known, NamesKept
    <3>4. gen'[t] = gen[t]
      BY <2>1, <3>3 DEF Renewed
    <3> QED BY <3>1, <3>2, <3>3, <3>4 DEF Known
  <2> QED BY <2>2 DEF NoGhosts
<1>7. CASE Next /\ UNCHANGED <<gen, remotes>>
  BY <1>1, <1>7
<1>8. CASE UNCHANGED vars
  BY <1>1, <1>8 DEF vars
<1>9. \/ \E s \in Services : BrowserNew(s) \/ BrowserRemove(s)
      \/ BrowserFails \/ ClientFails \/ PollFails
      \/ WorkerStores \/ (\E n \in Names : Invalidate(n))
      \/ Next /\ UNCHANGED <<gen, remotes>>
      \/ UNCHANGED vars
  <2>1. \/ \E s \in Services : StartResolver(s)
        \/ RestartClient \/ ClientRuns \/ RestartBrowser
        \/ ResolverStarts \/ ResolverRefused \/ ResolverDone \/ AvahiThreadExits
        \/ \E c \in contexts : ResolverFound(c) \/ ResolverFailed(c)
        => UNCHANGED <<gen, remotes>>
    BY DEF StartResolver, RestartClient, ClientRuns, RestartBrowser, ResolverStarts,
           ResolverRefused, ResolverDone, AvahiThreadExits, ResolverFound, ResolverFailed, table
  <2>2. \/ WorkerWaits \/ WorkerTakes \/ WorkerFetches \/ WorkerExits
        \/ \E n \in Names \cup {NoName} : RequestRefresh(n)
        \/ Stop \/ Joined \/ Network
        => UNCHANGED <<gen, remotes>>
    BY DEF WorkerWaits, WorkerTakes, WorkerFetches, WorkerExits, RequestRefresh, Stop,
           Joined, Network, Announce, Withdraw, AnswersChange, table
  <2> QED BY <2>1, <2>2, Zenon DEF Next, AvahiThread, Worker, Control
<1> QED BY <1>2, <1>3, <1>4, <1>5, <1>6, <1>7, <1>8, <1>9

(* Where services keep their server names, every cached peer belongs to a   *)
(* service the daemon still knows: remove_remote_source_locked, the cleared *)
(* discovery and the generation check of cache_manifest_result_locked leave *)
(* no peer behind, whatever fetches were under way.                         *)
THEOREM NoGhostPeers ==
  ASSUME NEW NameOf, StableNames(NameOf)
  PROVE  Spec => []CachedPeerHasService
<1> DEFINE Inv == IInv /\ NamesKept(NameOf) /\ NoGhosts(NameOf)
<1>1. Init => Inv
  BY InvInit, NamesInit
<1>2. Inv /\ [Next]_vars => Inv'
  BY InvStep, NamesStep, GhostsStep
<1>3. Inv => CachedPeerHasService
  BY DEF NoGhosts, CachedPeerHasService
<1> QED BY <1>1, <1>2, <1>3, PTL DEF Spec

-----------------------------------------------------------------------------
(* The arrays of SS_MAX_SERVERS entries. *)

Bounded == TablesBounded /\ IsFiniteSet(contexts)

LEMMA Smaller ==
  ASSUME NEW S, IsFiniteSet(S), NEW T, T \subseteq S, Cardinality(S) <= MaxServers
  PROVE  IsFiniteSet(T) /\ Cardinality(T) <= MaxServers
<1>1. IsFiniteSet(T) /\ Cardinality(T) <= Cardinality(S)
  BY FS_Subset
<1> QED BY <1>1, FS_CardinalityType, ConstantsAssumption

LEMMA OneMore ==
  ASSUME NEW S, IsFiniteSet(S), NEW x, Cardinality(S) < MaxServers
  PROVE  IsFiniteSet(S \cup {x}) /\ Cardinality(S \cup {x}) <= MaxServers
<1>1. /\ IsFiniteSet(S \cup {x})
      /\ Cardinality(S \cup {x}) = IF x \in S THEN Cardinality(S) ELSE Cardinality(S) + 1
  BY FS_AddElement
<1> QED BY <1>1, FS_CardinalityType, ConstantsAssumption

LEMMA FiniteTables == IsFiniteSet(Known) /\ IsFiniteSet(Cached)
BY ConstantsAssumption, FS_Subset DEF Known, Cached

(* Steps that add to no table. *)
LEMMA NothingAdded ==
  ASSUME Bounded, Known' \subseteq Known, contexts' \subseteq contexts,
         Cached' \subseteq Cached, Len(jobs') <= MaxServers
  PROVE  Bounded'
<1>1. Cardinality(Known') <= MaxServers /\ Cardinality(Cached') <= MaxServers
  BY Smaller, FiniteTables DEF Bounded, TablesBounded
<1>2. IsFiniteSet(contexts') /\ Cardinality(contexts') <= MaxServers
  BY Smaller DEF Bounded, TablesBounded
<1> QED BY <1>1, <1>2 DEF Bounded, TablesBounded

LEMMA BoundedInit == ASSUME Init PROVE Bounded
<1>1. Known = {} /\ Cached = {} /\ contexts = {} /\ Len(jobs) = 0
  BY DEF Init, Known, Cached
<1> QED BY <1>1, FS_EmptySet, ConstantsAssumption DEF Bounded, TablesBounded

LEMMA BoundedStep == ASSUME TypeOK, Bounded, [Next]_vars PROVE Bounded'
<1>0. /\ gen \in [Services -> Nat] /\ nextGen \in Nat /\ Len(jobs) \in Nat
      /\ jobs \in Seq(Job) /\ Len(jobs) <= MaxServers /\ MaxServers \in Nat
      /\ remotes \in [Names -> Opt(Remote)]
  BY ConstantsAssumption DEF TypeOK, Bounded, TablesBounded
<1>1. ASSUME UNCHANGED <<gen, remotes, jobs>>, contexts' \subseteq contexts
      PROVE  Bounded'
  BY <1>0, <1>1, NothingAdded DEF Known, Cached
<1>2. ASSUME NEW s \in Services, BrowserNew(s) PROVE Bounded'
  <2>1. UNCHANGED <<remotes, jobs, contexts>> /\ AddService(s)
    BY <1>2 DEF BrowserNew
  <2>2. CASE gen' = gen
    BY <1>1, <2>1, <2>2
  <2>3. CASE gen' # gen
    <3>1. Cardinality(Known) < MaxServers /\ gen' = [gen EXCEPT ![s] = nextGen + 1]
      BY <2>1, <2>3 DEF AddService, table
    <3>2. Known' \subseteq Known \cup {s}
      BY <1>0, <3>1 DEF Known
    <3>3. IsFiniteSet(Known \cup {s}) /\ Cardinality(Known \cup {s}) <= MaxServers
      BY <3>1, OneMore, FiniteTables
    <3>4. Cardinality(Known') <= MaxServers
      BY <3>2, <3>3, Smaller
    <3> QED BY <2>1, <3>4 DEF Bounded, TablesBounded, Cached
  <2> QED BY <2>2, <2>3
<1>3. ASSUME NEW s \in Services, BrowserRemove(s) PROVE Bounded'
  <2>1. UNCHANGED <<jobs, contexts>>
    BY <1>3 DEF BrowserRemove
  <2>2. Known' \subseteq Known /\ Cached' \subseteq Cached
    BY <1>0, <1>3 DEF BrowserRemove, RemoveService, DropSourced, table, Known, Cached
  <2> QED BY <1>0, <2>1, <2>2, NothingAdded
<1>4. CASE BrowserFails \/ ClientFails \/ PollFails
  <2>1. contexts' = contexts /\ jobs' = <<>> /\ Known' = {} /\ Cached' = {}
    BY <1>4 DEF BrowserFails, ClientFails, PollFails, ClearDiscovery, Known, Cached
  <2>2. Len(jobs') <= MaxServers
    BY <1>0, <2>1
  <2> QED BY <2>1, <2>2, NothingAdded
<1>5. ASSUME NEW s \in Services, StartResolver(s) PROVE Bounded'
  <2>1. /\ UNCHANGED <<gen, remotes, jobs>> /\ Cardinality(contexts) < MaxServers
        /\ contexts' = contexts \cup {[svc |-> s, gen |-> gen[s]]}
    BY <1>5 DEF StartResolver
  <2>2. IsFiniteSet(contexts') /\ Cardinality(contexts') <= MaxServers
    BY <2>1, OneMore DEF Bounded
  <2> QED BY <2>1, <2>2 DEF Bounded, TablesBounded, Known, Cached
<1>6. ASSUME NEW c \in contexts, ResolverFound(c) PROVE Bounded'
  <2>1. UNCHANGED <<gen, remotes, contexts>>
    BY <1>6 DEF ResolverFound
  <2>2. Len(jobs') <= MaxServers
    <3>1. jobs' = jobs \/ (Len(jobs) < MaxServers /\ \E j : jobs' = Append(jobs, j))
      BY <1>6 DEF ResolverFound, QueueManifest
    <3>2. \A j : Len(Append(jobs, j)) = Len(jobs) + 1
      BY <1>0
    <3> QED BY <1>0, <3>1, <3>2
  <2> QED BY <2>1, <2>2, NothingAdded DEF Known, Cached
<1>7. CASE WorkerTakes
  <2>1. UNCHANGED <<gen, remotes, contexts>> /\ jobs # <<>> /\ jobs' = Tail(jobs)
    BY <1>7 DEF WorkerTakes, table
  <2>2. Len(jobs') <= MaxServers
    BY <1>0, <2>1
  <2> QED BY <2>1, <2>2, NothingAdded DEF Known, Cached
<1>8. CASE WorkerStores
  <2> DEFINE j == worker.job
  <2>1. UNCHANGED <<gen, jobs, contexts>> /\ CacheManifest(j, worker.got)
    BY <1>8 DEF WorkerStores
  <2>2. Cardinality(Cached') <= MaxServers
    <3>1. CASE remotes' = remotes
      BY <3>1 DEF Bounded, TablesBounded, Cached
    <3>2. CASE remotes' # remotes
      <4>1. /\ remotes[j.name] # None \/ Cardinality(Cached) < MaxServers
            /\ remotes' = [remotes EXCEPT ![j.name] = [addr |-> j.addr, source |-> j.gen]]
        BY <2>1, <3>2 DEF CacheManifest
      <4>2. Cached' \subseteq Cached \cup {j.name}
        BY <1>0, <4>1 DEF Cached
      <4>3. CASE remotes[j.name] # None
        <5>1. Cached' \subseteq Cached
          BY <1>0, <4>1, <4>3 DEF Cached
        <5> QED BY <5>1, Smaller, FiniteTables DEF Bounded, TablesBounded
      <4>4. CASE Cardinality(Cached) < MaxServers
        <5>1. IsFiniteSet(Cached \cup {j.name}) /\ Cardinality(Cached \cup {j.name}) <= MaxServers
          BY <4>4, OneMore, FiniteTables
        <5> QED BY <4>2, <5>1, Smaller
      <4> QED BY <4>1, <4>3, <4>4
    <3> QED BY <3>1, <3>2
  <2> QED BY <2>1, <2>2 DEF Bounded, TablesBounded, Known
<1>9. ASSUME NEW n \in Names, Invalidate(n) PROVE Bounded'
  <2>1. /\ remotes' = [remotes EXCEPT ![n] = None] /\ Renewed(Called(n))
        /\ UNCHANGED <<jobs, contexts>>
    BY <1>9 DEF Invalidate
  <2>2. Known' \subseteq Known
    BY <1>0, <2>1 DEF Renewed, Called, Known
  <2>3. Cached' \subseteq Cached
    BY <1>0, <2>1 DEF Cached
  <2> QED BY <1>0, <2>1, <2>2, <2>3, NothingAdded
<1>10. \/ RestartClient \/ ClientRuns \/ RestartBrowser
       \/ ResolverStarts \/ ResolverRefused \/ ResolverDone \/ AvahiThreadExits
       \/ \E c \in contexts : ResolverFailed(c)
       => Bounded'
  BY <1>1 DEF RestartClient, ClientRuns, RestartBrowser, ResolverStarts,
              ResolverRefused, ResolverDone, AvahiThreadExits, ResolverFailed, table
<1>11. \/ WorkerWaits \/ WorkerFetches \/ WorkerExits
       \/ \E n \in Names \cup {NoName} : RequestRefresh(n)
       \/ Stop \/ Joined \/ Network
       => Bounded'
  BY <1>1 DEF WorkerWaits, WorkerFetches, WorkerExits, RequestRefresh, Stop,
              Joined, Network, Announce, Withdraw, AnswersChange, table
<1>12. CASE UNCHANGED vars
  BY <1>1, <1>12 DEF vars
<1> QED BY <1>2, <1>3, <1>4, <1>5, <1>6, <1>7, <1>8, <1>9, <1>10, <1>11, <1>12
        DEF Next, AvahiThread, Worker, Control

(* Each array of SS_MAX_SERVERS entries is written only where it has room   *)
(* left, however many resolvers of outdated generations still occupy one.   *)
THEOREM TablesNeverOverflow == Spec => []TablesBounded
<1>1. Init => TypeOK /\ Bounded
  BY TypeInit, BoundedInit
<1>2. TypeOK /\ Bounded /\ [Next]_vars => (TypeOK /\ Bounded)'
  BY TypeStep, BoundedStep
<1>3. Bounded => TablesBounded
  BY DEF Bounded
<1> QED BY <1>1, <1>2, <1>3, PTL DEF Spec

-----------------------------------------------------------------------------
(* Work under way.  A mark belongs to a service in the table, a pending one *)
(* has its fetch, a resolving one its resolver.                             *)

WorkKnown == AtWork \subseteq Known

FetchesExist == \A s \in pending : \E j \in InFlight : j.svc = s /\ Live(j)

ResolversExist ==
  main # "stopped" => \A s \in resolving : \E c \in contexts : c.svc = s /\ c.gen = gen[s]

(* While the client is to be replaced, nothing is reported to the daemon.   *)
Restarting == clientRestart => client \in {"none", "failed"} /\ Known = {}

(* Steps that change marks and table little.                                *)
LEMMA KnownSame == ASSUME gen' = gen PROVE Known' = Known
BY DEF Known

LEMMA WorkKnownKept ==
  ASSUME WorkKnown, Known \subseteq Known', AtWork' \subseteq AtWork \cup Known'
  PROVE  WorkKnown'
BY DEF WorkKnown

(* The services of a dismissed peer stay in the table.                      *)
LEMMA RenewedKnown ==
  ASSUME TypeOK, NEW n, Renewed(Called(n))
  PROVE  /\ Known' = Known
         /\ \A s \in Services \ Called(n) : gen'[s] = gen[s]
<1>1. gen \in [Services -> Nat] /\ nextGen \in Nat
  BY DEF TypeOK
<1>2. \A s \in Called(n) : s \in Known /\ gen'[s] # 0
  BY <1>1 DEF Renewed, Called, Known
<1> QED BY <1>2 DEF Renewed, Known

(* Unresolved asks again for a service in the table, and only for such.     *)
LEMMA UnresolvedMarks ==
  ASSUME TypeOK, av.ctx # None, Unresolved
  PROVE  \/ UNCHANGED <<requested, resolving>> /\ ~Live(av.ctx)
         \/ /\ Live(av.ctx) /\ av.ctx.svc \in Known
            /\ resolving' = resolving \ {av.ctx.svc}
            /\ requested' = requested \cup {av.ctx.svc}
<1>1. av.ctx \in Context /\ av.ctx.svc \in Services
  BY DEF TypeOK, Opt, Context
<1> QED BY <1>1 DEF Unresolved, Live, Known

LEMMA WorkKnownStep ==
  ASSUME IInv, WorkKnown, [Next]_vars
  PROVE  WorkKnown'
<1>0. TypeOK /\ gen \in [Services -> Nat] /\ nextGen \in Nat
  BY DEF IInv, TypeOK
<1>1. ASSUME gen' = gen, AtWork' \subseteq AtWork \cup Known PROVE WorkKnown'
  BY <1>1, KnownSame, WorkKnownKept
<1>2. ASSUME NEW s \in Services, BrowserNew(s) PROVE WorkKnown'
  <2>1. CASE UNCHANGED table
    BY <1>1, <2>1 DEF table, AtWork
  <2>2. CASE ~UNCHANGED table
    <3>1. /\ gen' = [gen EXCEPT ![s] = nextGen + 1] /\ gen[s] = 0
          /\ requested' = requested \cup {s} /\ UNCHANGED <<resolving, pending>>
      BY <1>2, <2>2 DEF BrowserNew, AddService
    <3>2. Known' = Known \cup {s}
      BY <1>0, <3>1 DEF Known
    <3> QED BY <3>1, <3>2, WorkKnownKept DEF AtWork
  <2> QED BY <2>1, <2>2
<1>3. ASSUME NEW s \in Services, BrowserRemove(s) PROVE WorkKnown'
  <2>1. CASE s \notin Known
    BY <1>1, <1>3, <2>1 DEF BrowserRemove, table, AtWork
  <2>2. CASE s \in Known
    <3>1. /\ PassOn(s) /\ gen' = [gen EXCEPT ![s] = 0]
          /\ resolving' = resolving \ {s} /\ pending' = pending \ {s}
      BY <1>3, <2>2 DEF BrowserRemove, RemoveService
    <3>2. Known' = Known \ {s}
      BY <1>0, <3>1 DEF Known
    <3>3. requested' \subseteq (requested \cup Known) \ {s}
      BY <3>1 DEF PassOn, Heirs
    <3> QED BY <3>1, <3>2, <3>3 DEF WorkKnown, AtWork
  <2> QED BY <2>1, <2>2
<1>4. CASE BrowserFails \/ ClientFails \/ PollFails
  BY <1>4 DEF BrowserFails, ClientFails, PollFails, ClearDiscovery, WorkKnown, AtWork
<1>5. CASE RestartClient \/ ClientRuns \/ RestartBrowser \/ ResolverStarts \/ AvahiThreadExits
  BY <1>1, <1>5 DEF RestartClient, ClientRuns, RestartBrowser, ResolverStarts,
                    AvahiThreadExits, table, AtWork
<1>6. CASE ResolverRefused \/ ResolverDone
  <2>1. UNCHANGED <<gen, pending>> /\ av.ctx # None
    BY <1>0, <1>6 DEF ResolverRefused, ResolverDone, TypeOK
  <2>2. \/ Unresolved
        \/ requested' = requested /\ resolving' \subseteq resolving
    BY <1>6 DEF ResolverRefused, ResolverDone
  <2>3. AtWork' \subseteq AtWork \cup Known
    BY <1>0, <2>1, <2>2, UnresolvedMarks DEF AtWork
  <2> QED BY <1>1, <2>1, <2>3
<1>7. ASSUME NEW s \in Services, StartResolver(s) PROVE WorkKnown'
  BY <1>1, <1>7 DEF StartResolver, AtWork
<1>8. ASSUME NEW c \in contexts, ResolverFailed(c) PROVE WorkKnown'
  BY <1>1, <1>8 DEF ResolverFailed, table, AtWork
<1>9. ASSUME NEW c \in contexts, ResolverFound(c) PROVE WorkKnown'
  <2>1. UNCHANGED <<gen, requested, resolving>> /\ c.svc \in Services
    BY <1>0, <1>9 DEF ResolverFound, TypeOK, Context
  <2>2. pending' = pending \/ (Live(c) /\ pending' = pending \cup {c.svc})
    BY <1>9 DEF ResolverFound, QueueManifest
  <2> QED BY <1>1, <2>1, <2>2 DEF AtWork, Live, Known
<1>10. CASE WorkerWaits \/ WorkerTakes \/ WorkerFetches \/ WorkerExits
  BY <1>1, <1>10 DEF WorkerWaits, WorkerTakes, WorkerFetches, WorkerExits, table, AtWork
<1>11. CASE WorkerStores
  <2> DEFINE j == worker.job
  <2>1. CacheManifest(j, worker.got) /\ UNCHANGED <<gen, resolving>>
    BY <1>11 DEF WorkerStores
  <2>2. j \in Job /\ j.svc \in Services
    BY <1>0, <1>11, WorkerType DEF WorkerStores, Job
  <2>3. /\ pending' \subseteq pending
        /\ requested' = requested \/ (Live(j) /\ requested' = requested \cup {j.svc})
    BY <2>1 DEF CacheManifest
  <2> QED BY <1>1, <2>1, <2>2, <2>3 DEF AtWork, Live, Known
<1>12. ASSUME NEW n \in Names, Invalidate(n) PROVE WorkKnown'
  <2>1. /\ Renewed(Called(n)) /\ requested' = requested \cup Called(n)
        /\ resolving' \subseteq resolving /\ pending' \subseteq pending
    BY <1>12 DEF Invalidate
  <2>2. Known' = Known /\ Called(n) \subseteq Known
    BY <1>0, <2>1, RenewedKnown DEF Called
  <2> QED BY <2>1, <2>2, WorkKnownKept DEF AtWork
<1>13. ASSUME NEW n \in Names \cup {NoName}, RequestRefresh(n) PROVE WorkKnown'
  BY <1>1, <1>13 DEF RequestRefresh, Called, AtWork
<1>14. CASE Stop \/ Joined \/ Network
  BY <1>1, <1>14 DEF Stop, Joined, Network, Announce, Withdraw, AnswersChange, table, AtWork
<1>15. CASE UNCHANGED vars
  BY <1>1, <1>15 DEF vars, AtWork
<1> QED BY <1>2, <1>3, <1>4, <1>5, <1>6, <1>7, <1>8, <1>9, <1>10, <1>11, <1>12,
           <1>13, <1>14, <1>15 DEF Next, AvahiThread, Worker, Control

(* A pending service's fetch: it is queued with the mark (ResolverFound),   *)
(* moves from the queue to the worker, and the mark goes when it is stored. *)
LEMMA FetchesExistKept ==
  ASSUME FetchesExist, InFlight \subseteq InFlight', pending' \subseteq pending,
         \A s \in pending' : gen'[s] = gen[s]
  PROVE  FetchesExist'
BY DEF FetchesExist, Live

LEMMA FetchesExistStep ==
  ASSUME IInv, FetchesExist, [Next]_vars
  PROVE  FetchesExist'
<1>0. /\ TypeOK /\ gen \in [Services -> Nat] /\ nextGen \in Nat /\ pending \subseteq Services
      /\ jobs \in Seq(Job)
  BY DEF IInv, TypeOK
<1>1. ASSUME gen' = gen, jobs' = jobs, worker'.job = worker.job, pending' \subseteq pending
      PROVE  FetchesExist'
  BY <1>1, FetchesExistKept DEF InFlight
<1>2. ASSUME NEW s \in Services, BrowserNew(s) PROVE FetchesExist'
  <2>1. UNCHANGED <<jobs, worker, pending>> /\ (gen' = gen \/ gen[s] = 0)
    BY <1>2 DEF BrowserNew, AddService, table
  <2>2. \A t \in Services : gen[t] # 0 => gen'[t] = gen[t]
    BY <1>0, <1>2, <2>1 DEF BrowserNew, AddService, table
  <2>3. \A t \in pending : gen[t] # 0
    BY DEF FetchesExist, Live
  <2> QED BY <1>0, <2>1, <2>2, <2>3, FetchesExistKept DEF InFlight
<1>3. ASSUME NEW s \in Services, BrowserRemove(s) PROVE FetchesExist'
  <2>1. CASE s \notin Known
    BY <1>1, <1>3, <2>1 DEF BrowserRemove, table
  <2>2. CASE s \in Known
    <3>1. /\ gen' = [gen EXCEPT ![s] = 0] /\ pending' = pending \ {s}
          /\ UNCHANGED <<jobs, worker>>
      BY <1>3, <2>2 DEF BrowserRemove, RemoveService
    <3>2. \A t \in pending' : gen'[t] = gen[t]
      BY <1>0, <3>1
    <3> QED BY <3>1, <3>2, FetchesExistKept DEF InFlight
  <2> QED BY <2>1, <2>2
<1>4. CASE BrowserFails \/ ClientFails \/ PollFails
  BY <1>4 DEF BrowserFails, ClientFails, PollFails, ClearDiscovery, FetchesExist
<1>5. CASE RestartClient \/ ClientRuns \/ RestartBrowser \/ ResolverStarts \/ AvahiThreadExits
  BY <1>1, <1>5 DEF RestartClient, ClientRuns, RestartBrowser, ResolverStarts,
                    AvahiThreadExits, table
<1>6. CASE ResolverRefused \/ ResolverDone
  BY <1>1, <1>6 DEF ResolverRefused, ResolverDone
<1>7. ASSUME NEW s \in Services, StartResolver(s) PROVE FetchesExist'
  BY <1>1, <1>7 DEF StartResolver
<1>8. ASSUME NEW c \in contexts, ResolverFailed(c) PROVE FetchesExist'
  BY <1>1, <1>8 DEF ResolverFailed, table
<1>9. ASSUME NEW c \in contexts, ResolverFound(c) PROVE FetchesExist'
  <2>1. gen' = gen /\ Woken.job = worker.job
    BY <1>0, <1>9 DEF ResolverFound, TypeOK, Woken, WorkerIdle
  <2>2. CASE UNCHANGED <<jobs, pending, worker>>
    BY <1>1, <2>1, <2>2
  <2>3. CASE ~UNCHANGED <<jobs, pending, worker>>
    <3> DEFINE j == [svc |-> c.svc, gen |-> c.gen,
                     name |-> world[c.svc].name, addr |-> world[c.svc].addr]
    <3>1. /\ Live(c) /\ jobs' = Append(jobs, j)
          /\ pending' = pending \cup {c.svc} /\ worker' = Woken
      BY <1>9, <2>3, Zenon DEF ResolverFound, QueueManifest
    <3>2. j.svc = c.svc /\ j.gen = c.gen
      OBVIOUS
    <3> HIDE DEF j
    <3>3. /\ Len(jobs) + 1 \in DOMAIN jobs' /\ jobs'[Len(jobs) + 1] = j
          /\ \A i \in DOMAIN jobs : i \in DOMAIN jobs' /\ jobs'[i] = jobs[i]
      BY <1>0, <3>1
    <3>4. InFlight \subseteq InFlight' /\ j \in InFlight'
      BY <2>1, <3>1, <3>3 DEF InFlight
    <3> QED BY <2>1, <3>1, <3>2, <3>4 DEF FetchesExist, Live
  <2> QED BY <2>2, <2>3
<1>10. CASE WorkerWaits \/ WorkerFetches \/ WorkerExits
  <2>1. worker'.job = worker.job
    BY <1>0, <1>10 DEF WorkerWaits, WorkerFetches, WorkerExits, Fetched, TypeOK
  <2> QED BY <1>1, <1>10, <2>1 DEF WorkerWaits, WorkerFetches, WorkerExits, table
<1>11. CASE WorkerTakes
  <2>1. /\ worker'.job = Head(jobs) /\ jobs' = Tail(jobs) /\ jobs # <<>> /\ worker.job = None
        /\ UNCHANGED <<gen, pending>>
    BY <1>0, <1>11 DEF WorkerTakes, table, TypeOK
  <2>2. Head(jobs) = jobs[1] /\ Head(jobs) \in Job
    BY <1>0, <2>1
  <2>3. \A i \in DOMAIN jobs : i = 1 \/ (i - 1 \in DOMAIN jobs' /\ jobs'[i - 1] = jobs[i])
    BY <1>0, <2>1
  <2>4. ASSUME NEW x \in InFlight PROVE x \in InFlight'
    <3>1. PICK i \in DOMAIN jobs : x = jobs[i]
      BY <2>1 DEF InFlight
    <3>2. x # None
      BY <1>0, <3>1, NoneAssumption
    <3> QED BY <2>1, <2>2, <2>3, <3>1, <3>2 DEF InFlight
  <2> QED BY <2>1, <2>4, FetchesExistKept
<1>12. CASE WorkerStores
  <2> DEFINE j == worker.job
  <2>1. CacheManifest(j, worker.got) /\ UNCHANGED <<gen, jobs>>
    BY <1>12 DEF WorkerStores
  <2>2. \A x \in InFlight : x = j \/ x \in InFlight'
    BY <2>1 DEF InFlight
  <2>3. (pending' = pending /\ ~Live(j)) \/ pending' = pending \ {j.svc}
    BY <2>1 DEF CacheManifest
  <2>4. ASSUME NEW s \in pending' PROVE \E x \in InFlight' : x.svc = s /\ Live(x)
    <3>1. PICK x \in InFlight : x.svc = s /\ Live(x)
      BY <2>3 DEF FetchesExist
    <3>2. x # j
      BY <2>3, <3>1
    <3> QED BY <2>2, <3>1, <3>2
  <2> QED BY <2>1, <2>4 DEF FetchesExist, Live
<1>13. ASSUME NEW n \in Names, Invalidate(n) PROVE FetchesExist'
  <2>1. Renewed(Called(n)) /\ pending' = pending \ Called(n) /\ UNCHANGED <<jobs, worker>>
    BY <1>13 DEF Invalidate
  <2>2. \A s \in pending' : gen'[s] = gen[s]
    BY <1>0, <2>1, RenewedKnown
  <2> QED BY <2>1, <2>2, FetchesExistKept DEF InFlight
<1>14. ASSUME NEW n \in Names \cup {NoName}, RequestRefresh(n) PROVE FetchesExist'
  BY <1>1, <1>14 DEF RequestRefresh
<1>15. CASE Stop \/ Joined \/ Network
  <2>1. Woken.job = worker.job
    BY <1>0 DEF TypeOK, Woken, WorkerIdle
  <2>2. /\ worker' = worker \/ worker' = Woken
        /\ UNCHANGED <<gen, jobs, pending>>
    BY <1>15 DEF Stop, Joined, Network, Announce, Withdraw, AnswersChange, table
  <2> QED BY <1>1, <2>1, <2>2
<1>16. CASE UNCHANGED vars
  BY <1>1, <1>16 DEF vars
<1> QED BY <1>2, <1>3, <1>4, <1>5, <1>6, <1>7, <1>8, <1>9, <1>10, <1>11, <1>12,
           <1>13, <1>14, <1>15, <1>16 DEF Next, AvahiThread, Worker, Control

(* While the client is to be replaced the table is empty, and no event adds *)
(* to it.  A failing poll keeps the client, hence the hypothesis.           *)
LEMMA RestartingStep ==
  ASSUME TypeOK, "poll" \notin Faults, Restarting, [Next]_vars
  PROVE  Restarting'
<1>0. gen \in [Services -> Nat]
  BY DEF TypeOK
<1>1. ASSUME UNCHANGED <<clientRestart, client, gen>> PROVE Restarting'
  BY <1>1 DEF Restarting, Known
<1>2. ASSUME NEW s \in Services, BrowserNew(s) PROVE Restarting'
  BY <1>2 DEF BrowserNew, Browsing, Restarting, avahi
<1>3. ASSUME NEW s \in Services, BrowserRemove(s) PROVE Restarting'
  BY <1>3 DEF BrowserRemove, Browsing, Restarting, avahi
<1>4. CASE BrowserFails
  BY <1>4 DEF BrowserFails, ClearDiscovery, Restarting, Known
<1>5. CASE ClientFails
  BY <1>5 DEF ClientFails, ClearDiscovery, Restarting, Known
<1>6. CASE RestartClient
  <2>1. gen' = gen /\ clientRestart /\ (clientRestart' = FALSE \/ client' = "none")
    BY <1>6 DEF RestartClient, table
  <2> QED BY <2>1 DEF Restarting, Known
<1>7. CASE ClientRuns
  BY <1>7 DEF ClientRuns, Restarting
<1>8. CASE Joined
  BY <1>8 DEF Joined, Restarting, Known, table
<1>9. ASSUME NEW n \in Names, Invalidate(n) PROVE Restarting'
  <2>1. Renewed(Called(n)) /\ UNCHANGED <<clientRestart, client>>
    BY <1>9 DEF Invalidate, avahi
  <2>2. Known' = Known
    BY <2>1, RenewedKnown
  <2> QED BY <2>1, <2>2 DEF Restarting
<1>10. \/ RestartBrowser \/ ResolverStarts \/ ResolverRefused \/ ResolverDone
       \/ AvahiThreadExits \/ (\E s \in Services : StartResolver(s))
       \/ \E c \in contexts : ResolverFound(c) \/ ResolverFailed(c)
       => UNCHANGED <<clientRestart, client, gen>>
  BY DEF RestartBrowser, ResolverStarts, ResolverRefused, ResolverDone, AvahiThreadExits,
         StartResolver, ResolverFound, ResolverFailed, table, avahi
<1>11. \/ Worker \/ Stop \/ Network \/ UNCHANGED vars
       \/ \E n \in Names \cup {NoName} : RequestRefresh(n)
       => UNCHANGED <<clientRestart, client, gen>>
  BY DEF Worker, WorkerWaits, WorkerTakes, WorkerFetches, WorkerStores, WorkerExits,
         RequestRefresh, Stop, Network, Announce, Withdraw, AnswersChange, table, avahi, vars
<1>12. ~PollFails
  BY DEF PollFails, Fault
<1> QED BY <1>1, <1>2, <1>3, <1>4, <1>5, <1>6, <1>7, <1>8, <1>9, <1>10, <1>11, <1>12
        DEF Next, AvahiThread, Control

(* A resolving service's resolver: its context goes together with the mark, *)
(* or belongs to an outdated generation.                                    *)
LEMMA ResolversKept ==
  ASSUME ResolversExist, main' = main, contexts \subseteq contexts',
         resolving' \subseteq resolving, \A s \in resolving' : gen'[s] = gen[s]
  PROVE  ResolversExist'
BY DEF ResolversExist

LEMMA ResolversExistStep ==
  ASSUME IInv, WorkKnown, Restarting, ResolversExist, ~PollFails, [Next]_vars
  PROVE  ResolversExist'
<1>0. /\ TypeOK /\ gen \in [Services -> Nat] /\ nextGen \in Nat /\ resolving \subseteq Services
      /\ \A s \in resolving : s \in Known
  BY DEF IInv, TypeOK, WorkKnown, AtWork
<1>1. ASSUME UNCHANGED <<gen, contexts, resolving, main>> PROVE ResolversExist'
  BY <1>1, ResolversKept
<1>2. ASSUME NEW s \in Services, BrowserNew(s) PROVE ResolversExist'
  <2>1. UNCHANGED <<contexts, resolving, main>>
    BY <1>2 DEF BrowserNew, AddService, table
  <2>2. \A t \in Known : gen'[t] = gen[t]
    BY <1>0, <1>2 DEF BrowserNew, AddService, table, Known
  <2> QED BY <1>0, <2>1, <2>2, ResolversKept
<1>3. ASSUME NEW s \in Services, BrowserRemove(s) PROVE ResolversExist'
  <2>1. CASE s \notin Known
    BY <1>1, <1>3, <2>1 DEF BrowserRemove, table
  <2>2. CASE s \in Known
    <3>1. /\ gen' = [gen EXCEPT ![s] = 0] /\ resolving' = resolving \ {s}
          /\ UNCHANGED <<contexts, main>>
      BY <1>3, <2>2 DEF BrowserRemove, RemoveService
    <3>2. \A t \in resolving' : gen'[t] = gen[t]
      BY <1>0, <3>1
    <3> QED BY <3>1, <3>2, ResolversKept
  <2> QED BY <2>1, <2>2
<1>4. CASE BrowserFails \/ ClientFails
  BY <1>4 DEF BrowserFails, ClientFails, ClearDiscovery, ResolversExist
<1>5. CASE RestartClient
  <2>1. resolving' = resolving /\ clientRestart
    BY <1>5 DEF RestartClient, table
  <2>2. resolving = {}
    BY <1>0, <2>1 DEF Restarting
  <2> QED BY <2>1, <2>2 DEF ResolversExist
<1>6. CASE ResolverRefused \/ ResolverDone
  <2> DEFINE c == av.ctx
  <2>1. /\ UNCHANGED <<gen, main>> /\ contexts' = contexts \ {c}
        /\ c # None /\ c \in Context
    BY <1>0, <1>6 DEF ResolverRefused, ResolverDone, TypeOK, Opt
  <2>2. (resolving' = resolving /\ ~Live(c)) \/ resolving' = resolving \ {c.svc}
    BY <1>0, <1>6, <2>1, UnresolvedMarks DEF ResolverRefused, ResolverDone
  <2>3. ASSUME main' # "stopped", NEW s \in resolving'
        PROVE  \E x \in contexts' : x.svc = s /\ x.gen = gen'[s]
    <3>1. PICK x \in contexts : x.svc = s /\ x.gen = gen[s]
      BY <2>1, <2>2, <2>3 DEF ResolversExist
    <3>2. x # c
      <4>1. CASE resolving' = resolving \ {c.svc}
        BY <2>3, <3>1, <4>1
      <4>2. CASE resolving' = resolving /\ ~Live(c)
        <5>1. gen[s] # 0
          BY <1>0, <2>3, <4>2 DEF Known
        <5> QED BY <3>1, <4>2, <5>1 DEF Live
      <4> QED BY <2>2, <4>1, <4>2
    <3> QED BY <2>1, <3>1, <3>2
  <2> QED BY <2>3 DEF ResolversExist
<1>7. ASSUME NEW s \in Services, StartResolver(s) PROVE ResolversExist'
  <2> DEFINE c == [svc |-> s, gen |-> gen[s]]
  <2>1. /\ contexts' = contexts \cup {c} /\ resolving' = resolving \cup {s}
        /\ UNCHANGED <<gen, main>>
    BY <1>7 DEF StartResolver
  <2>2. c.svc = s /\ c.gen = gen[s]
    OBVIOUS
  <2> HIDE DEF c
  <2> QED BY <2>1, <2>2 DEF ResolversExist
<1>8. CASE Joined
  BY <1>8 DEF Joined, ResolversExist
<1>9. ASSUME NEW n \in Names, Invalidate(n) PROVE ResolversExist'
  <2>1. /\ Renewed(Called(n)) /\ resolving' = resolving \ Called(n)
        /\ UNCHANGED <<contexts, main>>
    BY <1>9 DEF Invalidate
  <2>2. \A s \in resolving' : gen'[s] = gen[s]
    BY <1>0, <2>1, RenewedKnown
  <2> QED BY <2>1, <2>2, ResolversKept
<1>10. CASE Stop
  BY <1>10 DEF Stop, ResolversExist, table
<1>11. \/ ClientRuns \/ RestartBrowser \/ ResolverStarts \/ AvahiThreadExits
       \/ \E c \in contexts : ResolverFound(c) \/ ResolverFailed(c)
       => UNCHANGED <<gen, contexts, resolving, main>>
  BY DEF ClientRuns, RestartBrowser, ResolverStarts, AvahiThreadExits,
         ResolverFound, ResolverFailed, table
<1>12. \/ Worker \/ Network \/ UNCHANGED vars
       \/ \E n \in Names \cup {NoName} : RequestRefresh(n)
       => UNCHANGED <<gen, contexts, resolving, main>>
  BY DEF Worker, WorkerWaits, WorkerTakes, WorkerFetches, WorkerStores, WorkerExits,
         RequestRefresh, Network, Announce, Withdraw, AnswersChange, table, vars
<1> QED BY <1>1, <1>2, <1>3, <1>4, <1>5, <1>6, <1>7, <1>8, <1>9, <1>10, <1>11, <1>12
        DEF Next, AvahiThread, Control

(* The threads lose no work of each other: unless avahi_simple_poll_iterate *)
(* fails (the daemon then clears its tables and keeps the working client    *)
(* for a while), a service marked resolving has a resolver that will        *)
(* report and one marked manifest_pending has its one fetch under way.      *)
THEOREM NoWorkIsLost ==
  ASSUME "poll" \notin Faults
  PROVE  Spec => []MarkedWorkExists
<1> DEFINE Inv == IInv /\ WorkKnown /\ FetchesExist /\ Restarting /\ ResolversExist
<1>1. Init => Inv
  <2>1. Init => IInv
    BY InvInit
  <2>2. Init => WorkKnown /\ FetchesExist /\ Restarting /\ ResolversExist
    BY DEF Init, WorkKnown, AtWork, FetchesExist, Restarting, ResolversExist
  <2> QED BY <2>1, <2>2
<1>2. ~PollFails
  BY DEF PollFails, Fault
<1>3. Inv /\ [Next]_vars => Inv'
  <2>1. IInv => TypeOK
    BY DEF IInv
  <2> QED BY <1>2, <2>1, InvStep, WorkKnownStep, FetchesExistStep, RestartingStep, ResolversExistStep
<1>4. Inv => MarkedWorkExists
  BY DEF MarkedWorkExists, ResolversExist, FetchesExist, IInv
<1> QED BY <1>1, <1>3, <1>4, PTL DEF Spec

-----------------------------------------------------------------------------
(* Nobody is forgotten.  A resolver that leaves a fetch behind counts no    *)
(* more when its callback ends: from then on it is the fetch that counts.   *)

Finishing ==
  {s \in Services : av.pc = "resolved" /\ av.queued /\ Live(av.ctx) /\ s = av.ctx.svc}

WorkFor == requested \cup pending \cup (resolving \ Finishing)

(* A service is served by its server's place in the cache, by its own work  *)
(* or by that of another service of its server.                             *)
Served(s) ==
  \/ serverName[s] \in Cached
  \/ \E t \in WorkFor : t = s \/ (serverName[s] # NoName /\ serverName[t] = serverName[s])

AllServed == \A s \in Known : Served(s)

(* The services a cached peer is owed to go by its name.                    *)
OwnersNamed ==
  \A n \in Cached : \E s \in Known : gen[s] = remotes[n].source /\ serverName[s] = n

LEMMA Idle ==
  ASSUME av.pc # "resolved" \/ ~av.queued PROVE Finishing = {} /\ WorkFor = AtWork
BY DEF Finishing, WorkFor, AtWork

LEMMA ServedKept ==
  ASSUME AllServed, Known' \subseteq Known, serverName' = serverName,
         Cached \subseteq Cached', WorkFor \subseteq WorkFor'
  PROVE  AllServed'
BY DEF AllServed, Served

(* A resolver's mark, once its fetch is queued, is not missed.              *)
LEMMA FinishedKept ==
  ASSUME AllServed, UNCHANGED <<gen, serverName, remotes>>, WorkFor \subseteq WorkFor'
  PROVE  AllServed'
<1>1. Known' = Known /\ Cached' = Cached
  BY DEF Known, Cached
<1> QED BY <1>1, ServedKept

LEMMA OwnersKept ==
  ASSUME OwnersNamed, remotes' = remotes,
         \A s \in Known : gen'[s] = gen[s] /\ serverName'[s] = serverName[s]
  PROVE  OwnersNamed'
BY DEF OwnersNamed, Cached, Known

LEMMA OwnersStep ==
  ASSUME NEW NameOf, StableNames(NameOf), IInv, NamesKept(NameOf), OwnersNamed,
         [Next]_vars
  PROVE  OwnersNamed'
<1>0. /\ TypeOK /\ gen \in [Services -> Nat] /\ nextGen \in Nat
      /\ remotes \in [Names -> Opt(Remote)]
      /\ serverName \in [Services -> Names \cup {NoName}]
  BY DEF IInv, TypeOK
<1>1. ASSUME UNCHANGED <<remotes, gen, serverName>> PROVE OwnersNamed'
  BY <1>1, OwnersKept
<1>2. ASSUME NEW s \in Services, BrowserNew(s) PROVE OwnersNamed'
  <2>1. UNCHANGED <<remotes, serverName>> /\ \A t \in Known : gen'[t] = gen[t]
    BY <1>0, <1>2 DEF BrowserNew, AddService, table, Known
  <2> QED BY <2>1, OwnersKept
<1>3. ASSUME NEW s \in Services, BrowserRemove(s) PROVE OwnersNamed'
  <2>1. CASE s \notin Known
    BY <1>1, <1>3, <2>1 DEF BrowserRemove, table
  <2>2. CASE s \in Known
    <3>1. /\ DropSourced(gen[s]) /\ gen' = [gen EXCEPT ![s] = 0]
          /\ serverName' = [serverName EXCEPT ![s] = NoName]
      BY <1>3, <2>2 DEF BrowserRemove, RemoveService
    <3>2. ASSUME NEW n \in Cached'
          PROVE  \E t \in Known' : gen'[t] = remotes'[n].source /\ serverName'[t] = n
      <4>1. n \in Cached /\ remotes'[n] = remotes[n]
        BY <1>0, <3>1 DEF DropSourced, Cached
      <4>2. PICK t \in Known : gen[t] = remotes[n].source /\ serverName[t] = n
        BY <4>1 DEF OwnersNamed
      <4>3. t # s
        <5>1. CASE \A m \in Cached : remotes[m].source # gen[s]
          BY <4>1, <4>2, <5>1
        <5>2. ASSUME NEW m \in Cached, remotes[m].source = gen[s],
                     remotes' = [remotes EXCEPT ![m] = None]
              PROVE  t # s
          <6>1. n # m
            BY <1>0, <5>2 DEF Cached
          <6>2. PICK u \in Known : gen[u] = remotes[m].source /\ serverName[u] = m
            BY DEF OwnersNamed
          <6>3. u = s
            BY <2>2, <5>2, <6>2 DEF IInv, GenerationsOK
          <6> QED BY <4>2, <6>1, <6>2, <6>3
        <5> QED BY <3>1, <5>1, <5>2 DEF DropSourced
      <4>4. t \in Known' /\ gen'[t] = gen[t] /\ serverName'[t] = serverName[t]
        BY <1>0, <3>1, <4>2, <4>3 DEF Known
      <4> QED BY <4>1, <4>2, <4>4
    <3> QED BY <3>2 DEF OwnersNamed
  <2> QED BY <2>1, <2>2
<1>4. CASE BrowserFails \/ ClientFails \/ PollFails
  BY <1>4 DEF BrowserFails, ClientFails, PollFails, ClearDiscovery, OwnersNamed, Cached
<1>5. ASSUME NEW c \in contexts, ResolverFound(c) PROVE OwnersNamed'
  <2>1. UNCHANGED <<gen, remotes>> /\ c.svc \in Services
        /\ world[c.svc] # None /\ world[c.svc].name = NameOf[c.svc]
    BY <1>0, <1>5 DEF ResolverFound, TypeOK, Context, NamesKept
  <2>2. \/ serverName' = serverName
        \/ serverName' = [serverName EXCEPT ![c.svc] = NameOf[c.svc]]
    BY <1>5, <2>1 DEF ResolverFound, QueueManifest
  <2>3. \A s \in Services : serverName[s] # NoName => serverName'[s] = serverName[s]
    BY <1>0, <2>1, <2>2 DEF NamesKept
  <2>4. \A n \in Cached : n # NoName
    BY ConstantsAssumption DEF Cached
  <2> QED BY <2>1, <2>3, <2>4 DEF OwnersNamed, Cached, Known
<1>6. CASE WorkerStores
  <2> DEFINE j == worker.job
  <2>1. CacheManifest(j, worker.got) /\ UNCHANGED <<gen, serverName>>
    BY <1>6 DEF WorkerStores
  <2>2. CASE remotes' = remotes
    BY <1>1, <2>1, <2>2
  <2>3. CASE remotes' # remotes
    <3>1. Live(j) /\ remotes' = [remotes EXCEPT ![j.name] = [addr |-> j.addr, source |-> j.gen]]
      BY <2>1, <2>3 DEF CacheManifest
    <3>2. j \in InFlight
      BY <1>6 DEF WorkerStores, IInv, TypeOK, InFlight
    <3>3. j.svc \in Services /\ j.name \in Names /\ serverName[j.svc] = j.name
      BY <3>1, <3>2, FetchFacts DEF Job
    <3>4. ASSUME NEW n \in Cached'
          PROVE  \E t \in Known : gen[t] = remotes'[n].source /\ serverName[t] = n
      <4>1. CASE n = j.name
        <5>1. remotes'[n].source = j.gen
          BY <1>0, <3>1, <3>3, <4>1
        <5> QED BY <3>1, <3>3, <4>1, <5>1 DEF Live, Known
      <4>2. CASE n # j.name
        BY <1>0, <3>1, <4>2 DEF OwnersNamed, Cached
      <4> QED BY <4>1, <4>2
    <3> QED BY <2>1, <3>4 DEF OwnersNamed, Known
  <2> QED BY <2>2, <2>3
<1>7. ASSUME NEW n \in Names, Invalidate(n) PROVE OwnersNamed'
  <2>1. /\ remotes' = [remotes EXCEPT ![n] = None] /\ Renewed(Called(n))
        /\ serverName' = serverName
    BY <1>7 DEF Invalidate
  <2>2. Known' = Known /\ \A s \in Services \ Called(n) : gen'[s] = gen[s]
    BY <1>0, <2>1, RenewedKnown
  <2>3. ASSUME NEW m \in Cached'
        PROVE  \E t \in Known : gen'[t] = remotes'[m].source /\ serverName[t] = m
    <3>1. m \in Cached /\ m # n /\ remotes'[m] = remotes[m]
      BY <1>0, <2>1 DEF Cached
    <3>2. PICK t \in Known : gen[t] = remotes[m].source /\ serverName[t] = m
      BY <3>1 DEF OwnersNamed
    <3>3. t \in Services \ Called(n)
      BY <3>1, <3>2 DEF Called, Known
    <3> QED BY <2>2, <3>1, <3>2, <3>3
  <2> QED BY <2>1, <2>2, <2>3 DEF OwnersNamed
<1>8. \/ \E s \in Services : StartResolver(s)
      \/ RestartClient \/ ClientRuns \/ RestartBrowser
      \/ ResolverStarts \/ ResolverRefused \/ ResolverDone \/ AvahiThreadExits
      \/ \E c \in contexts : ResolverFailed(c)
      => UNCHANGED <<remotes, gen, serverName>>
  BY DEF StartResolver, RestartClient, ClientRuns, RestartBrowser, ResolverStarts,
         ResolverRefused, ResolverDone, AvahiThreadExits, ResolverFailed, table
<1>9. \/ WorkerWaits \/ WorkerTakes \/ WorkerFetches \/ WorkerExits
      \/ \E n \in Names \cup {NoName} : RequestRefresh(n)
      \/ Stop \/ Joined \/ Network \/ UNCHANGED vars
      => UNCHANGED <<remotes, gen, serverName>>
  BY DEF WorkerWaits, WorkerTakes, WorkerFetches, WorkerExits, RequestRefresh, Stop,
         Joined, Network, Announce, Withdraw, AnswersChange, table, vars
<1> QED BY <1>1, <1>2, <1>3, <1>4, <1>5, <1>6, <1>7, <1>8, <1>9
        DEF Next, AvahiThread, Worker, Control

(* A live fetch finds room in the cache: every peer in it is owed to a      *)
(* service of its own, and the fetch's service is yet another.              *)
LEMMA CacheHasRoom ==
  ASSUME TypeOK, OwnersNamed, TablesBounded, NEW j \in Job, Live(j),
         serverName[j.svc] = j.name, remotes[j.name] = None
  PROVE  Cardinality(Cached) < MaxServers
<1> DEFINE Others == Known \ {j.svc}
           f == [s \in Others |-> serverName[s]]
           T == {serverName[s] : s \in Others}
<1>1. j.svc \in Known /\ j.name \in Names /\ Known \subseteq Services
  BY DEF Job, Live, Known
<1>2. IsFiniteSet(Known) /\ IsFiniteSet(Cached) /\ Cardinality(Known) \in Nat
  BY FiniteTables, FS_CardinalityType
<1>3. IsFiniteSet(Others) /\ Cardinality(Others) = Cardinality(Known) - 1
  BY <1>1, <1>2, FS_RemoveElement
<1>4. f \in Surjection(Others, T)
  BY DEF Surjection
<1>5. IsFiniteSet(T) /\ Cardinality(T) <= Cardinality(Others)
  BY <1>3, <1>4, FS_Surjection
<1>6. Cached \subseteq T
  <2>1. ASSUME NEW n \in Cached PROVE n \in T
    <3>1. PICK s \in Known : serverName[s] = n
      BY DEF OwnersNamed
    <3>2. n # j.name
      BY DEF Cached
    <3> QED BY <3>1, <3>2
  <2> QED BY <2>1
<1>7. Cardinality(Cached) <= Cardinality(T)
  BY <1>5, <1>6, FS_Subset
<1>8. Cardinality(Cached) \in Nat /\ Cardinality(T) \in Nat /\ Cardinality(Others) \in Nat
  BY <1>2, <1>3, <1>5, FS_CardinalityType
<1> HIDE DEF Others, T
<1> QED BY <1>2, <1>3, <1>5, <1>7, <1>8, ConstantsAssumption DEF TablesBounded

(* The service that leaves hands over to the others of its server.          *)
LEMMA RemoveServed ==
  ASSUME IInv, NEW s \in Known, RemoveService(s), OwnersNamed, AllServed,
         WorkKnown, av' = av, av.pc = "poll"
  PROVE  AllServed'
<1>0. /\ gen \in [Services -> Nat] /\ Known \subseteq Services
      /\ remotes \in [Names -> Opt(Remote)]
      /\ serverName \in [Services -> Names \cup {NoName}]
  BY DEF IInv, TypeOK, Known
<1>1. /\ DropSourced(gen[s]) /\ PassOn(s)
      /\ gen' = [gen EXCEPT ![s] = 0]
      /\ serverName' = [serverName EXCEPT ![s] = NoName]
      /\ resolving' = resolving \ {s} /\ pending' = pending \ {s}
  BY DEF RemoveService
<1>2. WorkFor = AtWork /\ WorkFor' = AtWork'
  BY DEF Finishing, WorkFor, AtWork
<1>3. Known' = Known \ {s} /\ \A t \in Known' : serverName'[t] = serverName[t]
  BY <1>0, <1>1 DEF Known
<1>4. AtWork \ {s} \subseteq AtWork'
  BY <1>1 DEF PassOn, AtWork
<1>5. ASSUME NEW u \in Known', serverName[u] = serverName[s], serverName[u] # NoName
      PROVE  Served(u)'
  <2>1. u \in Heirs(s)
    BY <1>3, <1>5 DEF Heirs
  <2>2. PICK t \in Heirs(s) : requested' = (requested \ {s}) \cup {t}
    BY <1>1, <1>5, <2>1 DEF PassOn
  <2>3. t \in AtWork' /\ t \in Known' /\ serverName[t] = serverName[u]
    BY <1>3, <1>5, <2>2 DEF Heirs, AtWork
  <2> QED BY <1>2, <1>3, <1>5, <2>3 DEF Served
<1>6. ASSUME NEW u \in Known', serverName[u] # serverName[s] \/ serverName[u] = NoName
      PROVE  Served(u)'
  <2>1. u \in Known /\ u # s /\ Served(u)
    BY <1>3 DEF AllServed
  <2>2. CASE serverName[u] \in Cached
    <3>1. PICK t \in Known : gen[t] = remotes[serverName[u]].source /\ serverName[t] = serverName[u]
      BY <2>2 DEF OwnersNamed
    <3>2. t # s
      BY <1>6, <2>2, <3>1, ConstantsAssumption DEF Cached
    <3>3. remotes[serverName[u]].source # gen[s]
      BY <3>1, <3>2 DEF IInv, GenerationsOK
    <3>4. serverName[u] \in Cached'
      BY <1>0, <1>1, <2>2, <3>3 DEF DropSourced, Cached
    <3> QED BY <1>3, <3>4 DEF Served
  <2>3. CASE serverName[u] \notin Cached
    <3>1. PICK t \in WorkFor : t = u \/ (serverName[u] # NoName /\ serverName[t] = serverName[u])
      BY <2>1, <2>3 DEF Served
    <3>2. t # s
      BY <1>6, <2>1, <3>1
    <3>3. t \in AtWork' /\ t \in Known'
      BY <1>2, <1>3, <1>4, <3>1, <3>2 DEF WorkKnown
    <3> QED BY <1>2, <1>3, <3>1, <3>3 DEF Served
  <2> QED BY <2>2, <2>3
<1> QED BY <1>5, <1>6 DEF AllServed

LEMMA AllServedStep ==
  ASSUME NEW NameOf, StableNames(NameOf), IInv, NamesKept(NameOf), OwnersNamed,
         WorkKnown, TablesBounded, AllServed, [Next]_vars
  PROVE  AllServed'
<1>0. /\ TypeOK /\ gen \in [Services -> Nat] /\ nextGen \in Nat
      /\ remotes \in [Names -> Opt(Remote)]
      /\ serverName \in [Services -> Names \cup {NoName}]
      /\ WorkFor \subseteq Services
  BY DEF IInv, TypeOK, WorkFor
<1>1. ASSUME UNCHANGED <<gen, serverName, remotes, pending>>,
             requested \subseteq requested', resolving' = resolving,
             av' = av \/ av'.pc # "resolved" \/ ~av'.queued
      PROVE  AllServed'
  <2>1. Finishing' \subseteq Finishing
    BY <1>1 DEF Finishing, Live
  <2> QED BY <1>1, <2>1, FinishedKept DEF WorkFor
<1>2. ASSUME NEW s \in Services, BrowserNew(s) PROVE AllServed'
  <2>1. /\ UNCHANGED <<remotes, serverName, resolving, pending>>
        /\ requested' = requested \/ requested' = requested \cup {s}
        /\ Known' \subseteq Known \cup {s}
        /\ gen' # gen => s \in requested'
    BY <1>0, <1>2 DEF BrowserNew, AddService, table, Known
  <2>2. WorkFor' = requested' \cup pending \cup resolving /\ WorkFor \subseteq WorkFor'
    BY <1>2, <2>1 DEF BrowserNew, Browsing, Polling, Finishing, WorkFor
  <2>3. ASSUME NEW u \in Known' PROVE Served(u)'
    <3>1. CASE u \in Known
      BY <2>1, <2>2, <3>1 DEF AllServed, Served, Cached
    <3>2. CASE u \notin Known
      <4>1. u \in requested'
        BY <2>1, <3>2 DEF Known
      <4> QED BY <2>2, <4>1 DEF Served
    <3> QED BY <3>1, <3>2
  <2> QED BY <2>3 DEF AllServed
<1>3. ASSUME NEW s \in Services, BrowserRemove(s) PROVE AllServed'
  <2>1. CASE s \notin Known
    BY <1>1, <1>3, <2>1 DEF BrowserRemove, table
  <2>2. CASE s \in Known
    BY <1>3, <2>2, RemoveServed DEF BrowserRemove, Browsing, Polling
  <2> QED BY <2>1, <2>2
<1>4. CASE BrowserFails \/ ClientFails \/ PollFails
  BY <1>4 DEF BrowserFails, ClientFails, PollFails, ClearDiscovery, AllServed, Known
<1>5. CASE RestartClient \/ ClientRuns \/ RestartBrowser \/ ResolverStarts \/ AvahiThreadExits
  <2>1. av' = av \/ ~av'.queued
    BY <1>5 DEF RestartClient, ClientRuns, RestartBrowser, ResolverStarts,
                AvahiThreadExits, AvIdle
  <2>2. UNCHANGED <<table, remotes>>
    BY <1>5 DEF RestartClient, ClientRuns, RestartBrowser, ResolverStarts, AvahiThreadExits
  <2> QED BY <1>1, <2>1, <2>2 DEF table
<1>6. CASE ResolverRefused \/ ResolverDone
  <2> DEFINE c == av.ctx
  <2>1. /\ UNCHANGED <<gen, serverName, remotes, pending>> /\ av' = AvIdle
        /\ c # None /\ c \in Context /\ c.svc \in Services
    BY <1>0, <1>6 DEF ResolverRefused, ResolverDone, TypeOK, Opt, Context
  <2>2. Finishing' = {}
    BY <2>1 DEF Finishing, AvIdle
  <2>3. CASE Unresolved
    <3>1. requested \cup resolving \subseteq requested' \cup resolving'
      BY <1>0, <2>1, <2>3, UnresolvedMarks
    <3> QED BY <2>1, <2>2, <3>1, FinishedKept DEF WorkFor
  <2>4. CASE /\ ResolverDone /\ av.queued
    <3>1. /\ requested' = requested
          /\ resolving' = IF Live(c) THEN resolving \ {c.svc} ELSE resolving
      BY <2>4 DEF ResolverDone
    <3>2. Finishing = IF Live(c) THEN {c.svc} ELSE {}
      BY <2>1, <2>4 DEF ResolverDone, Finishing
    <3>3. WorkFor' = WorkFor
      BY <2>1, <2>2, <3>1, <3>2 DEF WorkFor
    <3> QED BY <2>1, <3>3, FinishedKept
  <2> QED BY <1>6, <2>3, <2>4 DEF ResolverRefused, ResolverDone
<1>7. ASSUME NEW s \in Services, StartResolver(s) PROVE AllServed'
  <2>1. /\ UNCHANGED <<gen, serverName, remotes, pending>>
        /\ requested' = requested \ {s} /\ resolving' = resolving \cup {s}
        /\ ~av'.queued
    BY <1>7 DEF StartResolver
  <2>2. Finishing' = {}
    BY <2>1 DEF Finishing
  <2> QED BY <2>1, <2>2, FinishedKept DEF WorkFor
<1>8. ASSUME NEW c \in contexts, ResolverFailed(c) PROVE AllServed'
  <2>1. ~av'.queued /\ UNCHANGED <<table, remotes>>
    BY <1>8 DEF ResolverFailed, Resolved
  <2> QED BY <1>1, <2>1 DEF table
<1>9. ASSUME NEW c \in contexts, ResolverFound(c) PROVE AllServed'
  <2>1. /\ UNCHANGED <<gen, remotes, requested, resolving>>
        /\ c.svc \in Services /\ av.pc = "poll"
        /\ world[c.svc] # None /\ world[c.svc].name = NameOf[c.svc]
    BY <1>0, <1>9 DEF ResolverFound, Polling, TypeOK, Context, NamesKept
  <2>2. /\ \/ serverName' = serverName
           \/ serverName' = [serverName EXCEPT ![c.svc] = NameOf[c.svc]] /\ c.svc \in pending'
        /\ pending \subseteq pending'
        /\ (av' = Resolved(c, TRUE) /\ c.svc \in pending') \/ av' = Resolved(c, FALSE)
    BY <1>9, <2>1 DEF ResolverFound, QueueManifest
  <2>3. \A s \in Services : serverName[s] # NoName => serverName'[s] = serverName[s]
    BY <1>0, <2>1, <2>2 DEF NamesKept
  <2>4. Finishing' \subseteq pending'
    BY <2>2 DEF Finishing, Resolved
  <2>5. WorkFor \subseteq WorkFor' /\ pending' \subseteq WorkFor'
    BY <2>1, <2>2, <2>4 DEF WorkFor
  <2>6. ASSUME NEW u \in Known PROVE Served(u)'
    <3>1. CASE u \in WorkFor'
      BY <3>1 DEF Served
    <3>2. CASE u \notin WorkFor'
      <4>1. serverName'[u] = serverName[u] /\ u \in Services
        BY <1>0, <2>2, <2>5, <3>2 DEF Known
      <4>2. serverName[u] \in Cached
            \/ \E t \in WorkFor : serverName[u] # NoName /\ serverName[t] = serverName[u]
        BY <2>5, <3>2 DEF AllServed, Served
      <4>3. Cached' = Cached
        BY <2>1 DEF Cached
      <4>4. CASE serverName[u] \in Cached
        BY <4>1, <4>3, <4>4 DEF Served
      <4>5. ASSUME NEW t \in WorkFor, serverName[u] # NoName, serverName[t] = serverName[u]
            PROVE  Served(u)'
        <5>1. serverName'[t] = serverName'[u] /\ t \in WorkFor'
          BY <1>0, <2>3, <2>5, <4>1, <4>5
        <5> QED BY <4>1, <4>5, <5>1 DEF Served
      <4> QED BY <4>2, <4>4, <4>5
    <3> QED BY <3>1, <3>2
  <2> QED BY <2>1, <2>6 DEF AllServed, Known
<1>10. CASE WorkerStores
  <2> DEFINE j == worker.job
  <2>1. CacheManifest(j, worker.got) /\ UNCHANGED <<gen, serverName, resolving, av>>
    BY <1>10 DEF WorkerStores
  <2>2. j \in InFlight
    BY <1>10 DEF WorkerStores, IInv, TypeOK, InFlight
  <2>3. j \in Job /\ j.svc \in Services /\ j.name \in Names
    BY <2>2, FetchFacts DEF Job
  <2>4. Known' = Known /\ Finishing' = Finishing
    BY <2>1 DEF Known, Finishing, Live
  <2>5. CASE UNCHANGED <<pending, requested, remotes>>
    BY <1>1, <2>1, <2>5
  <2>6. CASE pending' = pending \ {j.svc} /\ requested' = requested \cup {j.svc} /\ remotes' = remotes
    BY <2>1, <2>4, <2>6, FinishedKept DEF WorkFor
  <2>7. CASE /\ Live(j) /\ remotes[j.name] = None /\ Cardinality(Cached) >= MaxServers
    <3>1. serverName[j.svc] = j.name
      BY <2>2, <2>7, FetchFacts
    <3>2. Cardinality(Cached) < MaxServers
      BY <1>0, <2>3, <2>7, <3>1, CacheHasRoom
    <3>3. Cardinality(Cached) \in Nat /\ MaxServers \in Nat
      BY FiniteTables, FS_CardinalityType, ConstantsAssumption
    <3> QED BY <2>7, <3>2, <3>3
  <2>8. CASE /\ Live(j) /\ pending' = pending \ {j.svc} /\ requested' = requested
             /\ remotes' = [remotes EXCEPT ![j.name] = [addr |-> j.addr, source |-> j.gen]]
    <3>1. serverName[j.svc] = j.name
      BY <2>2, <2>8, FetchFacts
    <3>2. Cached' = Cached \cup {j.name}
      <4>1. [addr |-> j.addr, source |-> j.gen] \in Remote
        BY <2>3 DEF Job, Remote
      <4>2. [addr |-> j.addr, source |-> j.gen] # None
        BY <4>1, NoneAssumption
      <4> QED BY <1>0, <2>3, <2>8, <4>2 DEF Cached
    <3>3. WorkFor \ {j.svc} \subseteq WorkFor'
      BY <2>4, <2>8, <2>1 DEF WorkFor
    <3>4. ASSUME NEW u \in Known PROVE Served(u)'
      <4>1. CASE serverName[u] \in Cached'
        BY <2>1, <4>1 DEF Served
      <4>2. CASE serverName[u] \notin Cached'
        <5>1. PICK t \in WorkFor : t = u \/ (serverName[u] # NoName /\ serverName[t] = serverName[u])
          BY <3>2, <4>2 DEF AllServed, Served
        <5>2. t # j.svc
          BY <3>1, <3>2, <4>2, <5>1
        <5> QED BY <2>1, <3>3, <5>1, <5>2 DEF Served
      <4> QED BY <4>1, <4>2
    <3> QED BY <2>4, <3>4 DEF AllServed
  <2> QED BY <2>1, <2>5, <2>6, <2>7, <2>8, Zenon DEF CacheManifest
<1>11. ASSUME NEW n \in Names, Invalidate(n) PROVE AllServed'
  <2> DEFINE S == Called(n)
  <2>1. /\ remotes' = [remotes EXCEPT ![n] = None] /\ Renewed(S)
        /\ requested' = requested \cup S /\ resolving' = resolving \ S
        /\ pending' = pending \ S /\ UNCHANGED <<serverName, av>>
    BY <1>11 DEF Invalidate
  <2>2. Known' = Known /\ \A s \in Services \ S : gen'[s] = gen[s]
    BY <1>0, <2>1, RenewedKnown
  <2>3. Cached' = Cached \ {n}
    BY <1>0, <2>1 DEF Cached
  <2>4. Finishing' \subseteq Finishing \cup S
    BY <2>2 , <2>1 DEF Finishing, Live
  <2>5. WorkFor \subseteq WorkFor' /\ S \subseteq WorkFor'
    BY <2>1, <2>4 DEF WorkFor
  <2>6. ASSUME NEW u \in Known PROVE Served(u)'
    <3>1. CASE serverName[u] = n
      BY <2>5, <3>1 DEF Served, Called
    <3>2. CASE serverName[u] # n
      BY <2>1, <2>3, <2>5, <3>2 DEF AllServed, Served
    <3> QED BY <3>1, <3>2
  <2> QED BY <2>2, <2>6 DEF AllServed
<1>12. ASSUME NEW n \in Names \cup {NoName}, RequestRefresh(n) PROVE AllServed'
  BY <1>1, <1>12 DEF RequestRefresh
<1>13. WorkerWaits \/ WorkerTakes \/ WorkerFetches \/ WorkerExits \/ Stop \/ Joined
       => AllServed'
  BY <1>1 DEF WorkerWaits, WorkerTakes, WorkerFetches, WorkerExits, Stop, Joined, table
<1>14. Network \/ UNCHANGED vars => AllServed'
  BY <1>1 DEF Network, Announce, Withdraw, AnswersChange, table, vars
<1> QED BY <1>2, <1>3, <1>4, <1>5, <1>6, <1>7, <1>8, <1>9, <1>10, <1>11, <1>12,
           <1>13, <1>14 DEF Next, AvahiThread, Worker, Control

(* Where services keep their server names no announced service drops out    *)
(* of the discovery, however its resolvers and fetches fail, whichever      *)
(* service of its server leaves (remove_service_index_locked), and however  *)
(* many others there are: the cache, bounded like the table of services,    *)
(* has room for the peer of every service that is fetched.                  *)
THEOREM NobodyIsForgotten ==
  ASSUME NEW NameOf, StableNames(NameOf)
  PROVE  Spec => []NobodyForgotten
<1> DEFINE Inv == /\ IInv /\ Bounded /\ NamesKept(NameOf)
                  /\ OwnersNamed /\ WorkKnown /\ AllServed
<1>1. Init => Inv
  <2>1. Init => IInv /\ Bounded /\ NamesKept(NameOf)
    BY InvInit, BoundedInit, NamesInit
  <2>2. Init => Known = {} /\ Cached = {} /\ AtWork = {}
    BY DEF Init, Known, Cached, AtWork
  <2>3. Init => OwnersNamed /\ WorkKnown /\ AllServed
    BY <2>2 DEF OwnersNamed, WorkKnown, AllServed
  <2> QED BY <2>1, <2>3
<1>2. Inv /\ [Next]_vars => Inv'
  <2>1. IInv /\ Bounded => TypeOK /\ TablesBounded
    BY DEF IInv, Bounded
  <2> QED BY <2>1, InvStep, BoundedStep, NamesStep, OwnersStep, WorkKnownStep, AllServedStep
<1>3. Inv => NobodyForgotten
  BY DEF AllServed, Served, WorkFor, NobodyForgotten, AtWork
<1> QED BY <1>1, <1>2, <1>3, PTL DEF Spec
=============================================================================
