--------------------------- MODULE ServeDiscovery ---------------------------
(***************************************************************************)
(* How simpleserved finds its peers (src/simpleserved.c): the Avahi thread *)
(* browses services and resolves them, the manifest worker fetches what a  *)
(* resolved peer offers, the control worker reads the cache, asks for a    *)
(* refresh, and dismisses a peer whose mount failed.  They share the table *)
(* of services, the fetch queue and the cache under remote_mutex; an       *)
(* action below is one critical section, with what the thread does up to   *)
(* the next one.                                                           *)
(*                                                                         *)
(* Time only delays: a retry or restart that is due later is one that may  *)
(* happen at any later moment, so retry_at_ms and avahi_restart_at_ms are  *)
(* left out.  The tables are arrays searched from the front; the model     *)
(* keeps them as functions and sets, and "the first" is any.               *)
(***************************************************************************)
EXTENDS Naturals, FiniteSets, Sequences

CONSTANTS
  Services,    \* DNS-SD identities: interface, protocol, name, type, domain
  Names,       \* server names a peer may advertise or put in its manifest
  Addrs,       \* private IPv4 addresses
  None,        \* absent
  NoName,      \* the empty server name
  MaxServers,  \* SS_MAX_SERVERS: bound of services, contexts, jobs, cache
  Worlds,      \* the announcements there may be at the start
  Answering,   \* the servers that may answer at the addresses at the start
  Changes,     \* the announcements the world may change to
  Moves,       \* bound: the kinds of move the world may make
  Faults,      \* the kinds of fault that may happen
  Budgets      \* bound: how many moves of the world, faults, and refreshes
               \* or dismissals a behaviour may have

Announcement == [svc : Services, name : Names, addr : Addrs]
Opt(S)       == S \cup {None}
WorldType    == [Services -> Opt([name : Names, addr : Addrs])]

ASSUME ConstantsAssumption ==
  /\ IsFiniteSet(Services) /\ IsFiniteSet(Names)
  /\ NoName \notin Names
  /\ None \notin Names \cup Services \cup Addrs
  /\ MaxServers \in Nat
  /\ Worlds \subseteq WorldType
  /\ Answering \subseteq [Addrs -> Opt(Names)]
  /\ Changes \subseteq Announcement
  /\ Budgets \subseteq [moves : Nat, faults : Nat, asks : Nat]

VARIABLES
  gen,        \* generation of each service in the table, 0 for the others
  nextGen,    \* daemon->next_service_generation
  serverName, \* the name a service was last queued under
  requested,  \* services with resolve_requested
  resolving,  \* services with resolving
  pending,    \* services with manifest_pending
  remotes,    \* the cache: address and source generation by server name
  jobs,       \* manifest_jobs
  contexts,   \* resolver_contexts in use
  client,     \* avahi_client: none, connecting, running or failed
  browser,    \* avahi_browser: none, up or failed
  clientRestart, browserRestart, \* the restarts asked for
  av,         \* the Avahi thread: program counter and locals
  worker,     \* the manifest worker: program counter and locals
  main,       \* the control thread: running, joining, stopped
  announced,  \* services the present browser has reported
  world,      \* what is announced on the network
  peer,       \* the server that answers at an address
  budget,     \* moves, faults, refreshes and dismissals left
  dismissed   \* history: names dismissed and not announced elsewhere since

table    == <<gen, nextGen, serverName, requested, resolving, pending>>
avahi    == <<client, browser, clientRestart, browserRestart>>
outside  == <<world, peer>>
vars     == <<gen, nextGen, serverName, requested, resolving, pending, remotes,
              jobs, contexts, client, browser, clientRestart, browserRestart,
              av, worker, main, announced, world, peer, budget, dismissed>>

-----------------------------------------------------------------------------
(* Data *)

Context == [svc : Services, gen : Nat]
Job     == [svc : Services, gen : Nat, name : Names, addr : Addrs]
Remote  == [addr : Addrs, source : Nat]

ASSUME NoneAssumption ==
  None \notin Context \cup Job \cup Remote \cup [name : Names, addr : Addrs]

Known  == {s \in Services : gen[s] # 0}
Cached == {n \in Names : remotes[n] # None}

(* faulty variant: the identity matches, whatever its generation *)
LiveByIdentity(x) == gen[x.svc] # 0

(* service_identity_matches and the comparison of generations *)
Live(x) == gen[x.svc] # 0 /\ gen[x.svc] = x.gen

Advertised(n)  == {s \in Services : world[s] # None /\ world[s].name = n}
AnnouncedBy(s) == {n \in Names : s \in Advertised(n)}

Stopping == main # "running"

Spend(what) == /\ budget[what] > 0
               /\ budget' = [budget EXCEPT ![what] = @ - 1]
Fault(kind) == kind \in Faults /\ Spend("faults")
-----------------------------------------------------------------------------
(* The shared tables, changed under remote_mutex *)

(* clear_remote_discovery_locked *)
ClearDiscovery ==
  /\ gen' = [s \in Services |-> 0]
  /\ serverName' = [s \in Services |-> NoName]
  /\ requested' = {} /\ resolving' = {} /\ pending' = {}
  /\ remotes' = [n \in Names |-> None]
  /\ jobs' = <<>>
  /\ UNCHANGED nextGen

(* faulty variant: the table is not checked for room *)
AddServiceAnyway(s) ==
  IF gen[s] = 0
    THEN /\ nextGen' = nextGen + 1
         /\ gen' = [gen EXCEPT ![s] = nextGen + 1]
         /\ requested' = requested \cup {s}
         /\ UNCHANGED <<serverName, resolving, pending>>
    ELSE UNCHANGED table

(* service_browser_callback, AVAHI_BROWSER_NEW *)
AddService(s) ==
  IF gen[s] = 0 /\ Cardinality(Known) < MaxServers
    THEN /\ nextGen' = nextGen + 1
         /\ gen' = [gen EXCEPT ![s] = nextGen + 1]
         /\ requested' = requested \cup {s}
         /\ UNCHANGED <<serverName, resolving, pending>>
    ELSE UNCHANGED table

(* faulty variant: the cache entry outlives its service *)
DropNothing(g) == g \in Nat /\ UNCHANGED remotes

(* remove_remote_source_locked: one entry at most *)
DropSourced(g) ==
  \/ /\ \A n \in Cached : remotes[n].source # g
     /\ UNCHANGED remotes
  \/ \E n \in Cached : /\ remotes[n].source = g
                       /\ remotes' = [remotes EXCEPT ![n] = None]

(* faulty variant: nobody takes over *)
PassOnToNobody(s) == requested' = requested \ {s}

(* The first other service of the same server takes over. *)
Heirs(s) == {t \in Known \ {s} : serverName[t] = serverName[s]}

PassOn(s) ==
  \/ /\ serverName[s] = NoName \/ Heirs(s) = {}
     /\ requested' = requested \ {s}
  \/ /\ serverName[s] # NoName
     /\ \E t \in Heirs(s) : requested' = (requested \ {s}) \cup {t}

(* remove_service_index_locked *)
RemoveService(s) ==
  /\ DropSourced(gen[s])
  /\ PassOn(s)
  /\ gen' = [gen EXCEPT ![s] = 0]
  /\ serverName' = [serverName EXCEPT ![s] = NoName]
  /\ resolving' = resolving \ {s}
  /\ pending' = pending \ {s}
  /\ UNCHANGED nextGen

WorkerIdle == [pc |-> "check", job |-> None, got |-> None]

(* pthread_cond_signal and _broadcast: there is one waiter *)
Woken == IF worker.pc = "asleep" THEN WorkerIdle ELSE worker

Resolved(c, queued) == [pc |-> "resolved", ctx |-> c, queued |-> queued]

(* queue_manifest_locked: whether context c leaves a fetch behind.  A fetch *)
(* already pending stands for this one, with the address it was queued for. *)
QueueManifest(c, n, a) ==
  \/ /\ Live(c) /\ c.svc \in pending
     /\ av' = Resolved(c, TRUE)
     /\ UNCHANGED <<jobs, serverName, pending, worker>>
  \/ /\ ~Live(c) \/ (c.svc \notin pending /\ Len(jobs) >= MaxServers)
     /\ av' = Resolved(c, FALSE)
     /\ UNCHANGED <<jobs, serverName, pending, worker>>
  \/ /\ Live(c) /\ c.svc \notin pending /\ Len(jobs) < MaxServers
     /\ jobs' = Append(jobs, [svc |-> c.svc, gen |-> c.gen, name |-> n, addr |-> a])
     /\ serverName' = [serverName EXCEPT ![c.svc] = n]
     /\ pending' = pending \cup {c.svc}
     /\ worker' = Woken
     /\ av' = Resolved(c, TRUE)

(* cache_manifest_result_locked.  A peer that answers under another name is *)
(* a failed fetch; a new peer that finds the cache full is dropped.         *)
CacheManifest(j, got) ==
  \/ /\ ~Live(j)
     /\ UNCHANGED <<pending, requested, remotes>>
  \/ /\ Live(j) /\ got # j.name
     /\ pending' = pending \ {j.svc}
     /\ requested' = requested \cup {j.svc}
     /\ UNCHANGED remotes
  \/ /\ Live(j) /\ got = j.name
     /\ remotes[got] = None /\ Cardinality(Cached) >= MaxServers
     /\ pending' = pending \ {j.svc}
     /\ UNCHANGED <<requested, remotes>>
  \/ /\ Live(j) /\ got = j.name
     /\ remotes[got] # None \/ Cardinality(Cached) < MaxServers
     /\ pending' = pending \ {j.svc}
     /\ remotes' = [remotes EXCEPT ![got] = [addr |-> j.addr, source |-> j.gen]]
     /\ UNCHANGED requested

-----------------------------------------------------------------------------
(* The Avahi thread (avahi_worker_main) and the callbacks it dispatches     *)

AvIdle == [pc |-> "poll", ctx |-> None, queued |-> FALSE]

Polling == av.pc = "poll"

Browsing == Polling /\ client = "running" /\ browser = "up"

BrowserNew(s) ==
  /\ Browsing
  /\ s \notin announced /\ world[s] # None
  /\ announced' = announced \cup {s}
  /\ AddService(s)
  /\ UNCHANGED <<remotes, jobs, contexts, avahi, av, worker, main, outside,
                 budget, dismissed>>

BrowserRemove(s) ==
  /\ Browsing
  /\ s \in announced /\ world[s] = None
  /\ announced' = announced \ {s}
  /\ IF s \in Known THEN RemoveService(s) ELSE UNCHANGED <<table, remotes>>
  /\ UNCHANGED <<jobs, contexts, avahi, av, worker, main, outside, budget,
                 dismissed>>

(* AVAHI_BROWSER_FAILURE *)
BrowserFails ==
  /\ Browsing
  /\ Fault("browser")
  /\ ClearDiscovery
  /\ announced' = {}
  /\ browser' = "failed" /\ browserRestart' = TRUE
  /\ UNCHANGED <<client, clientRestart, contexts, av, worker, main, outside, dismissed>>

(* AVAHI_CLIENT_FAILURE: the daemon's objects on this client are dead *)
ClientFails ==
  /\ Polling /\ client \in {"connecting", "running"}
  /\ Fault("client")
  /\ ClearDiscovery
  /\ announced' = {}
  /\ client' = "failed" /\ clientRestart' = TRUE
  /\ browser' = IF browser = "none" THEN "none" ELSE "failed"
  /\ UNCHANGED <<browserRestart, contexts, av, worker, main, outside, dismissed>>

(* avahi_simple_poll_iterate fails: the client itself still works *)
PollFails ==
  /\ Polling
  /\ Fault("poll")
  /\ ClearDiscovery
  /\ clientRestart' = TRUE
  /\ UNCHANGED <<client, browser, browserRestart, contexts, av, worker, main, announced, outside, dismissed>>

(* restart_avahi_client_if_needed *)
RestartClient ==
  /\ Polling /\ ~Stopping
  /\ clientRestart
  /\ contexts' = {}
  /\ announced' = {}
  /\ browser' = "none"
  /\ \/ /\ client' = "connecting" /\ clientRestart' = FALSE
        /\ UNCHANGED budget
     \/ /\ Fault("restart")
        /\ client' = "none"
        /\ UNCHANGED clientRestart
  /\ UNCHANGED <<browserRestart, table, remotes, jobs, av, worker, main, outside, dismissed>>

(* avahi_client_callback, AVAHI_CLIENT_S_RUNNING *)
ClientRuns ==
  /\ Polling
  /\ client = "connecting"
  /\ client' = "running"
  /\ \/ /\ browser' = "up" /\ browserRestart' = FALSE
        /\ UNCHANGED budget
     \/ /\ Fault("restart")
        /\ browserRestart' = TRUE
        /\ UNCHANGED browser
  /\ UNCHANGED <<clientRestart, table, remotes, jobs, contexts, av, worker, main, announced,
                 outside, dismissed>>

(* restart_avahi_browser_if_needed *)
RestartBrowser ==
  /\ Polling /\ ~Stopping
  /\ browserRestart /\ ~clientRestart /\ client = "running"
  /\ announced' = {}
  /\ \/ /\ browser' = "up" /\ browserRestart' = FALSE
        /\ UNCHANGED budget
     \/ /\ Fault("restart")
        /\ browser' = "none"
        /\ UNCHANGED browserRestart
  /\ UNCHANGED <<client, clientRestart, table, remotes, jobs, contexts, av, worker, main, outside,
                 dismissed>>

(* process_resolve_requests, the critical section that takes a service *)
StartResolver(s) ==
  /\ Polling /\ ~Stopping
  /\ client # "none" /\ browser # "none"
  /\ s \in requested \ resolving
  /\ Cardinality(contexts) < MaxServers
  /\ LET c == [svc |-> s, gen |-> gen[s]]
     IN  /\ contexts' = contexts \cup {c}
         /\ av' = [pc |-> "starting", ctx |-> c, queued |-> FALSE]
  /\ requested' = requested \ {s}
  /\ resolving' = resolving \cup {s}
  /\ UNCHANGED <<gen, nextGen, serverName, pending, remotes, jobs, avahi, worker,
                 main, announced, outside, budget, dismissed>>

(* The resolution of av.ctx is over without a fetch: ask for another. *)
Unresolved ==
  IF Live(av.ctx)
    THEN /\ resolving' = resolving \ {av.ctx.svc}
         /\ requested' = requested \cup {av.ctx.svc}
    ELSE UNCHANGED <<resolving, requested>>

ResolverStarts ==
  /\ av.pc = "starting"
  /\ client = "running"
  /\ av' = AvIdle
  /\ UNCHANGED <<table, remotes, jobs, contexts, avahi, worker, main, announced,
                 outside, budget, dismissed>>

(* avahi_service_resolver_new fails *)
ResolverRefused ==
  /\ av.pc = "starting"
  /\ IF client = "running" THEN Fault("resolver") ELSE UNCHANGED budget
  /\ Unresolved
  /\ contexts' = contexts \ {av.ctx}
  /\ av' = AvIdle
  /\ UNCHANGED <<gen, nextGen, serverName, pending, remotes, jobs, avahi, worker,
                 main, announced, outside, dismissed>>

(* service_resolver_callback with a usable answer, first critical section *)
ResolverFound(c) ==
  /\ Polling /\ client = "running"
  /\ c \in contexts /\ world[c.svc] # None
  /\ QueueManifest(c, world[c.svc].name, world[c.svc].addr)
  /\ UNCHANGED <<gen, nextGen, requested, resolving, remotes, contexts, avahi,
                 main, announced, outside, budget, dismissed>>

(* ... and without one: the service is gone, or the answer did not arrive *)
ResolverFailed(c) ==
  /\ Polling /\ client = "running"
  /\ c \in contexts
  /\ IF world[c.svc] = None THEN UNCHANGED budget ELSE Fault("resolver")
  /\ av' = Resolved(c, FALSE)
  /\ UNCHANGED <<table, remotes, jobs, contexts, avahi, worker, main, announced,
                 outside, dismissed>>

(* service_resolver_callback, second critical section; the context is freed *)
ResolverDone ==
  /\ av.pc = "resolved"
  /\ IF av.queued
       THEN /\ resolving' = IF Live(av.ctx) THEN resolving \ {av.ctx.svc}
                                           ELSE resolving
            /\ UNCHANGED requested
       ELSE Unresolved
  /\ contexts' = contexts \ {av.ctx}
  /\ av' = AvIdle
  /\ UNCHANGED <<gen, nextGen, serverName, pending, remotes, jobs, avahi, worker,
                 main, announced, outside, budget, dismissed>>

AvahiThreadExits ==
  /\ Polling /\ Stopping
  /\ av' = [pc |-> "exited", ctx |-> None, queued |-> FALSE]
  /\ UNCHANGED <<table, remotes, jobs, contexts, avahi, worker, main, announced,
                 outside, budget, dismissed>>

-----------------------------------------------------------------------------
(* The manifest worker (manifest_worker_main) *)

WorkerWaits ==
  /\ worker.pc = "check"
  /\ ~Stopping /\ jobs = <<>>
  /\ worker' = [pc |-> "asleep", job |-> None, got |-> None]
  /\ UNCHANGED <<table, remotes, jobs, contexts, avahi, av, main, announced,
                 outside, budget, dismissed>>

WorkerTakes ==
  /\ worker.pc = "check"
  /\ ~Stopping /\ jobs # <<>>
  /\ worker' = [pc |-> "fetch", job |-> Head(jobs), got |-> None]
  /\ jobs' = Tail(jobs)
  /\ UNCHANGED <<table, remotes, contexts, avahi, av, main, announced, outside,
                 budget, dismissed>>

Fetched(got) == [pc |-> "store", job |-> worker.job, got |-> got]

(* fetch_manifest: the name of the server that answers, None if none does *)
WorkerFetches ==
  /\ worker.pc = "fetch"
  /\ \/ /\ worker' = Fetched(peer[worker.job.addr])
        /\ UNCHANGED budget
     \/ /\ peer[worker.job.addr] # None
        /\ Fault("fetch")
        /\ worker' = Fetched(None)
  /\ UNCHANGED <<table, remotes, jobs, contexts, avahi, av, main, announced,
                 outside, dismissed>>

WorkerStores ==
  /\ worker.pc = "store"
  /\ CacheManifest(worker.job, worker.got)
  /\ worker' = WorkerIdle
  /\ UNCHANGED <<gen, nextGen, serverName, resolving, jobs, contexts, avahi, av,
                 main, announced, outside, budget, dismissed>>

WorkerExits ==
  /\ worker.pc = "check" /\ Stopping
  /\ worker' = [pc |-> "exited", job |-> None, got |-> None]
  /\ UNCHANGED <<table, remotes, jobs, contexts, avahi, av, main, announced,
                 outside, budget, dismissed>>

-----------------------------------------------------------------------------
(* The control thread *)

Called(n) == {s \in Known : serverName[s] = n}

(* request_remote_refresh: after a cache miss, and with the empty name for  *)
(* CONFIGURE; the empty name is also that of services not resolved yet.     *)
RequestRefresh(n) ==
  /\ main = "running"
  /\ Spend("asks")
  /\ requested' = requested \cup (IF Called(n) # {} THEN Called(n) ELSE Known)
  /\ UNCHANGED <<gen, nextGen, serverName, resolving, pending, remotes, jobs,
                 contexts, avahi, av, worker, main, announced, outside,
                 dismissed>>

(* faulty variant: the services keep their generations *)
NotRenewed(S) == S \subseteq Services /\ UNCHANGED <<gen, nextGen>>

(* The services of a dismissed peer start again under new generations. *)
Renewed(S) ==
  /\ gen' \in [Services -> 0..(nextGen + Cardinality(S))]
  /\ \A s \in S : gen'[s] > nextGen
  /\ \A s \in Services \ S : gen'[s] = gen[s]
  /\ \A s, t \in S : gen'[s] = gen'[t] => s = t
  /\ nextGen' = nextGen + Cardinality(S)

(* invalidate_remote_and_refresh, after a failed mount of a share of n *)
Invalidate(n) ==
  /\ main = "running"
  /\ Spend("asks")
  /\ remotes' = [remotes EXCEPT ![n] = None]
  /\ Renewed(Called(n))
  /\ requested' = requested \cup Called(n)
  /\ resolving' = resolving \ Called(n)
  /\ pending' = pending \ Called(n)
  /\ dismissed' = dismissed \cup {n}
  /\ UNCHANGED <<serverName, jobs, contexts, avahi, av, worker, main, announced,
                 outside>>

(* faulty variant: the sleeping worker is not told *)
StopQuietly ==
  /\ main = "running" /\ "stop" \in Moves
  /\ main' = "joining"
  /\ UNCHANGED <<table, remotes, jobs, contexts, avahi, av, worker, announced,
                 outside, budget, dismissed>>

(* stop_remote_discovery: tell the threads, *)
Stop ==
  /\ main = "running" /\ "stop" \in Moves
  /\ main' = "joining"
  /\ worker' = Woken
  /\ UNCHANGED <<table, remotes, jobs, contexts, avahi, av, announced, outside,
                 budget, dismissed>>

(* join both, and free what Avahi holds. *)
Joined ==
  /\ main = "joining"
  /\ av.pc = "exited" /\ worker.pc = "exited"
  /\ main' = "stopped"
  /\ contexts' = {}
  /\ announced' = {}
  /\ client' = "none" /\ browser' = "none"
  /\ UNCHANGED <<clientRestart, browserRestart, table, remotes, jobs, av, worker, outside, budget, dismissed>>

-----------------------------------------------------------------------------
(* The network *)

Move(kind) == kind \in Moves /\ Spend("moves")

(* A peer appears, or goes on under another address or name. *)
Announce(x) ==
  /\ Move("announce")
  /\ world' = [world EXCEPT ![x.svc] = [name |-> x.name, addr |-> x.addr]]
  /\ world' # world
  /\ dismissed' = dismissed \ ({x.name} \cup AnnouncedBy(x.svc))
  /\ UNCHANGED <<table, remotes, jobs, contexts, avahi, av, worker, main,
                 announced, peer>>

Withdraw(s) ==
  /\ Move("withdraw")
  /\ world[s] # None
  /\ world' = [world EXCEPT ![s] = None]
  /\ dismissed' = dismissed \ AnnouncedBy(s)
  /\ UNCHANGED <<table, remotes, jobs, contexts, avahi, av, worker, main,
                 announced, peer>>

(* Another server answers at an address, or nobody does any more. *)
AnswersChange(a) ==
  /\ Move("answer")
  /\ \E n \in Opt(Names) : n # peer[a] /\ peer' = [peer EXCEPT ![a] = n]
  /\ UNCHANGED <<table, remotes, jobs, contexts, avahi, av, worker, main,
                 announced, world, dismissed>>

-----------------------------------------------------------------------------
Init ==
  /\ gen = [s \in Services |-> 0]
  /\ nextGen = 0
  /\ serverName = [s \in Services |-> NoName]
  /\ requested = {} /\ resolving = {} /\ pending = {}
  /\ remotes = [n \in Names |-> None]
  /\ jobs = <<>>
  /\ contexts = {}
  /\ client = "connecting" /\ browser = "none"
  /\ clientRestart = FALSE /\ browserRestart = FALSE
  /\ av = AvIdle
  /\ worker = WorkerIdle
  /\ main = "running"
  /\ announced = {}
  /\ world \in Worlds
  /\ peer \in Answering
  /\ budget \in Budgets
  /\ dismissed = {}

AvahiThread ==
  \/ \E s \in Services : BrowserNew(s) \/ BrowserRemove(s) \/ StartResolver(s)
  \/ BrowserFails \/ ClientFails \/ PollFails
  \/ RestartClient \/ ClientRuns \/ RestartBrowser
  \/ ResolverStarts \/ ResolverRefused
  \/ \E c \in contexts : ResolverFound(c) \/ ResolverFailed(c)
  \/ ResolverDone
  \/ AvahiThreadExits

Worker == WorkerWaits \/ WorkerTakes \/ WorkerFetches \/ WorkerStores \/ WorkerExits

Control ==
  \/ \E n \in Names \cup {NoName} : RequestRefresh(n)
  \/ \E n \in Names : Invalidate(n)
  \/ Stop \/ Joined

Network ==
  \/ \E x \in Changes : Announce(x)
  \/ \E s \in Services : Withdraw(s)
  \/ \E a \in Addrs : AnswersChange(a)

Next == AvahiThread \/ Worker \/ Control \/ Network

Spec == Init /\ [][Next]_vars

(***************************************************************************)
(* Fairness.  The Avahi thread's loop serves every due resolve request and *)
(* dispatches every pending event on each turn, so what asks for a turn    *)
(* again and again gets one: strong fairness where retries of another      *)
(* service compete, weak fairness elsewhere.  Nothing makes a fault, a     *)
(* refresh, a dismissal, a stop or a move of the world happen.             *)
(***************************************************************************)
BrowserEvent == \E s \in Services : BrowserNew(s) \/ BrowserRemove(s)

ResolverReports(s) ==
  \E c \in contexts : c.svc = s /\ (ResolverFound(c) \/ ResolverFailed(c))

Fairness ==
  /\ SF_vars(BrowserEvent)
  /\ \A s \in Services : SF_vars(StartResolver(s)) /\ SF_vars(ResolverReports(s))
  /\ SF_vars(RestartClient)
  /\ WF_vars(ClientRuns) /\ WF_vars(RestartBrowser)
  /\ WF_vars(ResolverStarts) /\ WF_vars(ResolverRefused) /\ WF_vars(ResolverDone)
  /\ WF_vars(Worker)
  /\ WF_vars(AvahiThreadExits) /\ WF_vars(Joined)

FairSpec == Spec /\ Fairness

-----------------------------------------------------------------------------
(* Properties *)

InFlight == {jobs[i] : i \in DOMAIN jobs} \cup ({worker.job} \ {None})

(* A fetch that can still change something is marked, under its name, *)
FetchesMarked ==
  \A j \in InFlight : Live(j) => j.svc \in pending /\ serverName[j.svc] = j.name

(* and is the only one of its service. *)
OneFetchEach ==
  /\ \A i, k \in DOMAIN jobs :
       Live(jobs[i]) /\ Live(jobs[k]) /\ jobs[i].svc = jobs[k].svc => i = k
  /\ \A i \in DOMAIN jobs :
       worker.job # None /\ Live(worker.job) /\ Live(jobs[i]) => jobs[i].svc # worker.job.svc

(* Types, and the locals each thread holds at each point. *)
TypeOK ==
  /\ gen \in [Services -> Nat] /\ nextGen \in Nat
  /\ serverName \in [Services -> Names \cup {NoName}]
  /\ {requested, resolving, pending} \subseteq SUBSET Services
  /\ remotes \in [Names -> Opt(Remote)]
  /\ jobs \in Seq(Job)
  /\ contexts \subseteq Context
  /\ client \in {"none", "connecting", "running", "failed"}
  /\ browser \in {"none", "up", "failed"}
  /\ {clientRestart, browserRestart} \subseteq BOOLEAN
  /\ av \in [pc : {"poll", "starting", "resolved", "exited"},
             ctx : Opt(Context), queued : BOOLEAN]
  /\ (av.ctx # None) = (av.pc \in {"starting", "resolved"})
  /\ worker \in [pc : {"check", "asleep", "fetch", "store", "exited"},
                 job : Opt(Job), got : Opt(Names)]
  /\ (worker.job # None) = (worker.pc \in {"fetch", "store"})
  /\ main \in {"running", "joining", "stopped"}
  /\ announced \subseteq Services
  /\ world \in WorldType
  /\ peer \in [Addrs -> Opt(Names)]
  /\ budget \in [moves : Nat, faults : Nat, asks : Nat]
  /\ dismissed \subseteq Names

(* No table is ever written past its end: services, resolver contexts,     *)
(* fetch queue and cache each hold SS_MAX_SERVERS entries.                 *)
TablesBounded ==
  /\ Cardinality(Known) <= MaxServers
  /\ Cardinality(contexts) <= MaxServers
  /\ Len(jobs) <= MaxServers
  /\ Cardinality(Cached) <= MaxServers

(* No work is lost between the threads: a service marked as resolving has a *)
(* resolver of its present generation that will report, one marked as       *)
(* pending has exactly one fetch of its present generation under way, for   *)
(* the name the service goes by, and no other service has any.              *)
MarkedWorkExists ==
  /\ main # "stopped" =>
       \A s \in resolving : \E c \in contexts : c.svc = s /\ c.gen = gen[s]
  /\ \A s \in pending : \E j \in InFlight : j.svc = s /\ Live(j)
  /\ FetchesMarked
  /\ OneFetchEach

(* Every cached peer is owed to a service that is still announced to the    *)
(* daemon: removal, a failed browser and a dismissal leave no ghosts, even  *)
(* when a fetch for the service is under way.                               *)
CachedPeerHasService ==
  \A n \in Cached : \E s \in Known : gen[s] = remotes[n].source

(* Services about to be resolved, being resolved or being fetched. *)
AtWork == requested \cup resolving \cup pending

(* No service is forgotten: it is at work, its server is in the cache, or   *)
(* another service of its server is at work; when the service that brought  *)
(* the server leaves, one of the others takes over for all of them.         *)
NobodyForgotten ==
  \A s \in Known :
    \/ s \in AtWork
    \/ serverName[s] \in Cached
    \/ serverName[s] # NoName /\ \E t \in AtWork : serverName[t] = serverName[s]

(* A peer dismissed after a failed mount comes back only under an address   *)
(* it is announced at, whatever resolvers and fetches were under way when   *)
(* it was dismissed.                                                        *)
DismissedAddressStaysGone ==
  \A n \in dismissed \cap Cached :
    \E s \in Advertised(n) : world[s].addr = remotes[n].addr

(* Generations are handed out once, so that nothing of an old one is taken  *)
(* for something of a present one.                                          *)
GenerationsOK ==
  /\ \A s \in Services : gen[s] <= nextGen
  /\ \A s, t \in Known : gen[s] = gen[t] => s = t
  /\ \A j \in InFlight : j.gen <= nextGen

(* A fetch that may still bring back a dismissed peer was queued with the   *)
(* address the peer is announced at.                                        *)
DismissedFetchCurrent ==
  \A j \in InFlight : Live(j) /\ j.name \in dismissed =>
    world[j.svc] = [name |-> j.name, addr |-> j.addr]

(* The inductive invariant that keeps dismissed addresses out of the cache. *)
IInv ==
  /\ TypeOK /\ GenerationsOK /\ FetchesMarked /\ OneFetchEach
  /\ DismissedFetchCurrent /\ DismissedAddressStaysGone

(* A peer that stays announced at an address where it answers gets into the *)
(* cache and stays there, once the world has settled.                       *)
Reachable(n) == \E s \in Advertised(n) : peer[world[s].addr] = n

PeersAppear ==
  \A n \in Names :
    <>[](main = "running" /\ Reachable(n)) => <>[](n \in Cached)

(* A peer that is no longer announced leaves the cache. *)
PeersLeave ==
  \A n \in Names :
    <>[](main = "running" /\ Advertised(n) = {}) => <>[](n \notin Cached)

(* What the cache offers to clients follows what the network announces.     *)
CacheFollows == PeersAppear /\ PeersLeave

(* Stopping the daemon ends both threads, whatever they are doing. *)
StopCompletes == (main = "joining") ~> (main = "stopped")

=============================================================================
