--------------------------- MODULE TenantClients ---------------------------
(***************************************************************************)
(* TenantPrismaService: the in-memory pool of one PrismaClient per tenant, *)
(* filled through the Redis copy of the tenant's database url, bounded by  *)
(* an LRU eviction and swept by a timer.                                   *)
(*                                                                         *)
(* A call is one repository operation: getPrismaClientByCode followed by   *)
(* the query on the client it returned.  Calls interleave at the awaits;   *)
(* eviction and insertion run without one, and so does the sweep.          *)
(***************************************************************************)
EXTENDS Naturals, FiniteSets

CONSTANTS
  Codes,        \* client codes
  Calls,        \* repository operations of a behaviour (bound)
  MaxInFlight,  \* how many of them run at once (bound)
  Clients,      \* pool of PrismaClient instances (bound)
  None,
  MaxSize,      \* tenantClientCacheMaxSize
  IdleTimeout,  \* tenantClientCacheIdleTimeout
  MaxTime,      \* bound on the clock
  Faulty,       \* do Redis, database, import and connect calls ever reject?
  Prompt        \* does a call end within one tick of the clock?

ASSUME NoneAssumption == None \notin Clients /\ None \notin Nat /\ None \notin Codes
\* parseInt of an environment variable: a pool of size 0 would hold one client.
ASSUME MaxSizeAssumption == MaxSize \in Nat \ {0}
ASSUME ClockAssumption == IdleTimeout \in Nat /\ MaxTime \in Nat
ASSUME BoundsAssumption == MaxInFlight \in Nat /\ Faulty \in BOOLEAN /\ Prompt \in BOOLEAN

VARIABLES
  now,
  provisioned,  \* codes whose root Client row has a dbUrl
  urlCache,     \* Redis keys tenant:<code>:dbUrl
  clientMap,    \* code -> PrismaClient
  lastUsedMap,  \* code -> time
  db,           \* the database each PrismaClient was built for
  connected,    \* PrismaClients with open connections
  usedAt,       \* when a code's client was last handed to a caller (history)
  call          \* the calls

pool == <<clientMap, lastUsedMap>>
vars == <<now, provisioned, urlCache, clientMap, lastUsedMap, db, connected, usedAt, call>>

Pcs == {"new", "url", "find", "seturl", "import", "connect", "query", "done"}
Call == [pc : Pcs, code : Codes \cup {None}, start : Nat, client : Clients \cup {None}]
Blank == [pc |-> "new", code |-> None, start |-> 0, client |-> None]

Init ==
  /\ now = 0
  /\ provisioned \in SUBSET Codes
  /\ urlCache = {}
  /\ clientMap = [c \in Codes |-> None]
  /\ lastUsedMap = [c \in Codes |-> None]
  /\ db = [h \in Clients |-> None]
  /\ connected = {}
  /\ usedAt = [c \in Codes |-> 0]
  /\ call = [p \in Calls |-> Blank]

At(p, pc) == call[p].pc = pc
Goto(p, pc) == call' = [call EXCEPT ![p].pc = pc]
End(p) == call' = [call EXCEPT ![p] = [Blank EXCEPT !.pc = "done"]]
InFlight == {p \in Calls : call[p].pc \notin {"new", "done"}}

\* The keys of clientMap and of lastUsedMap.
Pooled == {c \in Codes : clientMap[c] # None}
Tracked == {c \in Codes : lastUsedMap[c] # None}

-----------------------------------------------------------------------------
(* getPrismaClientByCode.                                                  *)

\* Mutant: a hit hands out whatever client is pooled.
BeginAnyClient(p) ==
  \E c \in Codes :
    /\ At(p, "new") /\ Cardinality(InFlight) < MaxInFlight
    /\ \E h \in {clientMap[d] : d \in Pooled} \cup {None} :
         /\ h = None <=> Pooled = {}
         /\ call' = [call EXCEPT ![p] = [pc |-> IF h = None THEN "url" ELSE "query",
                                         code |-> c, start |-> now, client |-> h]]
    /\ UNCHANGED <<now, provisioned, urlCache, pool, db, connected, usedAt>>

\* A hit is served at once; a miss reads the clock now and uses that time at
\* the very end.
Begin(p) ==
  \E c \in Codes :
    /\ At(p, "new") /\ Cardinality(InFlight) < MaxInFlight
    /\ \/ /\ c \in Pooled
          /\ lastUsedMap' = [lastUsedMap EXCEPT ![c] = now]
          /\ usedAt' = [usedAt EXCEPT ![c] = now]
          /\ call' = [call EXCEPT ![p] = [pc |-> "query", code |-> c, start |-> now,
                                          client |-> clientMap[c]]]
       \/ /\ c \notin Pooled
          /\ call' = [call EXCEPT ![p] = [pc |-> "url", code |-> c, start |-> now,
                                          client |-> None]]
          /\ UNCHANGED <<lastUsedMap, usedAt>>
    /\ UNCHANGED <<now, provisioned, urlCache, clientMap, db, connected>>

\* getTenantClientDbUrlCache
GetUrl(p) ==
  /\ At(p, "url")
  /\ Goto(p, IF call[p].code \in urlCache THEN "import" ELSE "find")
  /\ UNCHANGED <<now, provisioned, urlCache, pool, db, connected, usedAt>>

\* Mutant: an unknown client code is asked for again.
FindClientRetry(p) ==
  /\ At(p, "find")
  /\ IF call[p].code \in provisioned THEN Goto(p, "seturl") ELSE Goto(p, "url")
  /\ UNCHANGED <<now, provisioned, urlCache, pool, db, connected, usedAt>>

\* client.findUnique in the root database
FindClient(p) ==
  /\ At(p, "find")
  /\ IF call[p].code \in provisioned THEN Goto(p, "seturl") ELSE End(p)
  /\ UNCHANGED <<now, provisioned, urlCache, pool, db, connected, usedAt>>

\* Mutant: the url is stored under an undefined client code.
SetUrlUndefined(p) ==
  /\ At(p, "seturl") /\ Goto(p, "import")
  /\ urlCache' = urlCache \cup {None}
  /\ UNCHANGED <<now, provisioned, pool, db, connected, usedAt>>

\* setTenantClientDbUrlCache
SetUrl(p) ==
  /\ At(p, "seturl") /\ Goto(p, "import")
  /\ urlCache' = urlCache \cup {call[p].code}
  /\ UNCHANGED <<now, provisioned, pool, db, connected, usedAt>>

\* Mutant: a client built before is taken again, whatever its database.
ImportReuses(p) ==
  /\ At(p, "import")
  /\ \E h \in Clients :
       /\ db' = [db EXCEPT ![h] = IF @ = None THEN call[p].code ELSE @]
       /\ call' = [call EXCEPT ![p].pc = "connect", ![p].client = h]
  /\ UNCHANGED <<now, provisioned, urlCache, pool, connected, usedAt>>

\* The dynamic import resolves and `new PrismaClient` is built on the url.
ImportClient(p) ==
  /\ At(p, "import")
  /\ \E h \in Clients :
       /\ db[h] = None
       /\ db' = [db EXCEPT ![h] = call[p].code]
       /\ call' = [call EXCEPT ![p].pc = "connect", ![p].client = h]
  /\ UNCHANGED <<now, provisioned, urlCache, pool, connected, usedAt>>

\* evictLeastRecentlyUsedClient: a key with the smallest recorded time.
Oldest == {c \in Tracked : \A d \in Tracked : lastUsedMap[c] <= lastUsedMap[d]}
Victims == IF Oldest = {} THEN {None} ELSE Oldest

\* Mutant: a full pool evicts only above its size.
EvictsLate(c) == IF Cardinality(Pooled) > MaxSize THEN c \in Victims ELSE c = None

\* Mutant: the most recently used client goes.
EvictsNewest(c) ==
  IF Cardinality(Pooled) >= MaxSize
  THEN c \in {x \in Tracked : \A d \in Tracked : lastUsedMap[x] >= lastUsedMap[d]}
  ELSE c = None

\* The client that gives way when a new one is connected, None if none does.
Evicts(c) == IF Cardinality(Pooled) >= MaxSize THEN c \in Victims ELSE c = None

\* client?.$disconnect() on the clients of the codes C, not awaited: if it
\* rejects, nobody handles the rejection and the process ends.
Disconnect(S, C) == S \ {clientMap[c] : c \in C}

\* $connect resolves: evict, then insert, in one go.
ConnectClient(p) ==
  /\ At(p, "connect") /\ Goto(p, "query")
  /\ \E victim \in Codes \cup {None} :
       LET gone == {victim} \ {None}
           code == call[p].code
       IN /\ Evicts(victim)
          /\ connected' = Disconnect(connected, gone) \cup {call[p].client}
          /\ clientMap' = [c \in Codes |-> IF c = code THEN call[p].client
                                           ELSE IF c \in gone THEN None ELSE clientMap[c]]
          /\ lastUsedMap' = [c \in Codes |-> IF c = code THEN call[p].start
                                             ELSE IF c \in gone THEN None ELSE lastUsedMap[c]]
          /\ usedAt' = [usedAt EXCEPT ![code] = now]
  /\ UNCHANGED <<now, provisioned, urlCache, db>>

\* The repository's query.  A PrismaClient that was disconnected meanwhile
\* connects again by itself.
Query(p) ==
  /\ At(p, "query") /\ End(p)
  /\ connected' = connected \cup {call[p].client}
  /\ UNCHANGED <<now, provisioned, urlCache, pool, db, usedAt>>

\* An awaited call rejects and the operation throws.
Fail(p) ==
  /\ Faulty /\ p \in InFlight /\ End(p)
  /\ UNCHANGED <<now, provisioned, urlCache, pool, db, connected, usedAt>>

-----------------------------------------------------------------------------
(* The sweep, and the world around the pool.                               *)

Stale(c) == c \in Tracked /\ now - lastUsedMap[c] > IdleTimeout

\* Mutant: the sweep drops the client but forgets its time.
CleanupKeepsTime ==
  LET stale == {c \in Codes : Stale(c)}
  IN /\ stale # {}
     /\ connected' = Disconnect(connected, stale)
     /\ clientMap' = [c \in Codes |-> IF c \in stale THEN None ELSE clientMap[c]]
     /\ UNCHANGED <<now, provisioned, urlCache, lastUsedMap, db, usedAt, call>>

\* Mutant: the sweep disconnects a client and leaves it in clientMap.
CleanupKeepsClient ==
  LET stale == {c \in Codes : Stale(c)}
  IN /\ stale # {}
     /\ connected' = Disconnect(connected, stale)
     /\ lastUsedMap' = [c \in Codes |-> IF c \in stale THEN None ELSE lastUsedMap[c]]
     /\ UNCHANGED <<now, provisioned, urlCache, clientMap, db, usedAt, call>>

\* Mutant: the sweep deletes the entry without disconnecting the client.
CleanupLeaks ==
  LET stale == {c \in Codes : Stale(c)}
  IN /\ stale # {}
     /\ clientMap' = [c \in Codes |-> IF c \in stale THEN None ELSE clientMap[c]]
     /\ lastUsedMap' = [c \in Codes |-> IF c \in stale THEN None ELSE lastUsedMap[c]]
     /\ UNCHANGED <<now, provisioned, urlCache, connected, db, usedAt, call>>

\* cleanupIdleClients, run by setInterval.
CleanupIdle ==
  LET stale == {c \in Codes : Stale(c)}
  IN /\ stale # {}
     /\ connected' = Disconnect(connected, stale)
     /\ clientMap' = [c \in Codes |-> IF c \in stale THEN None ELSE clientMap[c]]
     /\ lastUsedMap' = [c \in Codes |-> IF c \in stale THEN None ELSE lastUsedMap[c]]
     /\ UNCHANGED <<now, provisioned, urlCache, db, usedAt, call>>

\* CreateClientAdminHandler writes the tenant's dbUrl (external to the pool).
Provision(c) ==
  /\ c \notin provisioned
  /\ provisioned' = provisioned \cup {c}
  /\ UNCHANGED <<now, urlCache, pool, db, connected, usedAt, call>>

\* The Redis key's time to live ends.
ExpireUrl(c) ==
  /\ c \in urlCache
  /\ urlCache' = urlCache \ {c}
  /\ UNCHANGED <<now, provisioned, pool, db, connected, usedAt, call>>

Tick ==
  /\ now < MaxTime
  /\ Prompt => InFlight = {}
  /\ now' = now + 1
  /\ UNCHANGED <<provisioned, urlCache, pool, db, connected, usedAt, call>>

Settle(p) ==
  \/ GetUrl(p) \/ FindClient(p) \/ SetUrl(p) \/ ImportClient(p) \/ ConnectClient(p)
  \/ Query(p) \/ Fail(p)

Next ==
  \/ \E p \in Calls : Begin(p) \/ Settle(p)
  \/ \E c \in Codes : Provision(c) \/ ExpireUrl(c)
  \/ CleanupIdle \/ Tick

Spec == Init /\ [][Next]_vars

\* Awaited calls settle and the interval timer keeps firing.
FairSpec == Spec /\ (\A p \in Calls : WF_vars(Settle(p))) /\ WF_vars(CleanupIdle)

-----------------------------------------------------------------------------
(* Properties.                                                             *)

\* The type invariant of TenantPrismaService's two maps and of its callers.
TypeOK ==
  /\ now \in Nat
  /\ provisioned \subseteq Codes
  /\ urlCache \subseteq Codes
  /\ clientMap \in [Codes -> Clients \cup {None}]
  /\ lastUsedMap \in [Codes -> Nat \cup {None}]
  /\ db \in [Clients -> Codes \cup {None}]
  /\ connected \subseteq Clients
  /\ usedAt \in [Codes -> Nat]
  /\ call \in [Calls -> Call]

\* However many misses connect at the same time, getPrismaClientByCode keeps
\* at most tenantClientCacheMaxSize clients: its size check and its insertion
\* straddle no await.
SizeBound == Cardinality(Pooled) <= MaxSize

\* Every client in clientMap is connected, is built for the code it is filed
\* under and has a last-used time, so eviction and sweep see all of them.
PoolSound ==
  /\ Pooled = Tracked
  /\ \A c \in Pooled : clientMap[c] \in connected /\ db[clientMap[c]] = c

\* A repository's query goes to the database of the client code it was asked
\* for, hit or miss, even when the pool changed under it.
TenantRouting ==
  \A p \in Calls : At(p, "query") => db[call[p].client] = call[p].code

\* No PrismaClient keeps connections open unless it is pooled or a caller
\* still works with it.  It needs calls to come one after another.
NoOrphan ==
  \A h \in connected :
    (\E c \in Codes : clientMap[c] = h) \/ (\E p \in InFlight : call[p].client = h)

\* Open connections that nothing would ever close.
Orphans ==
  {h \in connected : /\ \A c \in Codes : clientMap[c] # h
                     /\ \A p \in InFlight : call[p].client # h}

\* Under any interleaving a client is orphaned in two ways only: a miss for the
\* same code that overlapped overwrites its entry, or a caller ends that still
\* worked with it after an eviction or a sweep had taken it out of the pool.
\* Neither cleanupIdleClients nor an eviction ever leaks one by itself.
OrphanedByOverlap ==
  [][\A h \in Orphans' \ Orphans :
       \/ \E c \in Codes, p \in InFlight :
            clientMap[c] = h /\ call[p].code = c /\ clientMap'[c] = call[p].client
       \/ \E p \in InFlight :
            At(p, "query") /\ call[p].client = h /\ p \notin InFlight']_vars

\* evictLeastRecentlyUsedClient never drops a client while another one was
\* handed out strictly earlier (a tie of the recorded times decides nothing).
EvictsLRU ==
  [][\A c \in Pooled, d \in Pooled :
       (c \notin Pooled' /\ ~Stale(c) /\ lastUsedMap[c] # lastUsedMap[d])
         => usedAt[c] <= usedAt[d]]_vars

\* The tenant a caller asked for, and the one whose database it was given.
Wants == [p \in Calls |-> IF p \in InFlight THEN call[p].code ELSE None]
Got == [p \in Calls |-> IF At(p, "query") THEN db[call[p].client] ELSE None]

Pool == INSTANCE ClientPool WITH held <- Pooled, wants <- Wants, got <- Got

\* TenantPrismaService, with its maps, its urls in Redis, its overlapping
\* misses and its sweep, implements the bounded pool of ClientPool: a client
\* gives way only to a caller that found the pool full, and every caller gets
\* its own tenant's database or an error.
ImplementsPool == Pool!Spec

\* Every getPrismaClientByCode and its query end, with a result or an error.
EveryCallEnds == \A p \in Calls : p \in InFlight ~> At(p, "done")

\* cleanupIdleClients catches every idle client: none stays stale for good.
IdleSwept == \A c \in Codes : Stale(c) ~> ~Stale(c)
=============================================================================
