------------------------- MODULE TenantClientsProofs -------------------------
(***************************************************************************)
(* Proofs about TenantClients, for any number of client codes, calls and   *)
(* PrismaClients, any pool size of at least one and any timeout.           *)
(***************************************************************************)
EXTENDS TenantClients, FiniteSetTheorems, WellFoundedInduction, TLAPS

-----------------------------------------------------------------------------
(* The strengthening that makes the properties of the pool inductive.      *)

\* A call in flight knows its code, and from the constructor on it holds a
\* client built for that code.
CallShape ==
  \A p \in InFlight :
    /\ call[p].code \in Codes
    /\ call[p].pc \in {"connect", "query"} =>
         call[p].client \in Clients /\ db[call[p].client] = call[p].code

\* A client that is still connecting belongs to its call alone.
Unshared ==
  /\ \A p \in Calls : call[p].pc \notin {"connect", "query"} => call[p].client = None
  /\ \A p \in Calls : At(p, "connect") =>
       /\ call[p].client \notin connected
       /\ \A q \in Calls \ {p} : call[q].client # call[p].client
  /\ \A h \in connected : db[h] # None

IInv == TypeOK /\ CallShape /\ PoolSound /\ Unshared /\ IsFiniteSet(Pooled) /\ SizeBound

\* What holds besides when calls come one after another and each ends within a
\* tick: the call in flight looks for a client that is not pooled, or works with
\* the one that is, used just now; and no recorded time lags behind the use.
Alone ==
  /\ \A p, q \in InFlight : p = q
  /\ \A p \in InFlight :
       /\ call[p].start = now
       /\ At(p, "query") => /\ clientMap[call[p].code] = call[p].client
                           /\ lastUsedMap[call[p].code] = now
       /\ ~At(p, "query") => clientMap[call[p].code] = None
  /\ \A c \in Pooled : usedAt[c] = lastUsedMap[c]

-----------------------------------------------------------------------------
\* A non-empty set of naturals has a least element.
LEMMA LeastNatural ==
  ASSUME NEW T \in SUBSET Nat, T # {}
  PROVE  \E x \in T : \A y \in T : x <= y
<1> DEFINE R == OpToRel(<, Nat)
<1>1. IsWellFoundedOn(R, Nat)
  BY NatLessThanWellFounded, Zenon
<1>2. \A a, b \in Nat : a < b => <<a, b>> \in R
  BY DEF OpToRel
<1> HIDE DEF R
<1>3. PICK x \in T : \A y \in T : <<y, x>> \notin R
  BY <1>1, WFMin, Zenon
<1>4. \A y \in T : ~(y < x)
  BY <1>2, <1>3
<1> QED BY <1>3, <1>4

\* evictLeastRecentlyUsedClient finds a victim whenever lastUsedMap has a key.
LEMMA OldestExists ==
  ASSUME TypeOK, Tracked # {}
  PROVE  Oldest # {} /\ Oldest \subseteq Tracked
<1> DEFINE T == {lastUsedMap[c] : c \in Tracked}
<1>1. T \in SUBSET Nat /\ T # {}
  BY DEF TypeOK, Tracked
<1>2. PICK x \in T : \A y \in T : x <= y
  BY <1>1, LeastNatural
<1>3. PICK c \in Tracked : lastUsedMap[c] = x
  BY <1>2
<1>4. c \in Oldest
  BY <1>2, <1>3 DEF Oldest
<1> QED BY <1>4 DEF Oldest

\* Type correctness: Init establishes it ...
LEMMA TypeInit == Init => TypeOK
  BY NoneAssumption DEF Init, TypeOK, Call, Blank, Pcs

\* ... and every step keeps it, given the shape of the calls in flight.
LEMMA TypeStep == TypeOK /\ CallShape /\ [Next]_vars => TypeOK'
<1> SUFFICES ASSUME TypeOK, CallShape, [Next]_vars PROVE TypeOK'
  OBVIOUS
<1> USE NoneAssumption, ClockAssumption DEF TypeOK, Call, Blank, Pcs, At, Goto, End, pool
<1>1. ASSUME NEW p \in Calls, Begin(p) PROVE TypeOK'
  BY <1>1 DEF Begin, Pooled
<1>2. ASSUME NEW p \in Calls, GetUrl(p) PROVE TypeOK'
  BY <1>2 DEF GetUrl
<1>3. ASSUME NEW p \in Calls, FindClient(p) PROVE TypeOK'
  BY <1>3 DEF FindClient
<1>4. ASSUME NEW p \in Calls, SetUrl(p) PROVE TypeOK'
  <2>1. call[p].code \in Codes
    BY <1>4 DEF SetUrl, CallShape, InFlight
  <2> QED BY <1>4, <2>1 DEF SetUrl
<1>5. ASSUME NEW p \in Calls, ImportClient(p) PROVE TypeOK'
  <2>1. PICK h \in Clients :
          /\ db' = [db EXCEPT ![h] = call[p].code]
          /\ call' = [call EXCEPT ![p].pc = "connect", ![p].client = h]
    BY <1>5 DEF ImportClient
  <2>2. call' \in [Calls -> Call]
    <3>1. [call[p] EXCEPT !.pc = "connect", !.client = h] \in Call
      OBVIOUS
    <3>2. call' = [call EXCEPT ![p] = [call[p] EXCEPT !.pc = "connect", !.client = h]]
      BY <2>1
    <3> HIDE DEF Call
    <3> QED BY <3>1, <3>2
  <2>3. db' \in [Clients -> Codes \cup {None}]
    BY <2>1
  <2> QED BY <1>5, <2>2, <2>3 DEF ImportClient
<1>6. ASSUME NEW p \in Calls, ConnectClient(p) PROVE TypeOK'
  <2>1. call[p].code \in Codes /\ call[p].client \in Clients
    BY <1>6 DEF ConnectClient, CallShape, InFlight
  <2> QED BY <1>6, <2>1 DEF ConnectClient, Disconnect
<1>7. ASSUME NEW p \in Calls, Query(p) PROVE TypeOK'
  BY <1>7 DEF Query, CallShape, InFlight
<1>8. ASSUME NEW p \in Calls, Fail(p) PROVE TypeOK'
  BY <1>8 DEF Fail
<1>9. ASSUME CleanupIdle PROVE TypeOK'
  BY <1>9 DEF CleanupIdle, Disconnect
<1>10. ASSUME NEW c \in Codes, Provision(c) PROVE TypeOK'
  BY <1>10 DEF Provision
<1>11. ASSUME NEW c \in Codes, ExpireUrl(c) PROVE TypeOK'
  BY <1>11 DEF ExpireUrl
<1>12. ASSUME Tick PROVE TypeOK'
  BY <1>12 DEF Tick
<1>13. CASE UNCHANGED vars
  BY <1>13 DEF vars
<1> QED
  BY <1>1, <1>2, <1>3, <1>4, <1>5, <1>6, <1>7, <1>8, <1>9, <1>10, <1>11, <1>12, <1>13
  DEF Next, Settle

\* The calls in flight keep their shape: a client, once built for a code, is
\* never rebuilt for another.
LEMMA CallShapeStep == TypeOK /\ CallShape /\ PoolSound /\ [Next]_vars => CallShape'
<1> SUFFICES ASSUME TypeOK, CallShape, PoolSound, [Next]_vars PROVE CallShape'
  OBVIOUS
<1> USE NoneAssumption DEF TypeOK, Call, Blank, Pcs, At, Goto, End, pool, CallShape, InFlight
<1>1. ASSUME NEW p \in Calls, Begin(p) PROVE CallShape'
  BY <1>1 DEF Begin, Pooled, PoolSound
<1>2. ASSUME NEW p \in Calls, GetUrl(p) PROVE CallShape'
  BY <1>2 DEF GetUrl
<1>3. ASSUME NEW p \in Calls, FindClient(p) PROVE CallShape'
  BY <1>3 DEF FindClient
<1>4. ASSUME NEW p \in Calls, SetUrl(p) PROVE CallShape'
  BY <1>4 DEF SetUrl
<1>5. ASSUME NEW p \in Calls, ImportClient(p) PROVE CallShape'
  BY <1>5 DEF ImportClient
<1>6. ASSUME NEW p \in Calls, ConnectClient(p) PROVE CallShape'
  BY <1>6 DEF ConnectClient
<1>7. ASSUME NEW p \in Calls, Query(p) PROVE CallShape'
  BY <1>7 DEF Query
<1>8. ASSUME NEW p \in Calls, Fail(p) PROVE CallShape'
  BY <1>8 DEF Fail
<1>9. CASE CleanupIdle
  BY <1>9 DEF CleanupIdle
<1>10. ASSUME NEW c \in Codes, Provision(c) \/ ExpireUrl(c) PROVE CallShape'
  BY <1>10 DEF Provision, ExpireUrl
<1>11. CASE Tick
  BY <1>11 DEF Tick
<1>12. CASE UNCHANGED vars
  BY <1>12 DEF vars
<1> QED
  BY <1>1, <1>2, <1>3, <1>4, <1>5, <1>6, <1>7, <1>8, <1>9, <1>10, <1>11, <1>12
  DEF Next, Settle

\* Both maps keep the same keys, and no eviction or sweep disconnects a
\* client that stays in the pool: clients of different codes differ.
LEMMA PoolSoundStep == TypeOK /\ CallShape /\ PoolSound /\ [Next]_vars => PoolSound'
<1> SUFFICES ASSUME TypeOK, CallShape, PoolSound, [Next]_vars PROVE PoolSound'
  OBVIOUS
<1> USE NoneAssumption DEF TypeOK, PoolSound, Pooled, Tracked, pool
<1>1. ASSUME NEW p \in Calls, Begin(p) PROVE PoolSound'
  BY <1>1 DEF Begin
<1>2. ASSUME NEW p \in Calls, ImportClient(p) PROVE PoolSound'
  BY <1>2 DEF ImportClient
<1>3. ASSUME NEW p \in Calls, ConnectClient(p) PROVE PoolSound'
  <2>1. /\ call[p].code \in Codes /\ call[p].client \in Clients
        /\ db[call[p].client] = call[p].code /\ call[p].start \in Nat
    BY <1>3 DEF ConnectClient, CallShape, InFlight, At, Call
  <2>2. PICK victim \in Codes \cup {None} :
          /\ connected' = (connected \ {clientMap[c] : c \in {victim} \ {None}})
                            \cup {call[p].client}
          /\ clientMap' = [c \in Codes |->
               IF c = call[p].code THEN call[p].client
               ELSE IF c \in {victim} \ {None} THEN None ELSE clientMap[c]]
          /\ lastUsedMap' = [c \in Codes |->
               IF c = call[p].code THEN call[p].start
               ELSE IF c \in {victim} \ {None} THEN None ELSE lastUsedMap[c]]
          /\ db' = db
    BY <1>3 DEF ConnectClient, Disconnect
  <2>3. Pooled' = Tracked'
    BY <2>1, <2>2
  <2>4. ASSUME NEW c \in Pooled' PROVE clientMap'[c] \in connected' /\ db'[clientMap'[c]] = c
    BY <2>1, <2>2, <2>4
  <2> QED BY <2>3, <2>4
<1>4. ASSUME NEW p \in Calls, GetUrl(p) \/ FindClient(p) \/ SetUrl(p) \/ Query(p) \/ Fail(p)
      PROVE PoolSound'
  BY <1>4 DEF GetUrl, FindClient, SetUrl, Query, Fail
<1>5. CASE CleanupIdle
  BY <1>5 DEF CleanupIdle, Disconnect
<1>6. ASSUME NEW c \in Codes, Provision(c) \/ ExpireUrl(c) PROVE PoolSound'
  BY <1>6 DEF Provision, ExpireUrl
<1>7. CASE Tick \/ UNCHANGED vars
  BY <1>7 DEF Tick, vars
<1> QED
  BY <1>1, <1>2, <1>3, <1>4, <1>5, <1>6, <1>7 DEF Next, Settle

\* A client under construction is in nobody else's hands, so it can neither be
\* disconnected nor be handed out before it is pooled.
LEMMA UnsharedStep ==
  TypeOK /\ CallShape /\ PoolSound /\ Unshared /\ [Next]_vars => Unshared'
<1> SUFFICES ASSUME TypeOK, CallShape, PoolSound, Unshared, [Next]_vars PROVE Unshared'
  OBVIOUS
<1> USE NoneAssumption DEF TypeOK, Call, Blank, Pcs, At, Goto, End, pool, Unshared
<1>1. ASSUME NEW p \in Calls, Begin(p) PROVE Unshared'
  BY <1>1 DEF Begin, Pooled, PoolSound
<1>2. ASSUME NEW p \in Calls, GetUrl(p) PROVE Unshared'
  BY <1>2 DEF GetUrl
<1>0. ASSUME NEW p \in Calls, End(p), connected' = connected, db' = db PROVE Unshared'
  <2>1. call'[p].pc = "done" /\ call'[p].client = None
    BY <1>0
  <2>2. \A q \in Calls \ {p} : call'[q] = call[q]
    BY <1>0
  <2>3. connected' = connected /\ db' = db
    BY <1>0
  <2>4. \A q \in Calls : call'[q].pc \notin {"connect", "query"} => call'[q].client = None
    BY <2>1, <2>2
  <2>5. ASSUME NEW q \in Calls, call'[q].pc = "connect"
        PROVE  /\ call'[q].client \notin connected'
               /\ \A s \in Calls \ {q} : call'[s].client # call'[q].client
    <3>1. q # p /\ call'[q] = call[q] /\ call[q].client \in Clients
      BY <2>1, <2>2, <2>5 DEF CallShape, InFlight
    <3>2. ASSUME NEW s \in Calls \ {q} PROVE call'[s].client # call'[q].client
      BY <2>1, <2>2, <2>5, <3>1, <3>2
    <3> QED BY <2>3, <2>5, <3>1, <3>2
  <2> QED BY <2>3, <2>4, <2>5
<1>3. ASSUME NEW p \in Calls, FindClient(p) PROVE Unshared'
  <2>1. CASE Goto(p, "seturl")
    BY <1>3, <2>1 DEF FindClient
  <2>2. CASE End(p)
    BY <1>0, <1>3, <2>2 DEF FindClient
  <2> QED BY <1>3, <2>1, <2>2 DEF FindClient
<1>4. ASSUME NEW p \in Calls, SetUrl(p) PROVE Unshared'
  BY <1>4 DEF SetUrl
<1>5. ASSUME NEW p \in Calls, ImportClient(p) PROVE Unshared'
  <2>1. PICK h \in Clients :
          /\ db[h] = None
          /\ db' = [db EXCEPT ![h] = call[p].code]
          /\ call' = [call EXCEPT ![p].pc = "connect", ![p].client = h]
    BY <1>5 DEF ImportClient
  <2>2. connected' = connected /\ call[p].code \in Codes
    BY <1>5 DEF ImportClient, CallShape, InFlight
  <2>3. \A q \in Calls : call[q].client # h
    BY <2>1 DEF CallShape, InFlight
  <2> QED BY <2>1, <2>2, <2>3
<1>6. ASSUME NEW p \in Calls, ConnectClient(p) PROVE Unshared'
  <2>1. /\ call[p].code \in Codes /\ call[p].client \in Clients
        /\ db[call[p].client] = call[p].code
    BY <1>6 DEF ConnectClient, CallShape, InFlight
  <2>2. /\ connected' \subseteq connected \cup {call[p].client} /\ db' = db
        /\ call' = [call EXCEPT ![p].pc = "query"] /\ call[p].pc = "connect"
    BY <1>6 DEF ConnectClient, Disconnect
  <2> QED BY <2>1, <2>2
<1>7. ASSUME NEW p \in Calls, Query(p) PROVE Unshared'
  BY <1>7 DEF Query, CallShape, InFlight
<1>8. ASSUME NEW p \in Calls, Fail(p) PROVE Unshared'
  BY <1>0, <1>8 DEF Fail
<1>9. CASE CleanupIdle
  BY <1>9 DEF CleanupIdle, Disconnect
<1>10. ASSUME NEW c \in Codes, Provision(c) \/ ExpireUrl(c) PROVE Unshared'
  BY <1>10 DEF Provision, ExpireUrl
<1>11. CASE Tick \/ UNCHANGED vars
  BY <1>11 DEF Tick, vars
<1> QED
  BY <1>1, <1>2, <1>3, <1>4, <1>5, <1>6, <1>7, <1>8, <1>9, <1>10, <1>11
  DEF Next, Settle

\* The size never passes the bound: an insertion into a full pool is paid for
\* by an eviction in the same step.
LEMMA SizeStep == IInv /\ [Next]_vars => IsFiniteSet(Pooled)' /\ SizeBound'
<1> SUFFICES ASSUME IInv, [Next]_vars PROVE IsFiniteSet(Pooled') /\ Cardinality(Pooled') <= MaxSize
  BY DEF SizeBound
<1> USE NoneAssumption, MaxSizeAssumption
<1>1. TypeOK /\ CallShape /\ PoolSound /\ IsFiniteSet(Pooled) /\ Cardinality(Pooled) <= MaxSize
  BY DEF IInv, SizeBound
<1>2. Cardinality(Pooled) \in Nat
  BY <1>1, FS_CardinalityType
<1>3. CASE Pooled' \subseteq Pooled
  <2>1. IsFiniteSet(Pooled') /\ Cardinality(Pooled') <= Cardinality(Pooled)
    BY <1>1, <1>3, FS_Subset
  <2>2. Cardinality(Pooled') \in Nat
    BY <2>1, FS_CardinalityType
  <2> QED BY <1>1, <1>2, <2>1, <2>2
<1>4. ASSUME NEW p \in Calls, ConnectClient(p)
      PROVE IsFiniteSet(Pooled') /\ Cardinality(Pooled') <= MaxSize
  <2> DEFINE code == call[p].code
  <2>1. code \in Codes /\ call[p].client \in Clients
    BY <1>1, <1>4 DEF ConnectClient, CallShape, InFlight, At
  <2>2. PICK victim \in Codes \cup {None} :
          /\ Evicts(victim)
          /\ clientMap' = [c \in Codes |->
               IF c = code THEN call[p].client
               ELSE IF c \in {victim} \ {None} THEN None ELSE clientMap[c]]
    BY <1>4 DEF ConnectClient
  <2> HIDE DEF code
  <2> DEFINE Rest == Pooled \ {victim}
  <2>3. Pooled' = Rest \cup {code}
    BY <1>1, <2>1, <2>2 DEF Pooled, TypeOK
  <2>4. IsFiniteSet(Rest) /\ Cardinality(Rest) <= Cardinality(Pooled) /\ Cardinality(Rest) \in Nat
    BY <1>1, FS_Subset, FS_CardinalityType
  <2>5. Cardinality(Rest) <= MaxSize - 1
    <3>1. CASE Cardinality(Pooled) < MaxSize
      BY <1>2, <2>4, <3>1
    <3>2. CASE Cardinality(Pooled) >= MaxSize
      <4>1. Pooled # {}
        BY <3>2, FS_EmptySet
      <4>2. victim \in Pooled
        BY <1>1, <2>2, <3>2, <4>1, OldestExists DEF Evicts, Victims, PoolSound
      <4>3. Cardinality(Rest) = Cardinality(Pooled) - 1
        BY <1>1, <4>2, FS_RemoveElement
      <4> QED BY <1>1, <1>2, <4>3
    <3> QED BY <1>2, <3>1, <3>2
  <2>6. /\ IsFiniteSet(Rest \cup {code})
        /\ Cardinality(Rest \cup {code}) =
             IF code \in Rest THEN Cardinality(Rest) ELSE Cardinality(Rest) + 1
    BY <2>4, FS_AddElement
  <2> HIDE DEF Rest
  <2> QED BY <2>3, <2>4, <2>5, <2>6
<1>5. ASSUME NEW p \in Calls, Begin(p) \/ GetUrl(p) \/ FindClient(p) \/ SetUrl(p)
                                \/ ImportClient(p) \/ Query(p) \/ Fail(p)
      PROVE Pooled' \subseteq Pooled
  BY <1>5 DEF Begin, GetUrl, FindClient, SetUrl, ImportClient, Query, Fail, Pooled, pool
<1>6. ASSUME NEW c \in Codes, Provision(c) \/ ExpireUrl(c) PROVE Pooled' \subseteq Pooled
  BY <1>6 DEF Provision, ExpireUrl, Pooled, pool
<1>7. CASE CleanupIdle \/ Tick \/ UNCHANGED vars
  <2>1. Pooled' \subseteq Pooled
    BY <1>7 DEF CleanupIdle, Tick, vars, Pooled, pool
  <2> QED BY <1>3, <2>1
<1> QED
  BY <1>3, <1>4, <1>5, <1>6, <1>7 DEF Next, Settle

\* IInv is an invariant of TenantPrismaService.
THEOREM Inductive == Spec => []IInv
<1>1. Init => IInv
  <2> SUFFICES ASSUME Init PROVE IInv
    OBVIOUS
  <2>1. Pooled = {} /\ Tracked = {} /\ InFlight = {}
    BY DEF Init, Pooled, Tracked, InFlight, Blank
  <2>2. IsFiniteSet(Pooled) /\ SizeBound
    BY <2>1, FS_EmptySet, MaxSizeAssumption DEF SizeBound
  <2>3. CallShape /\ PoolSound /\ Unshared
    BY <2>1 DEF CallShape, PoolSound, Unshared, Init, Blank, At
  <2> QED BY <2>2, <2>3, TypeInit DEF IInv
<1>2. IInv /\ [Next]_vars => IInv'
  BY TypeStep, CallShapeStep, PoolSoundStep, UnsharedStep, SizeStep DEF IInv
<1> QED BY <1>1, <1>2, PTL DEF Spec

\* However many misses of getPrismaClientByCode connect at once, clientMap
\* never holds more than tenantClientCacheMaxSize clients.
THEOREM PoolSizeBounded == Spec => []SizeBound
<1>1. IInv => SizeBound
  BY DEF IInv
<1> QED BY <1>1, Inductive, PTL

\* clientMap and lastUsedMap have the same keys, and every pooled client is
\* connected and filed under the code it was built for.
THEOREM PoolConsistent == Spec => []PoolSound
<1>1. IInv => PoolSound
  BY DEF IInv
<1> QED BY <1>1, Inductive, PTL

\* A repository's query always goes to the database of its own client code.
THEOREM QueriesRouted == Spec => []TenantRouting
<1>1. IInv => TenantRouting
  BY DEF IInv, TenantRouting, CallShape, InFlight, At
<1> QED BY <1>1, Inductive, PTL

\* The pool counts its connections the way TenantPrismaService does.
LEMMA SameCount == ASSUME NEW S PROVE Pool!Cardinality(S) = Cardinality(S)
  BY Zenon DEF Pool!Cardinality, Cardinality

\* One step of the service is one step of the pool it promises, or none.
LEMMA PoolStep == IInv /\ IInv' /\ [Next]_vars => [Pool!Next]_(Pool!vars)
<1> SUFFICES ASSUME IInv, IInv', [Next]_vars PROVE Pool!Next \/ UNCHANGED Pool!vars
  OBVIOUS
<1> USE NoneAssumption DEF IInv, TypeOK, Call, Blank, At, Goto, End, pool, Pool!vars, Wants, Got
<1>1. ASSUME NEW p \in Calls, Begin(p) PROVE Pool!Next \/ UNCHANGED Pool!vars
  <2>1. PICK c \in Codes :
          /\ call[p].pc = "new" /\ clientMap' = clientMap /\ db' = db
          /\ \/ /\ c \in Pooled
                /\ call' = [call EXCEPT ![p] = [pc |-> "query", code |-> c, start |-> now,
                                                client |-> clientMap[c]]]
             \/ /\ c \notin Pooled
                /\ call' = [call EXCEPT ![p] = [pc |-> "url", code |-> c, start |-> now,
                                                client |-> None]]
    BY <1>1 DEF Begin
  <2>2. Pooled' = Pooled /\ p \notin InFlight /\ Wants[p] = None
    BY <2>1 DEF Pooled, InFlight
  <2>6. /\ \A q \in Calls \ {p} : call'[q] = call[q]
        /\ call'[p].code = c /\ call'[p].pc \in {"query", "url"}
    BY <2>1
  <2>3. Wants' = [Wants EXCEPT ![p] = c]
    BY <2>6 DEF InFlight
  <2>4. CASE c \in Pooled
    <3>3. call'[p].pc = "query" /\ db[call'[p].client] = c
      BY <2>1, <2>4 DEF PoolSound
    <3>1. Got' = [Got EXCEPT ![p] = c]
      BY <2>1, <2>6, <3>3
    <3>2. Pool!Hit(p, c)
      BY <2>2, <2>3, <2>4, <3>1 DEF Pool!Hit
    <3> QED BY <3>2 DEF Pool!Next
  <2>5. CASE c \notin Pooled
    <3>1. Got' = Got
      BY <2>1, <2>5
    <3>2. Pool!Miss(p, c)
      BY <2>2, <2>3, <2>5, <3>1 DEF Pool!Miss
    <3> QED BY <3>2 DEF Pool!Next
  <2> QED BY <2>4, <2>5
<1>2. ASSUME NEW p \in Calls, GetUrl(p) \/ SetUrl(p) PROVE UNCHANGED Pool!vars
  <2>1. Pooled' = Pooled
    BY <1>2 DEF GetUrl, SetUrl, Pooled
  <2>2. Wants' = Wants /\ Got' = Got
    BY <1>2 DEF GetUrl, SetUrl, InFlight
  <2> QED BY <2>1, <2>2
<1>3. ASSUME NEW p \in Calls, p \in InFlight, End(p), Pooled' = Pooled, db' = db
      PROVE Pool!Leave(p)
  <2>1. Wants[p] # None
    BY <1>3 DEF CallShape
  <2>2. Wants' = [Wants EXCEPT ![p] = None]
    BY <1>3 DEF InFlight
  <2>3. Got' = [Got EXCEPT ![p] = None]
    BY <1>3 DEF InFlight
  <2> QED BY <1>3, <2>1, <2>2, <2>3 DEF Pool!Leave
<1>4. ASSUME NEW p \in Calls, FindClient(p) PROVE Pool!Next \/ UNCHANGED Pool!vars
  <2>1. p \in InFlight /\ Pooled' = Pooled /\ db' = db
    BY <1>4 DEF FindClient, InFlight, Pooled
  <2>2. CASE End(p)
    BY <1>3, <2>1, <2>2 DEF Pool!Next
  <2>3. CASE Goto(p, "seturl")
    <3>1. Wants' = Wants /\ Got' = Got
      BY <1>4, <2>1, <2>3 DEF InFlight, FindClient
    <3> QED BY <2>1, <3>1
  <2> QED BY <1>4, <2>2, <2>3 DEF FindClient
<1>5. ASSUME NEW p \in Calls, ImportClient(p) PROVE UNCHANGED Pool!vars
  <2>1. PICK h \in Clients :
          /\ db[h] = None
          /\ db' = [db EXCEPT ![h] = call[p].code]
          /\ call' = [call EXCEPT ![p].pc = "connect", ![p].client = h]
    BY <1>5 DEF ImportClient
  <2>2. Pooled' = Pooled /\ call[p].pc = "import"
    BY <1>5 DEF ImportClient, Pooled
  <2>3. Wants' = Wants
    BY <2>1, <2>2 DEF InFlight
  <2>4. \A q \in Calls : At(q, "query") => call[q].client \in Clients /\ call[q].client # h
    BY <2>1 DEF CallShape, InFlight
  <2>5. Got' = Got
    BY <2>1, <2>2, <2>4
  <2> QED BY <2>2, <2>3, <2>5
<1>6. ASSUME NEW p \in Calls, ConnectClient(p) PROVE Pool!Next
  <2> DEFINE code == call[p].code
  <2>1. /\ code \in Codes /\ call[p].client \in Clients /\ db[call[p].client] = code
        /\ call[p].pc = "connect" /\ db' = db /\ call' = [call EXCEPT ![p].pc = "query"]
    BY <1>6 DEF ConnectClient, CallShape, InFlight
  <2>2. PICK victim \in Codes \cup {None} :
          /\ Evicts(victim)
          /\ clientMap' = [c \in Codes |->
               IF c = code THEN call[p].client
               ELSE IF c \in {victim} \ {None} THEN None ELSE clientMap[c]]
    BY <1>6 DEF ConnectClient
  <2>3. Wants' = Wants /\ Wants[p] = code /\ Got[p] = None
    BY <2>1 DEF InFlight
  <2>4. Got' = [Got EXCEPT ![p] = code]
    BY <2>1
  <2> HIDE DEF code, Wants, Got
  <2>5. Pooled' = (Pooled \ {victim}) \cup {code}
    BY <2>1, <2>2 DEF Pooled
  <2>6. Cardinality(Pooled') <= MaxSize
    BY DEF SizeBound
  <2>7. CASE Cardinality(Pooled) < MaxSize
    <3>1. victim = None
      BY <2>2, <2>7, MaxSizeAssumption, FS_CardinalityType DEF Evicts
    <3>2. Pooled' = Pooled \cup {code}
      BY <2>5, <3>1 DEF Pooled
    <3>3. Pool!Supply(p)
      BY <2>1, <2>3, <2>4, <2>6, <3>2, SameCount DEF Pool!Supply
    <3> QED BY <3>3 DEF Pool!Next
  <2>8. CASE ~(Cardinality(Pooled) < MaxSize)
    <3>1. Cardinality(Pooled) = MaxSize /\ Cardinality(Pooled) >= MaxSize
      BY <2>8, MaxSizeAssumption, FS_CardinalityType DEF SizeBound
    <3>2. Pooled # {}
      BY <3>1, FS_EmptySet, MaxSizeAssumption
    <3>3. victim \in Pooled
      BY <2>2, <3>1, <3>2, OldestExists DEF Evicts, Victims, PoolSound
    <3>4. Pool!Supply(p)
      BY <2>1, <2>3, <2>4, <2>5, <2>6, <3>1, <3>3, SameCount DEF Pool!Supply
    <3> QED BY <3>4 DEF Pool!Next
  <2> QED BY <2>7, <2>8
<1>7. ASSUME NEW p \in Calls, Query(p) \/ Fail(p) PROVE Pool!Next
  <2>1. p \in InFlight /\ End(p) /\ Pooled' = Pooled /\ db' = db
    BY <1>7 DEF Query, Fail, InFlight, Pooled
  <2> QED BY <1>3, <2>1 DEF Pool!Next
<1>8. CASE CleanupIdle
  <2>1. Wants' = Wants /\ Got' = Got /\ Pooled' \subseteq Pooled
    BY <1>8 DEF CleanupIdle, InFlight, Pooled
  <2> QED BY <2>1 DEF Pool!Next, Pool!Shrink
<1>9. ASSUME NEW c \in Codes, Provision(c) \/ ExpireUrl(c) PROVE UNCHANGED Pool!vars
  BY <1>9 DEF Provision, ExpireUrl, InFlight, Pooled
<1>10. CASE Tick \/ UNCHANGED vars
  BY <1>10 DEF Tick, vars, InFlight, Pooled
<1> QED
  BY <1>1, <1>2, <1>4, <1>5, <1>6, <1>7, <1>8, <1>9, <1>10 DEF Next, Settle

\* TenantPrismaService implements the bounded pool: for any number of callers,
\* tenants and clients, and any pool size of at least one.
THEOREM PoolImplemented == Spec => ImplementsPool
<1>1. Init => Pool!Init
  <2> SUFFICES ASSUME Init PROVE Pool!Init
    OBVIOUS
  <2>1. Pooled = {} /\ InFlight = {} /\ \A p \in Calls : ~At(p, "query")
    BY DEF Init, Pooled, InFlight, Blank, At
  <2> QED BY <2>1 DEF Pool!Init, Wants, Got
<1> QED BY <1>1, Inductive, PoolStep, PTL DEF Spec, ImplementsPool, Pool!Spec

\* Why h loses its last owner in this step.
OrphanCause(h) ==
  \/ \E c \in Codes, p \in InFlight :
       clientMap[c] = h /\ call[p].code = c /\ clientMap'[c] = call[p].client
  \/ \E p \in InFlight : At(p, "query") /\ call[p].client = h /\ p \notin InFlight'

\* A connection becomes an orphan for one of these two causes only.
LEMMA OrphanStep ==
  ASSUME IInv, [Next]_vars, NEW h \in Orphans', h \notin Orphans
  PROVE  OrphanCause(h)
<1> USE NoneAssumption DEF IInv, TypeOK, Call, Blank, At, Goto, End, pool, Orphans, OrphanCause
<1>1. ASSUME NEW p \in Calls, Begin(p) PROVE FALSE
  BY <1>1 DEF Begin, InFlight
<1>2. ASSUME NEW p \in Calls, GetUrl(p) \/ SetUrl(p) PROVE FALSE
  BY <1>2 DEF GetUrl, SetUrl, InFlight
<1>3. ASSUME NEW p \in Calls, FindClient(p) PROVE FALSE
  BY <1>3 DEF FindClient, InFlight, Unshared
<1>4. ASSUME NEW p \in Calls, ImportClient(p) PROVE FALSE
  BY <1>4 DEF ImportClient, InFlight, Unshared
<1>5. ASSUME NEW p \in Calls, ConnectClient(p) PROVE OrphanCause(h)
  <2>1. /\ call[p].code \in Codes /\ call[p].client \in Clients /\ p \in InFlight
        /\ call[p].pc = "connect" /\ call' = [call EXCEPT ![p].pc = "query"]
    BY <1>5 DEF ConnectClient, CallShape, InFlight
  <2>2. PICK victim \in Codes \cup {None} :
          /\ connected' = (connected \ {clientMap[c] : c \in {victim} \ {None}})
                            \cup {call[p].client}
          /\ clientMap' = [c \in Codes |->
               IF c = call[p].code THEN call[p].client
               ELSE IF c \in {victim} \ {None} THEN None ELSE clientMap[c]]
    BY <1>5 DEF ConnectClient, Disconnect
  <2>3. h # call[p].client
    BY <2>1, <2>2
  <2>4. \A q \in InFlight : call[q].client # h
    BY <2>1 DEF InFlight
  <2>5. PICK c \in Codes : clientMap[c] = h
    BY <2>2, <2>3, <2>4
  <2>6. c = call[p].code
    BY <2>2, <2>3, <2>5
  <2> QED BY <2>1, <2>2, <2>5, <2>6
<1>6. ASSUME NEW p \in Calls, Query(p) PROVE OrphanCause(h)
  <2>1. /\ call[p].pc = "query" /\ p \in InFlight /\ p \notin InFlight'
        /\ clientMap' = clientMap /\ connected' = connected \cup {call[p].client}
        /\ \A q \in Calls \ {p} : call'[q] = call[q]
    BY <1>6 DEF Query, InFlight
  <2>2. call[p].client = h
    BY <2>1 DEF InFlight
  <2> QED BY <2>1, <2>2
<1>7. ASSUME NEW p \in Calls, Fail(p) PROVE OrphanCause(h)
  <2>1. /\ p \in InFlight /\ p \notin InFlight'
        /\ clientMap' = clientMap /\ connected' = connected
        /\ \A q \in Calls \ {p} : call'[q] = call[q]
    BY <1>7 DEF Fail, InFlight
  <2>2. call[p].client = h /\ h \in connected
    BY <2>1 DEF InFlight
  <2>3. call[p].pc = "query"
    BY <2>2 DEF Unshared
  <2> QED BY <2>1, <2>2, <2>3
<1>8. CASE CleanupIdle
  BY <1>8 DEF CleanupIdle, InFlight, Disconnect, Stale, PoolSound, Pooled, Tracked
<1>9. ASSUME NEW c \in Codes, Provision(c) \/ ExpireUrl(c) PROVE FALSE
  BY <1>9 DEF Provision, ExpireUrl, InFlight
<1>10. CASE Tick \/ UNCHANGED vars
  BY <1>10 DEF Tick, vars, InFlight
<1> QED
  BY <1>1, <1>2, <1>3, <1>4, <1>5, <1>6, <1>7, <1>8, <1>9, <1>10 DEF Next, Settle
\* A PrismaClient is orphaned only by an overlapping miss for its own tenant or
\* by a caller that outlives its entry: never by an eviction or a sweep alone.
THEOREM OrphansExplained == Spec => OrphanedByOverlap
<1>1. IInv /\ [Next]_vars => [\A h \in Orphans' \ Orphans : OrphanCause(h)]_vars
  BY OrphanStep
<1> QED BY <1>1, Inductive, PTL DEF Spec, OrphanedByOverlap, OrphanCause

-----------------------------------------------------------------------------
(* Calls that come one after another, each within a tick.                  *)

\* A call arrives only when no other is in flight.
LEMMA LoneArrival ==
  ASSUME MaxInFlight = 1, Alone, Cardinality(InFlight) < MaxInFlight
  PROVE  InFlight = {}
<1> SUFFICES ASSUME NEW p \in InFlight PROVE FALSE
  OBVIOUS
<1>1. InFlight = {p}
  BY DEF Alone
<1>2. Cardinality({p}) = 1
  BY FS_Singleton
<1> QED BY <1>1, <1>2

\* One call at a time leaves the pool as it was found, or as it just changed it.
LEMMA AloneStep ==
  ASSUME MaxInFlight = 1, Prompt, IInv, Alone, [Next]_vars
  PROVE  Alone'
<1> USE NoneAssumption, ClockAssumption
    DEF IInv, TypeOK, Call, Blank, At, Goto, End, pool, Alone, InFlight, Pooled
<1>1. ASSUME NEW p \in Calls, Begin(p) PROVE Alone'
  <2>1. InFlight = {}
    BY <1>1, LoneArrival DEF Begin
  <2> QED BY <1>1, <2>1 DEF Begin
<1>2. ASSUME NEW p \in Calls, GetUrl(p) PROVE Alone'
  BY <1>2 DEF GetUrl
<1>3. ASSUME NEW p \in Calls, FindClient(p) PROVE Alone'
  BY <1>3 DEF FindClient
<1>4. ASSUME NEW p \in Calls, SetUrl(p) PROVE Alone'
  BY <1>4 DEF SetUrl
<1>5. ASSUME NEW p \in Calls, ImportClient(p) PROVE Alone'
  BY <1>5 DEF ImportClient
<1>6. ASSUME NEW p \in Calls, ConnectClient(p) PROVE Alone'
  BY <1>6 DEF ConnectClient, CallShape
<1>7. ASSUME NEW p \in Calls, Query(p) \/ Fail(p) PROVE Alone'
  BY <1>7 DEF Query, Fail
<1>8. CASE CleanupIdle
  <2> DEFINE stale == {c \in Codes : Stale(c)}
  <2>1. /\ clientMap' = [c \in Codes |-> IF c \in stale THEN None ELSE clientMap[c]]
        /\ lastUsedMap' = [c \in Codes |-> IF c \in stale THEN None ELSE lastUsedMap[c]]
        /\ UNCHANGED <<now, usedAt, call>>
    BY <1>8 DEF CleanupIdle
  <2>2. ASSUME NEW p \in InFlight, At(p, "query") PROVE call[p].code \notin stale
    BY <2>2 DEF Stale
  <2>3. \A p \in InFlight : call[p].code \in Codes
    BY DEF CallShape
  <2> HIDE DEF stale
  <2> QED BY <2>1, <2>2, <2>3
<1>9. ASSUME NEW c \in Codes, Provision(c) \/ ExpireUrl(c) PROVE Alone'
  BY <1>9 DEF Provision, ExpireUrl
<1>10. CASE Tick \/ UNCHANGED vars
  BY <1>10 DEF Tick, vars
<1> QED
  BY <1>1, <1>2, <1>3, <1>4, <1>5, <1>6, <1>7, <1>8, <1>9, <1>10 DEF Next, Settle

\* The call in flight, the pool and the recorded times agree.
LEMMA AloneAlways ==
  ASSUME MaxInFlight = 1, Prompt
  PROVE  Spec => []Alone
<1>1. Init => Alone
  BY DEF Init, Alone, InFlight, Pooled, Blank
<1>2. IInv /\ Alone /\ [Next]_vars => Alone'
  BY AloneStep
<1> QED BY <1>1, <1>2, Inductive, PTL DEF Spec

\* A caller ends its query without a change to clientMap.
LEMMA QueryKeepsPool ==
  ASSUME IInv, [Next]_vars, NEW p \in InFlight, At(p, "query"), p \notin InFlight'
  PROVE  clientMap' = clientMap
<1> USE DEF IInv, TypeOK, At, Goto, End, pool, InFlight
<1>1. CASE CleanupIdle
  BY <1>1 DEF CleanupIdle
<1>2. ASSUME NEW q \in Calls, ConnectClient(q) PROVE clientMap' = clientMap
  <2>1. call' = [call EXCEPT ![q].pc = "query"] /\ call[q].pc = "connect"
    BY <1>2 DEF ConnectClient
  <2> QED BY <2>1
<1> QED
  BY <1>1, <1>2 DEF Next, Settle, Begin, GetUrl, FindClient, SetUrl, ImportClient, Query, Fail,
     Provision, ExpireUrl, Tick, vars

\* With calls that do not overlap TenantPrismaService loses no connection: what
\* is open is pooled, where an eviction or the sweep will close it, or in use.
THEOREM NoneOrphaned ==
  ASSUME MaxInFlight = 1, Prompt
  PROVE  Spec => []NoOrphan
<1>1. Init => NoOrphan
  BY DEF Init, NoOrphan
<1>2. IInv /\ Alone /\ NoOrphan /\ [Next]_vars => NoOrphan'
  <2> SUFFICES ASSUME IInv, Alone, NoOrphan, [Next]_vars, NEW h \in Orphans' PROVE FALSE
    BY DEF NoOrphan, Orphans
  <2>1. h \notin Orphans
    BY DEF NoOrphan, Orphans
  <2>2. OrphanCause(h)
    BY <2>1, OrphanStep
  <2>3. h \in connected' /\ h # None /\ \A c \in Codes : clientMap'[c] # h
    BY TypeStep, NoneAssumption DEF IInv, TypeOK, Orphans
  <2>4. ASSUME NEW c \in Codes, NEW p \in InFlight,
               clientMap[c] = h, call[p].code = c, clientMap'[c] = call[p].client
        PROVE  FALSE
    BY <2>3, <2>4 DEF Alone
  <2>5. ASSUME NEW p \in InFlight, At(p, "query"), call[p].client = h, p \notin InFlight'
        PROVE  FALSE
    BY <2>3, <2>5, QueryKeepsPool DEF Alone, IInv, CallShape
  <2> QED BY <2>2, <2>4, <2>5 DEF OrphanCause
<1> QED BY <1>1, <1>2, Inductive, AloneAlways, PTL DEF Spec

\* With calls that do not overlap evictLeastRecentlyUsedClient is true to its
\* name: no client goes while another one was handed out earlier.
THEOREM EvictionIsLRU ==
  ASSUME MaxInFlight = 1, Prompt
  PROVE  Spec => EvictsLRU
<1> DEFINE LRU ==
      \A c \in Pooled, d \in Pooled :
        (c \notin Pooled' /\ ~Stale(c) /\ lastUsedMap[c] # lastUsedMap[d])
          => usedAt[c] <= usedAt[d]
<1>1. IInv /\ Alone /\ [Next]_vars => [LRU]_vars
  <2> SUFFICES ASSUME IInv, Alone, Next, NEW c \in Pooled, NEW d \in Pooled,
                      c \notin Pooled', ~Stale(c)
               PROVE  usedAt[c] <= usedAt[d]
    OBVIOUS
  <2> USE DEF IInv, TypeOK, pool
  <2>1. clientMap' # clientMap /\ ~CleanupIdle
    BY DEF Pooled, CleanupIdle
  <2>2. PICK p \in Calls : ConnectClient(p)
    BY <2>1 DEF Next, Settle, Begin, GetUrl, FindClient, SetUrl, ImportClient, Query, Fail,
       Provision, ExpireUrl, Tick
  <2>3. c \in Oldest
    <3>1. call[p].client # None
      BY <2>2, NoneAssumption DEF ConnectClient, At, CallShape, InFlight
    <3> QED BY <2>2, <3>1 DEF ConnectClient, Evicts, Victims, Pooled
  <2>4. Pooled = Tracked
    BY DEF PoolSound
  <2>5. lastUsedMap[c] <= lastUsedMap[d]
    BY <2>3, <2>4 DEF Oldest
  <2> QED BY <2>5 DEF Alone
<1> QED BY <1>1, Inductive, AloneAlways, PTL DEF Spec, EvictsLRU

\* The type invariant of the pool.
THEOREM PoolTypes == Spec => []TypeOK
<1>1. IInv => TypeOK
  BY DEF IInv
<1> QED BY <1>1, Inductive, PTL
=============================================================================
