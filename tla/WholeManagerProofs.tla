------------------------- MODULE WholeManagerProofs -------------------------
(***************************************************************************)
(* Proof that GraphManager and MicrorosGraph, put together, publish the    *)
(* graph of the domain, for any clients, peers, objects and samples.       *)
(*                                                                         *)
(* Every step of the whole is a step of the bookkeeping or leaves it alone *)
(* and a step of the publication or leaves it alone: the invariants that   *)
(* the two have on their own hold of the whole.  At rest the first say     *)
(* that the cache is the domain, but for participants that have announced  *)
(* nothing, and the second that the cache is what was published.           *)
(***************************************************************************)
EXTENDS DomainViewProofs, WholeManager

\* What is proved of MicrorosGraph, of the threads and nodes of a manager.
PP == INSTANCE MicrorosGraphProofs
        WITH Nodes <- NodeNames, Callers <- Threads, Xrce <- ServerThread

LEMMA ThreadsAreCallers == PP!ThreadsAssumption
BY ManagerAssumption DEF PP!ThreadsAssumption, Threads

-----------------------------------------------------------------------------
(***************************************************************************)
(* The two parts.                                                          *)
(***************************************************************************)
LEMMA InitParts == ManagerInit => Init /\ PP!Init
BY DEF ManagerInit, P!Init, PP!Init, P!EmptyMessage, PP!EmptyMessage, P!NoNodeYet,
   PP!NoNodeYet, P!GC!EmptyCache, PP!GC!EmptyCache, P!GC!NoEntries, PP!GC!NoEntries

LEMMA SameCalls ==
  ASSUME NEW t
  PROVE  P!Update(t) \/ P!FinishCall(t) => PP!Update(t) \/ PP!FinishCall(t)
BY DEF P!Update, PP!Update, P!AddParticipant, PP!AddParticipant, P!RemoveParticipant,
   PP!RemoveParticipant, P!UpdateParticipantEntities, PP!UpdateParticipantEntities,
   P!AddNode, PP!AddNode, P!AddDatawriter, PP!AddDatawriter, P!AddDatareader,
   PP!AddDatareader, P!RemoveDatawriter, PP!RemoveDatawriter, P!RemoveDatareader,
   PP!RemoveDatareader, P!AssociateEntity, PP!AssociateEntity, P!CacheCall, PP!CacheCall,
   P!NodesInfo, PP!NodesInfo, P!PartialFunctions, PP!PartialFunctions,
   P!FinishCall, PP!FinishCall, P!SetGraphChanged, PP!SetGraphChanged,
   P!NotifyAndReturn, PP!NotifyAndReturn, P!cacheVars, PP!cacheVars, P!roundVars,
   PP!roundVars, P!GC!AddParticipant, PP!GC!AddParticipant, P!GC!Knows, PP!GC!Knows,
   P!GC!HasNode, PP!GC!HasNode, P!GC!RemoveParticipant, PP!GC!RemoveParticipant,
   P!GC!Put, PP!GC!Put, P!GC!Without, PP!GC!Without, P!GC!Restrict, PP!GC!Restrict,
   P!GC!NoEntries, PP!GC!NoEntries, P!GC!UpdateParticipantEntities,
   PP!GC!UpdateParticipantEntities, P!GC!AddNode, PP!GC!AddNode, P!GC!NoEntities,
   PP!GC!NoEntities, P!GC!AddWriter, PP!GC!AddWriter, P!GC!AddReader, PP!GC!AddReader,
   P!GC!RemoveWriter, PP!GC!RemoveWriter, P!GC!RemoveReader, PP!GC!RemoveReader,
   P!GC!AssociateWriter, PP!GC!AssociateWriter, P!GC!AssociateReader,
   PP!GC!AssociateReader

LEMMA SameConstruct == P!Construct => PP!Construct
BY DEF P!Construct, PP!Construct, P!SetOnChangeCallback, PP!SetOnChangeCallback,
   P!StartPublisher, PP!StartPublisher, P!AddFirstParticipant, PP!AddFirstParticipant,
   P!CacheCall, PP!CacheCall, P!cacheVars, PP!cacheVars, P!roundVars, PP!roundVars,
   P!GC!AddParticipant, PP!GC!AddParticipant, P!GC!Knows, PP!GC!Knows, P!GC!Put,
   PP!GC!Put, P!GC!NoEntries, PP!GC!NoEntries

LEMMA SamePublisher ==
  P!WaitForChange \/ P!WakeSpuriously \/ P!CollectAndWrite =>
    PP!WaitForChange \/ PP!WakeSpuriously \/ PP!CollectAndWrite
BY DEF P!WaitForChange, PP!WaitForChange, P!LockMtx, PP!LockMtx, P!ConsumeChange,
   PP!ConsumeChange, P!FindUnchanged, PP!FindUnchanged, P!FallAsleep, PP!FallAsleep,
   P!WakeSpuriously, PP!WakeSpuriously, P!CollectAndWrite, PP!CollectAndWrite, P!Query,
   PP!Query, P!GetNodeNames, PP!GetNodeNames, P!GetWriters, PP!GetWriters, P!GetReaders,
   PP!GetReaders, P!GetServers, PP!GetServers, P!GetClients, PP!GetClients, P!Write,
   PP!Write, P!EndRound, PP!EndRound, P!Allocate, PP!Allocate, P!LeaveLoop, PP!LeaveLoop,
   P!RunOutOfMemory, PP!RunOutOfMemory, P!EmptyMessage, PP!EmptyMessage, P!NoNodeYet,
   PP!NoNodeYet, P!cacheVars, PP!cacheVars, P!roundVars, PP!roundVars, P!GC!NodeNames,
   PP!GC!NodeNames, P!GC!WriterNamesByNode, PP!GC!WriterNamesByNode,
   P!GC!ReaderNamesByNode, PP!GC!ReaderNamesByNode, P!GC!AllNames, PP!GC!AllNames,
   P!GC!NamesOf, PP!GC!NamesOf, P!GC!NodeInfo, PP!GC!NodeInfo, P!GC!HasNode,
   PP!GC!HasNode, P!GC!Knows, PP!GC!Knows

\* The whole leaves the cache alone when it leaves the publication's other
\* variables alone.
LEMMA OutsideKept ==
  ASSUME UNCHANGED publication, cache' = cache
  PROVE  UNCHANGED PP!vars
BY DEF publication, PP!vars, PP!cacheVars, PP!roundVars

LEMMA BookkeepingKept ==
  ASSUME UNCHANGED bookkeeping, cache' = cache
  PROVE  UNCHANGED vars
BY DEF bookkeeping, vars, dds, samples

\* Which steps call the cache, and as what.
LEMMA CallIsNext ==
  ASSUME NEW t \in Threads, P!Update(t) \/ P!FinishCall(t)
  PROVE  PP!Next
BY SameCalls DEF PP!Next

LEMMA EntityCallsAreNext ==
  ASSUME NEW t \in Threads, NEW e, AddsEntity(t, e) \/ RemovesEntity(t, e)
  PROVE  PP!Next
BY CallIsNext DEF AddsEntity, RemovesEntity, P!Update

LEMMA ServerCallsParts ==
  ASSUME IInv, ServerCalls
  PROVE  Next /\ [PP!Next]_PP!vars
<1>1. Next
  BY DEF ServerCalls, Next, XrceCalls
<1>2. ServerThread \in Threads
  BY DEF Threads
<1>3. CASE \/ AddParticipant /\ P!AddParticipant(ServerThread)
           \/ RemoveParticipant /\ P!RemoveParticipant(ServerThread)
           \/ AddNode /\ P!AddNode(ServerThread)
           \/ AssociateEntity /\ P!AssociateEntity(ServerThread)
  BY <1>1, <1>2, <1>3, CallIsNext DEF P!Update
<1>4. CASE AddParticipant /\ P!AddFirstParticipant
  BY <1>1, <1>4, SameConstruct DEF P!Construct, PP!Next
<1>5. CASE \/ AddEntity /\ AddsEntity(ServerThread, Head(xrce.todo))
           \/ RemoveEntity /\ RemovesEntity(ServerThread, Head(xrce.todo))
  BY <1>1, <1>2, <1>5, EntityCallsAreNext
<1>6. CASE (AddNode \/ AssociateEntity) /\ xrce'.at = "undefined"
             /\ OutsideCache(ServerThread)
  <2>1. /\ DOMAIN xrce = {"at", "client", "object", "todo", "info"}
        /\ \A info : [xrce EXCEPT !.at = "first_write", !.info = info].at # "undefined"
        /\ \A info : [xrce EXCEPT !.at = "write", !.info = info].at # "undefined"
    BY DEF IInv, Types
  <2>2. cache' = cache
    BY <1>6, <2>1 DEF AddNode, AssociateEntity
  <2> QED
    BY <1>1, <1>6, <2>2, OutsideKept DEF OutsideCache
<1>7. CASE (FirstWrite \/ LastWrite \/ DeleteAuxiliary \/ WriteInfo)
             /\ OutsideCache(ServerThread)
  <2>1. cache' = cache
    BY <1>7 DEF FirstWrite, LastWrite, DeleteAuxiliary, WriteInfo
  <2> QED
    BY <1>1, <1>7, <2>1, OutsideKept DEF OutsideCache
<1> QED
  BY <1>3, <1>4, <1>5, <1>6, <1>7 DEF ServerCalls

\* Every step of the whole is a step of the bookkeeping, or leaves it alone,
\* and a step of the publication, or leaves it alone.
LEMMA NextParts ==
  ASSUME IInv, [ManagerNext]_managerVars
  PROVE  [Next]_vars /\ [PP!Next]_PP!vars
<1>1. CASE ServerStarts
  <2>1. cache' = cache
    BY <1>1 DEF ServerStarts, XrceStarts, OnCreateParticipant, OnDeleteParticipant,
       CreateObject, DeleteObject, OnCreateDatawriter, OnDeleteDatawriter,
       OnCreateDatareader, OnDeleteDatareader, OnCreateRequester, OnDeleteRequester,
       OnCreateReplier, OnDeleteReplier
  <2> QED
    BY <1>1, <2>1, OutsideKept DEF ServerStarts, Next
<1>2. CASE Construct
  <2>1. cache' = cache
    BY <1>2 DEF Construct, P!SetOnChangeCallback, P!StartPublisher, P!cacheVars
  <2> QED
    BY <1>2, <2>1, BookkeepingKept, SameConstruct DEF Construct, P!Construct, PP!Next
<1>3. CASE ServerCalls
  BY <1>3, ServerCallsParts
<1>4. ASSUME NEW p \in Participants, ListenerReports(p)
      PROVE  Next /\ [PP!Next]_PP!vars
  <2>1. Next /\ ListenerThread \in Threads
    BY <1>4 DEF ListenerReports, Next, Listen, Threads
  <2>2. CASE /\ OnParticipantDiscovered(p) /\ p \notin Enclaved
             /\ OutsideCache(ListenerThread)
    <3>1. cache' = cache
      BY <2>2 DEF OnParticipantDiscovered
    <3> QED
      BY <2>1, <2>2, <3>1, OutsideKept DEF OutsideCache
  <2>3. CASE P!AddParticipant(ListenerThread) \/ P!RemoveParticipant(ListenerThread)
    BY <2>1, <2>3, CallIsNext DEF P!Update
  <2>4. CASE \/ AddsEntity(ListenerThread, Event(p).id)
             \/ RemovesEntity(ListenerThread, Event(p).id)
    BY <2>1, <2>4, EntityCallsAreNext
  <2> QED
    BY <1>4, <2>2, <2>3, <2>4 DEF ListenerReports
<1>5. ASSUME NEW p \in Participants, ReaderTakes(p)
      PROVE  Next /\ [PP!Next]_PP!vars
  <2>1. cache' = cache
    BY <1>5 DEF ReaderTakes, TakeSample
  <2> QED
    BY <1>5, <2>1, OutsideKept DEF ReaderTakes, OutsideCache, Next
<1>6. CASE ReaderUpdates
  <2>1. ReaderThread \in Threads
    BY DEF Threads
  <2> QED
    BY <1>6, <2>1, CallIsNext DEF ReaderUpdates, Next, P!Update
<1>7. ASSUME NEW t \in Threads, CallbackRuns(t)
      PROVE  [Next]_vars /\ PP!Next
  <2>1. cache' = cache
    BY <1>7 DEF CallbackRuns, P!FinishCall, P!SetGraphChanged, P!NotifyAndReturn,
       P!cacheVars
  <2> QED
    BY <1>7, <2>1, BookkeepingKept, CallIsNext DEF CallbackRuns
<1>8. CASE PublisherRuns \/ PublisherWakes
  <2>1. cache' = cache
    BY <1>8 DEF PublisherRuns, PublisherWakes, P!WaitForChange, P!LockMtx,
       P!ConsumeChange, P!FindUnchanged, P!FallAsleep, P!WakeSpuriously,
       P!CollectAndWrite, P!GetNodeNames, P!GetWriters, P!GetReaders, P!GetServers,
       P!GetClients, P!Write, P!Query, P!cacheVars
  <2> QED
    BY <1>8, <2>1, BookkeepingKept, SamePublisher
    DEF PublisherRuns, PublisherWakes, PP!Next
<1>9. CASE PeersAct
  <2>1. cache' = cache
    BY <1>9 DEF PeersAct, PeerSteps, PeerAppears, PeerAnnounces, PeerCreates,
       PeerDeletes, PeerLeaves
  <2> QED
    BY <1>9, <2>1, OutsideKept DEF PeersAct, Next
<1>10. CASE UNCHANGED managerVars
  BY <1>10, OutsideKept, BookkeepingKept DEF managerVars
<1> QED
  BY <1>1, <1>2, <1>3, <1>4, <1>5, <1>6, <1>7, <1>8, <1>9, <1>10
  DEF ManagerNext, ServerRuns, ListenerRuns, ReaderRuns, Threads

-----------------------------------------------------------------------------
(***************************************************************************)
(* The topics of the endpoints in the cache.                               *)
(***************************************************************************)
TopicsKept ==
  /\ cache.writers = [e \in DOMAIN cache.writers |-> TopicOf[e]]
  /\ cache.readers = [e \in DOMAIN cache.readers |-> TopicOf[e]]

LEMMA EntityTopics ==
  ASSUME CacheOK(cache), TopicsKept, NEW e,
         cache' = AddEntityTo(cache, e) \/ cache' = RemoveEntityFrom(cache, e)
  PROVE  TopicsKept'
<1>1. CASE cache' = cache
  BY <1>1 DEF TopicsKept
<1>2. CASE cache' = [cache EXCEPT !.writers = GC!Put(@, e, TopicOf[e])]
  BY <1>2 DEF TopicsKept, CacheOK, GC!Put
<1>3. CASE cache' = [cache EXCEPT !.readers = GC!Put(@, e, TopicOf[e])]
  BY <1>3 DEF TopicsKept, CacheOK, GC!Put
<1>4. CASE cache' = [cache EXCEPT !.writers = GC!Without(@, e)]
  BY <1>4 DEF TopicsKept, CacheOK, GC!Without, GC!Restrict
<1>5. CASE cache' = [cache EXCEPT !.readers = GC!Without(@, e)]
  BY <1>5 DEF TopicsKept, CacheOK, GC!Without, GC!Restrict
<1> QED
  BY <1>1, <1>2, <1>3, <1>4, <1>5 DEF AddEntityTo, RemoveEntityFrom, GC!AddWriter,
     GC!AddReader, GC!RemoveWriter, GC!RemoveReader

\* Every other call is about the nodes of a participant.
LEMMA OtherTopics ==
  ASSUME CacheOK(cache), TopicsKept,
         cache' = cache \/ \E x : cache' = [cache EXCEPT !.participants = x]
  PROVE  TopicsKept'
BY DEF TopicsKept, CacheOK

LEMMA ParticipantCalls ==
  ASSUME NEW c, CacheOK(c), NEW p, NEW n, NEW e, NEW nodes,
         NEW d \in {GC!AddParticipant(c, p), GC!RemoveParticipant(c, p),
                    GC!UpdateParticipantEntities(c, p, nodes), GC!AddNode(c, p, n),
                    GC!AssociateWriter(c, e, p, n), GC!AssociateReader(c, e, p, n)}
  PROVE  d = c \/ \E x : d = [c EXCEPT !.participants = x]
BY DEF GC!AddParticipant, GC!RemoveParticipant, GC!UpdateParticipantEntities, GC!AddNode,
   GC!AssociateWriter, GC!AssociateReader

LEMMA NextTopics == IInv /\ TopicsKept /\ [Next]_vars => TopicsKept'
<1> SUFFICES ASSUME IInv, TopicsKept, [Next]_vars PROVE TopicsKept'
  OBVIOUS
<1>1. CacheOK(cache)
  BY DEF IInv, Types
<1>2. CASE \/ AddEntity \/ RemoveEntity
           \/ \E p \in Participants : OnEntityDiscovered(p) \/ OnEntityRemoved(p)
  BY <1>1, <1>2, EntityTopics DEF AddEntity, RemoveEntity, OnEntityDiscovered,
     OnEntityRemoved
<1>3. CASE \/ AddParticipant \/ RemoveParticipant \/ AddNode \/ AssociateEntity
           \/ UpdateNodeEntitiesInfo
           \/ \E p \in Participants :
                OnParticipantDiscovered(p) \/ OnParticipantRemoved(p)
  <2>1. \/ cache' = cache
        \/ \E p, n, e, nodes :
             cache' \in {GC!AddParticipant(cache, p), GC!RemoveParticipant(cache, p),
                        GC!UpdateParticipantEntities(cache, p, nodes),
                        GC!AddNode(cache, p, n), GC!AssociateWriter(cache, e, p, n),
                        GC!AssociateReader(cache, e, p, n)}
    BY <1>3 DEF AddParticipant, RemoveParticipant, AddNode, AssociateEntity,
       UpdateNodeEntitiesInfo, OnParticipantDiscovered, OnParticipantRemoved
  <2> QED
    BY <1>1, <2>1, ParticipantCalls, OtherTopics
<1>4. CASE \/ XrceStarts \/ FirstWrite \/ LastWrite \/ DeleteAuxiliary \/ WriteInfo
           \/ \E p \in Participants : TakeSample(p)
           \/ PeerSteps \/ UNCHANGED vars
  <2>1. cache' = cache
    BY <1>4 DEF XrceStarts, OnCreateParticipant, OnDeleteParticipant,
       CreateObject, DeleteObject, OnCreateDatawriter, OnDeleteDatawriter,
       OnCreateDatareader, OnDeleteDatareader, OnCreateRequester, OnDeleteRequester,
       OnCreateReplier, OnDeleteReplier, FirstWrite, LastWrite, DeleteAuxiliary,
       WriteInfo, TakeSample, PeerSteps, PeerAppears, PeerAnnounces, PeerCreates,
       PeerDeletes, PeerLeaves, vars
  <2> QED
    BY <1>1, <2>1, OtherTopics
<1> QED
  BY <1>2, <1>3, <1>4 DEF Next, XrceCalls, Listen

-----------------------------------------------------------------------------
(***************************************************************************)
(* What is published of a cache depends on its nodes and endpoints alone:  *)
(* a participant without nodes may be known or not.                        *)
(***************************************************************************)
SameNodes(c, d) ==
  \A p, n : /\ PP!GC!HasNode(c, p, n) <=> PP!GC!HasNode(d, p, n)
            /\ PP!GC!HasNode(c, p, n) => c.participants[p][n] = d.participants[p][n]

LEMMA SameNodeNames ==
  ASSUME NEW c, NEW d, SameNodes(c, d)
  PROVE  PP!GC!NodeNames(c) = PP!GC!NodeNames(d)
<1>1. \A n : n \in PP!GC!NodeNames(c) <=> \E p : PP!GC!HasNode(c, p, n)
  BY DEF PP!GC!NodeNames, PP!GC!HasNode, PP!GC!Knows
<1>2. \A n : n \in PP!GC!NodeNames(d) <=> \E p : PP!GC!HasNode(d, p, n)
  BY DEF PP!GC!NodeNames, PP!GC!HasNode, PP!GC!Knows
<1>3. \A n : n \in PP!GC!NodeNames(c) <=> n \in PP!GC!NodeNames(d)
  BY <1>1, <1>2 DEF SameNodes
<1> QED
  BY <1>3

\* Of the participants that have a node n the first one answers for it.
OwnersOf(c, n) == {p \in DOMAIN c.participants : PP!GC!HasNode(c, p, n)}
First(S) == CHOOSE p \in S : \A q \in S \ {p} : <<p, q>> \in Before

LEMMA FirstAnswers ==
  ASSUME NEW c, NEW n
  PROVE  PP!GC!NodeInfo(c, n) = c.participants[First(OwnersOf(c, n))][n]
BY Zenon DEF PP!GC!NodeInfo, First, OwnersOf

LEMMA FirstIsOne ==
  ASSUME NEW S \in SUBSET Participants, S # {}
  PROVE  First(S) \in S
BY GidOrder DEF First

LEMMA SameNodeInfo ==
  ASSUME NEW c, NEW d, SameNodes(c, d), DOMAIN c.participants \subseteq Participants,
         NEW n \in PP!GC!NodeNames(c)
  PROVE  PP!GC!NodeInfo(c, n) = PP!GC!NodeInfo(d, n)
<1> DEFINE first == First(OwnersOf(c, n))
<1>1. \A p : p \in OwnersOf(c, n) <=> p \in OwnersOf(d, n)
  BY DEF SameNodes, OwnersOf, PP!GC!HasNode, PP!GC!Knows
<1>2. OwnersOf(c, n) = OwnersOf(d, n)
  BY <1>1
<1>3. OwnersOf(c, n) \in SUBSET Participants /\ OwnersOf(c, n) # {}
  BY DEF OwnersOf, PP!GC!NodeNames, PP!GC!HasNode, PP!GC!Knows
<1>4. first \in OwnersOf(c, n)
  BY <1>3, FirstIsOne
<1>5. /\ PP!GC!NodeInfo(c, n) = c.participants[first][n]
      /\ PP!GC!NodeInfo(d, n) = d.participants[first][n]
  BY <1>2, FirstAnswers
<1>6. PP!GC!HasNode(c, first, n)
  BY <1>4 DEF OwnersOf
<1> QED
  BY <1>5, <1>6 DEF SameNodes

LEMMA SameSnapshot ==
  ASSUME NEW c, NEW d, SameNodes(c, d), DOMAIN c.participants \subseteq Participants,
         c.writers = d.writers, c.readers = d.readers
  PROVE  PP!Snapshot(c) = PP!Snapshot(d)
<1>1. PP!GC!NodeNames(c) = PP!GC!NodeNames(d)
  BY SameNodeNames
<1>2. ASSUME NEW n \in PP!GC!NodeNames(c)
      PROVE  PP!NodeMessage(c, n) = PP!NodeMessage(d, n)
  <2>1. PP!GC!NodeInfo(c, n) = PP!GC!NodeInfo(d, n)
    BY <1>2, SameNodeInfo
  <2> QED
    BY <2>1 DEF PP!NodeMessage, PP!GC!WriterNamesByNode, PP!GC!ReaderNamesByNode,
       PP!GC!AllNames
<1> QED
  BY <1>1, <1>2 DEF PP!Snapshot

-----------------------------------------------------------------------------
(***************************************************************************)
(* At rest the cache is the domain.                                        *)
(***************************************************************************)
LEMMA RestingNodes ==
  ASSUME VInv, AtRest
  PROVE  SameNodes(cache, Domain)
<1>1. ASSUME NEW p \in Participants
      PROVE  View!Settled(p)
  <2>1. ~Busy(p)
    BY ObjectsAssumption DEF AtRest, Busy, BeingApplied, NothingTaken
  <2> QED
    BY <2>1, VInvShown DEF Shown
<1>2. DOMAIN cache.participants \subseteq Participants
  BY DEF VInv, IInv, Types, CacheOK
<1>3. ASSUME NEW p \in Announcers
      PROVE  GC!Knows(cache, p) /\ Domain.participants[p] = cache.participants[p]
  <2>1. GC!Knows(cache, p) /\ announced[p] = {cache.participants[p]}
    BY <1>1 DEF View!Settled, NoSample, Announcers
  <2>2. Domain.participants[p] = NodesIn(announced[p])
    BY DEF Domain
  <2> QED
    BY <2>1, <2>2 DEF NodesIn
<1>4. ASSUME NEW p \in Participants, p \notin Announcers, GC!Knows(cache, p)
      PROVE  DOMAIN cache.participants[p] = {}
  BY <1>1, <1>4 DEF View!Settled, NoSample, GC!NoEntries, Announcers
<1>5. DOMAIN Domain.participants = Announcers
  BY DEF Domain
<1> QED
  BY <1>2, <1>3, <1>4, <1>5 DEF SameNodes, PP!GC!HasNode, PP!GC!Knows, GC!Knows

LEMMA RestingTopics ==
  ASSUME VInv, TopicsKept, AtRest
  PROVE  cache.writers = Domain.writers /\ cache.readers = Domain.readers
<1>1. Known = Existing
  BY RestingEndpoints DEF VInv, EndpointsExist, Known, Existing
<1>2. /\ DOMAIN cache.writers \subseteq Writers /\ DOMAIN cache.readers \subseteq Readers
      /\ Writers \intersect Readers = {}
  BY EndpointsAssumption DEF VInv, IInv, Types, CacheOK
<1>3. /\ DOMAIN cache.writers = Existing \intersect Writers
      /\ DOMAIN cache.readers = Existing \intersect Readers
  BY <1>1, <1>2 DEF Known
<1> QED
  BY <1>3 DEF TopicsKept, Domain

-----------------------------------------------------------------------------
(***************************************************************************)
(* The theorems.                                                           *)
(***************************************************************************)
WInv == VInv /\ TopicsKept /\ PP!Inv

LEMMA InitW == ManagerInit => WInv
<1>1. Init => TopicsKept
  BY DEF Init, TopicsKept, GC!EmptyCache, GC!NoEntries
<1> QED
  BY <1>1, InitParts, InitVInv, PP!InitInv, ThreadsAreCallers DEF WInv

LEMMA NextW == WInv /\ [ManagerNext]_managerVars => WInv'
<1> SUFFICES ASSUME WInv, [ManagerNext]_managerVars PROVE WInv'
  OBVIOUS
<1>1. [Next]_vars /\ [PP!Next]_PP!vars
  BY NextParts DEF WInv, VInv
<1>2. VInv' /\ TopicsKept'
  BY <1>1, NextVInv, NextTopics DEF WInv, VInv
<1>3. PP!Inv'
  BY <1>1, PP!NextInv, ThreadsAreCallers DEF WInv
<1> QED
  BY <1>2, <1>3 DEF WInv

LEMMA WholeInductive == ManagerSpec => []WInv
BY InitW, NextW, PTL DEF ManagerSpec

\* The whole bookkeeps as GraphManager does, whatever its threads do meanwhile
\* in the cache's mutex, in the on-change callback and in the constructor
\* (graph_manager.cpp:130-137, 304-474, 551-563, 609-778).
THEOREM Bookkeeps == ManagerSpec => Init /\ [][Next]_vars
<1>1. ManagerInit => Init
  BY DEF ManagerInit
<1>2. WInv /\ [ManagerNext]_managerVars => [Next]_vars
  BY NextParts DEF WInv, VInv
<1> QED
  BY <1>1, <1>2, WholeInductive, PTL DEF ManagerSpec

\* The whole publishes as MicrorosGraph does: the calls that it makes into the
\* cache are calls that the publication copes with (graph_manager.cpp:130-302).
THEOREM Publishes == ManagerSpec => PP!Init /\ [][PP!Next]_PP!vars
<1>1. ManagerInit => PP!Init
  BY InitParts
<1>2. WInv /\ [ManagerNext]_managerVars => [PP!Next]_PP!vars
  BY NextParts DEF WInv, VInv
<1> QED
  BY <1>1, <1>2, WholeInductive, PTL DEF ManagerSpec

LEMMA SamePublication ==
  /\ P!Pending <=> PP!Pending
  /\ P!MessageDue <=> PP!MessageDue
  /\ P!Snapshot(Domain) = PP!Snapshot(Domain)
<1>1. (P!Pending <=> PP!Pending) /\ (P!MessageDue <=> PP!MessageDue)
  BY DEF P!Pending, PP!Pending, P!MessageDue, PP!MessageDue
<1>2. P!Snapshot(Domain) = PP!Snapshot(Domain)
  BY DEF P!Snapshot, PP!Snapshot, P!NodeMessage, PP!NodeMessage, P!GC!NodeNames,
     PP!GC!NodeNames, P!GC!WriterNamesByNode, PP!GC!WriterNamesByNode,
     P!GC!ReaderNamesByNode, PP!GC!ReaderNamesByNode, P!GC!AllNames, PP!GC!AllNames,
     P!GC!NamesOf, PP!GC!NamesOf, P!GC!NodeInfo, PP!GC!NodeInfo, P!GC!HasNode,
     PP!GC!HasNode, P!GC!Knows, PP!GC!Knows
<1> QED
  BY <1>1, <1>2

LEMMA RestIsShown == WInv => GraphPublished
<1> SUFFICES ASSUME WInv, AtRest, ~P!Pending, ~P!MessageDue
             PROVE  published = P!Snapshot(Domain)
  BY DEF GraphPublished
<1>1. published = PP!Snapshot(cache)
  BY SamePublication DEF WInv, PP!Inv, PP!FreshAtRest
<1>2. SameNodes(cache, Domain)
  BY RestingNodes DEF WInv
<1>3. cache.writers = Domain.writers /\ cache.readers = Domain.readers
  BY RestingTopics DEF WInv
<1>4. DOMAIN cache.participants \subseteq Participants
  BY DEF WInv, VInv, IInv, Types, CacheOK
<1>5. PP!Snapshot(cache) = PP!Snapshot(Domain)
  BY <1>2, <1>3, <1>4, SameSnapshot
<1> QED
  BY <1>1, <1>5, SamePublication

\* With nothing left to do for the listeners, the callbacks and the publisher,
\* the sample that was written last on ros_to_microros_graph is the graph of
\* the domain: its live participants' nodes and its endpoints
\* (graph_manager.cpp:130-302, 304-474, 551-563, 609-778).
THEOREM DomainIsPublished == ManagerSpec => []GraphPublished
BY RestIsShown, WholeInductive, PTL

-----------------------------------------------------------------------------
(***************************************************************************)
(* The whole implements GraphMirror.                                       *)
(***************************************************************************)

\* Only the end of a round publishes.
LEMMA OnlyRoundsPublish ==
  ASSUME [ManagerNext]_managerVars
  PROVE  published' = published \/ (P!MessageDue /\ UNCHANGED vars)
<1>1. ASSUME NEW t, P!Update(t) \/ P!FinishCall(t) \/ P!Construct
      PROVE  published' = published
  BY <1>1 DEF P!Update, P!AddParticipant, P!RemoveParticipant,
     P!UpdateParticipantEntities, P!AddNode, P!AssociateEntity, P!AddDatawriter,
     P!RemoveDatawriter, P!AddDatareader, P!RemoveDatareader, P!CacheCall, P!FinishCall,
     P!SetGraphChanged, P!NotifyAndReturn, P!Construct, P!SetOnChangeCallback,
     P!StartPublisher, P!AddFirstParticipant
<1>2. UNCHANGED publication => published' = published
  BY DEF publication
<1>3. CASE ServerStarts \/ PeersAct
  BY <1>2, <1>3 DEF ServerStarts, PeersAct
<1>4. CASE ServerRuns \/ ListenerRuns \/ ReaderRuns
  BY <1>1, <1>2, <1>4
  DEF ServerRuns, Construct, ServerCalls, CallbackRuns, ListenerRuns, ListenerReports,
      ReaderRuns, ReaderTakes, ReaderUpdates, AddsEntity, RemovesEntity, OutsideCache,
      P!Update, P!Construct
<1>5. CASE PublisherRuns \/ PublisherWakes
  <2>1. CASE P!Write
    <3>1. P!MessageDue /\ cache' = cache
      BY <2>1 DEF P!Write, P!MessageDue, P!cacheVars
    <3> QED
      BY <1>5, <3>1, BookkeepingKept DEF PublisherRuns, PublisherWakes
  <2>2. CASE ~P!Write
    BY <1>5, <2>2 DEF PublisherRuns, PublisherWakes, P!WaitForChange, P!LockMtx,
       P!ConsumeChange, P!FindUnchanged, P!FallAsleep, P!WakeSpuriously,
       P!CollectAndWrite, P!GetNodeNames, P!GetWriters, P!GetReaders, P!GetServers,
       P!GetClients, P!Query
  <2> QED
    BY <2>1, <2>2
<1>6. CASE UNCHANGED managerVars
  BY <1>2, <1>6 DEF managerVars
<1> QED
  BY <1>3, <1>4, <1>5, <1>6 DEF ManagerNext

\* What the domain is made of.
LEMMA DomainFrame ==
  ASSUME Existing' = Existing,
         \A p \in Participants : life'[p] = life[p] /\ announced'[p] = announced[p]
  PROVE  Domain' = Domain
<1>1. Announcers' = Announcers
  BY DEF Announcers, Live
<1>2. \A p \in Announcers : announced'[p] = announced[p]
  BY DEF Announcers
<1> QED
  BY <1>1, <1>2 DEF Domain

LEMMA DomainStutters ==
  ASSUME UNCHANGED vars
  PROVE  Domain' = Domain
<1>1. life' = life /\ announced' = announced
  BY DEF vars, dds, samples
<1>2. Existing' = Existing
  BY <1>1 DEF Existing, Live
<1> QED
  BY <1>1, <1>2, DomainFrame

\* Whatever changes the domain leaves something to be reported or delivered.
LEMMA RestKeepsDomain ==
  ASSUME VInv, [Next]_vars, AtRest'
  PROVE  Domain' = Domain
<1>1. CASE UNCHANGED vars
  BY <1>1, DomainStutters
<1>2. CASE Next
  <2>1. PICK c \in Participants : StepAbout(c)
    BY <1>2, NextAbout DEF VInv
  <2>2. ~Busy(c)'
    BY ObjectsAssumption DEF AtRest, Busy, BeingApplied, NothingTaken
  <2>3. \A p \in Participants : life'[p] = life[p] /\ announced'[p] = announced[p]
    BY <2>1, <2>2 DEF StepAbout, LeavesOthers
  <2>4. \A o \in Objects : life'[o] = life[o]
    BY <2>1, <2>2 DEF StepAbout, EndpointsAbout
  <2>5. Existing' = Existing
    BY <2>4 DEF Existing, Live
  <2> QED
    BY <2>3, <2>5, DomainFrame
<1> QED
  BY <1>1, <1>2

LEMMA NextDomainMirror ==
  ASSUME WInv, GraphPublished, GraphPublished', [ManagerNext]_managerVars
  PROVE  [DomainMirror!Next]_(DomainMirror!vars)
<1> DEFINE owed == ~AtRest \/ P!Pending \/ P!MessageDue
<1>1. [Next]_vars
  BY NextParts DEF WInv, VInv
<1>2. CASE owed' /\ published' = published
  BY <1>2 DEF DomainMirror!Next, DomainMirror!Change
\* A round that does not see the last change, or ends amid a callback.
<1>3. CASE owed' /\ published' # published
  <2>1. owed /\ UNCHANGED vars
    BY <1>3, OnlyRoundsPublish
  <2>2. Domain' = Domain
    BY <2>1, DomainStutters
  <2>3. P!Snapshot(Domain)' = P!Snapshot(Domain)
    BY <2>2
  <2> QED
    BY <1>3, <2>1, <2>3 DEF DomainMirror!Next, DomainMirror!PublishTorn
<1>4. CASE ~owed'
  <2>1. P!Snapshot(Domain)' = P!Snapshot(Domain)
    <3>1. Domain' = Domain
      BY <1>1, <1>4, RestKeepsDomain DEF WInv
    <3> QED
      BY <3>1
  <2>2. published' = P!Snapshot(Domain)'
    BY <1>4 DEF GraphPublished
  <2>3. CASE owed
    BY <1>4, <2>1, <2>2, <2>3 DEF DomainMirror!Next, DomainMirror!Publish
  <2>4. CASE ~owed
    <3>1. published = P!Snapshot(Domain)
      BY <2>4 DEF GraphPublished
    <3> QED
      BY <1>4, <2>1, <2>2, <2>4, <3>1 DEF DomainMirror!vars
  <2> QED
    BY <2>3, <2>4
<1> QED
  BY <1>2, <1>3, <1>4

\* Every behaviour of the whole is one of the abstract mirror of the domain: the
\* publication of what happens there may be late but is never silently dropped
\* (graph_manager.cpp:130-302, 304-474, 551-563, 609-778).
THEOREM ImplementsDomainMirror == ManagerSpec => DomainMirrorSpec
<1>1. ManagerInit => DomainMirror!Init
  BY DEF ManagerInit, P!Init, P!Pending, Threads, DomainMirror!Init
<1>2. WInv /\ GraphPublished /\ GraphPublished' /\ [ManagerNext]_managerVars
      => [DomainMirror!Next]_(DomainMirror!vars)
  BY NextDomainMirror
<1> QED
  BY <1>1, <1>2, WholeInductive, DomainIsPublished,
     PTL DEF ManagerSpec, DomainMirrorSpec, DomainMirror!Spec
=============================================================================
