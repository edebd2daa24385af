------------------------- MODULE MicrorosGraphProofs ------------------------
(***************************************************************************)
(* Proofs about MicrorosGraph, for every number of callers and every value *)
(* of the other constants: no wake-up of the publisher is lost, the mirror *)
(* is fresh whenever the publisher is at rest, and the publication         *)
(* protocol implements GraphMirror.                                        *)
(*                                                                         *)
(* The operators of GraphCache stay opaque except where a call may change  *)
(* nothing: the protocol works for any cache whose changes are reported.   *)
(***************************************************************************)
EXTENDS MicrorosGraph, TLAPS

(***************************************************************************)
(* The inductive invariant.                                                *)
(***************************************************************************)
CallerStates ==
  {"construct", "start_thread", "add_participant", "idle", "callback", "notify"}

PublisherStates ==
  {"unborn", "lock", "predicate", "block", "asleep", "node_names", "writers",
   "readers", "servers", "clients", "write", "returned", "ended"}

ControlType ==
  /\ cacheMtx \in Callers \union {NoThread}
  /\ mtx \in {Publisher, NoThread}
  /\ onChange \in BOOLEAN
  /\ graphChanged \in BOOLEAN
  /\ pc \in [Callers -> CallerStates]
  /\ pub \in PublisherStates

\* The constructor is the Xrce thread's: until it has installed the callback
\* and started the publisher, a change is still owed.
Startup ==
  /\ onChange <=> pc[Xrce] # "construct"
  /\ pub = "unborn" <=> pc[Xrce] \in {"construct", "start_thread"}
  /\ \A t \in Callers \ {Xrce} : pc[t] \in {"idle", "callback", "notify"}

\* Who holds which mutex.
MutexOwners ==
  /\ \A t \in Callers : pc[t] \in {"callback", "notify"} <=> cacheMtx = t
  /\ mtx = Publisher <=> pub \in {"predicate", "block"}

\* Between its test of graph_changed_ and its sleep the publisher holds mtx_.
BlockUnchanged == pub = "block" => ~graphChanged

\* The node whose message is being built.
Building ==
  IF pub \in {"readers", "servers", "clients"} THEN {current.node} ELSE {}

\* With no change pending, what the publisher has collected so far is what the
\* cache still holds, as long as no query has run out of memory.
Collected ==
  pub \in {"writers", "readers", "servers", "clients", "write"} =>
    /\ todo \union DOMAIN graphMessage \union Building = GC!NodeNames(cache)
    /\ graphMessage =
         [n \in DOMAIN graphMessage |-> NodeMessage(cache, n)]
    /\ pub = "write" => todo = {}
    /\ pub \in {"readers", "servers", "clients"} =>
         current.publishers = GC!WriterNamesByNode(cache, current.node)
    /\ pub \in {"servers", "clients"} =>
         current.subscribers = GC!ReaderNamesByNode(cache, current.node)
    /\ pub = "clients" => current.servers = GC!AllNames(cache, "request")

Inv ==
  /\ ControlType
  /\ Startup
  /\ MutexOwners
  /\ BlockUnchanged
  /\ NoLostWakeup
  /\ ~Pending /\ ~cutShort => Collected
  /\ FreshAtRest

-----------------------------------------------------------------------------
(***************************************************************************)
(* What a caller's call into the cache may do to the state, whichever      *)
(* method it is: nothing at all, a change that goes unreported because the *)
(* callback is not installed yet, or a change that runs the callback.      *)
(***************************************************************************)
CacheStep(t) ==
  /\ cacheMtx = NoThread
  /\ UNCHANGED <<onChange, mtx, graphChanged, pub, roundVars, published>>
  /\ \/ /\ pc[t] = "idle"
        /\ cache' = cache \/ ~onChange
        /\ pc' = pc
        /\ cacheMtx' = cacheMtx
     \/ /\ pc[t] \in {"idle", "add_participant"}
        /\ pc' = [pc EXCEPT ![t] = "callback"]
        /\ cacheMtx' = t

\* A call made from idle that changes the cache only when it says so.
LEMMA CacheCallIsCacheStep ==
  ASSUME NEW t \in Callers, NEW c, NEW changed \in BOOLEAN,
         ControlType, pc[t] = "idle", CacheCall(t, c, changed),
         ~changed => c = cache
  PROVE  CacheStep(t)
BY DEF CacheCall, CacheStep, ControlType, roundVars

\* Every method of the cache that the program calls is such a call.
LEMMA UpdateIsCacheStep ==
  ASSUME NEW t \in Callers, ControlType, Update(t)
  PROVE  CacheStep(t)
<1>1. CASE AddParticipant(t)
  BY <1>1, CacheCallIsCacheStep DEF AddParticipant
<1>2. CASE RemoveParticipant(t)
  <2>1. PICK p \in Participants :
          /\ pc[t] = "idle"
          /\ CacheCall(t, GC!RemoveParticipant(cache, p), GC!Knows(cache, p))
    BY <1>2 DEF RemoveParticipant
  <2>2. GC!Knows(cache, p) \in BOOLEAN
    BY DEF GC!Knows
  <2>3. ~GC!Knows(cache, p) => GC!RemoveParticipant(cache, p) = cache
    BY DEF GC!RemoveParticipant
  <2> QED
    BY <2>1, <2>2, <2>3, CacheCallIsCacheStep
<1>3. CASE UpdateParticipantEntities(t)
  BY <1>3, CacheCallIsCacheStep DEF UpdateParticipantEntities
<1>4. CASE AddNode(t)
  BY <1>4, CacheCallIsCacheStep DEF AddNode
<1>5. CASE AssociateEntity(t)
  BY <1>5, CacheCallIsCacheStep DEF AssociateEntity
<1>6. CASE AddDatawriter(t)
  <2>1. \A e, topic : ~(e \notin DOMAIN cache.writers) =>
                        GC!AddWriter(cache, e, topic) = cache
    BY DEF GC!AddWriter
  <2> QED
    BY <1>6, <2>1, CacheCallIsCacheStep DEF AddDatawriter
<1>7. CASE RemoveDatawriter(t)
  <2>1. PICK e \in Writers :
          /\ pc[t] = "idle"
          /\ CacheCall(t, GC!RemoveWriter(cache, e), e \in DOMAIN cache.writers)
    BY <1>7 DEF RemoveDatawriter
  <2>2. ~(e \in DOMAIN cache.writers) => GC!RemoveWriter(cache, e) = cache
    BY DEF GC!RemoveWriter
  <2>3. (e \in DOMAIN cache.writers) \in BOOLEAN
    OBVIOUS
  <2> QED
    BY <2>1, <2>2, <2>3, CacheCallIsCacheStep
<1>8. CASE AddDatareader(t)
  <2>1. \A e, topic : ~(e \notin DOMAIN cache.readers) =>
                        GC!AddReader(cache, e, topic) = cache
    BY DEF GC!AddReader
  <2> QED
    BY <1>8, <2>1, CacheCallIsCacheStep DEF AddDatareader
<1>9. CASE RemoveDatareader(t)
  <2>1. PICK e \in Readers :
          /\ pc[t] = "idle"
          /\ CacheCall(t, GC!RemoveReader(cache, e), e \in DOMAIN cache.readers)
    BY <1>9 DEF RemoveDatareader
  <2>2. ~(e \in DOMAIN cache.readers) => GC!RemoveReader(cache, e) = cache
    BY DEF GC!RemoveReader
  <2>3. (e \in DOMAIN cache.readers) \in BOOLEAN
    OBVIOUS
  <2> QED
    BY <2>1, <2>2, <2>3, CacheCallIsCacheStep
<1> QED
  BY <1>1, <1>2, <1>3, <1>4, <1>5, <1>6, <1>7, <1>8, <1>9 DEF Update

\* The first add_participant always reports a change, and the callback is
\* installed by then.
LEMMA FirstParticipantIsCacheStep ==
  ASSUME Startup, AddFirstParticipant
  PROVE  CacheStep(Xrce)
BY DEF Startup, AddFirstParticipant, CacheCall, CacheStep, roundVars

-----------------------------------------------------------------------------
(***************************************************************************)
(* The callers preserve the invariant.                                     *)
(***************************************************************************)
LEMMA CacheStepKeepsInv ==
  ASSUME Inv, NEW t \in Callers, CacheStep(t)
  PROVE  Inv'
<1> USE ThreadsAssumption
<1>1. ControlType'
  BY DEF Inv, ControlType, CallerStates, PublisherStates, CacheStep
<1>2. Startup' /\ MutexOwners'
  BY DEF Inv, ControlType, CallerStates, Startup, MutexOwners, CacheStep
<1>3. BlockUnchanged' /\ NoLostWakeup'
  BY DEF Inv, ControlType, MutexOwners, BlockUnchanged, NoLostWakeup, CacheStep
\* Either the step leaves the cache alone or it makes a change pending.
<1>4. ~Pending' => ~Pending /\ cache' = cache
  BY DEF Inv, ControlType, Startup, Pending, CacheStep
<1>5. (~Pending /\ ~cutShort => Collected)'
  BY <1>4 DEF Inv, Collected, Building, CacheStep, roundVars
<1>6. FreshAtRest'
  BY <1>4 DEF Inv, FreshAtRest, MessageDue, CacheStep, roundVars
<1> QED
  BY <1>1, <1>2, <1>3, <1>5, <1>6 DEF Inv

LEMMA CallbackKeepsInv ==
  ASSUME Inv, NEW t \in Callers, FinishCall(t)
  PROVE  Inv'
<1> USE ThreadsAssumption
<1>1. CASE SetGraphChanged(t)
  <2>1. ControlType'
    BY <1>1 DEF Inv, ControlType, CallerStates, SetGraphChanged, cacheVars
  <2>2. Startup' /\ MutexOwners'
    BY <1>1 DEF Inv, ControlType, CallerStates, Startup, MutexOwners,
                SetGraphChanged, cacheVars
  \* The publisher cannot be between its test and its sleep: it would hold mtx_.
  <2>3. BlockUnchanged' /\ NoLostWakeup'
    BY <1>1 DEF Inv, ControlType, MutexOwners, BlockUnchanged, NoLostWakeup,
                SetGraphChanged
  <2>4. Pending'
    BY <1>1 DEF SetGraphChanged, Pending
  <2> QED
    BY <2>1, <2>2, <2>3, <2>4 DEF Inv, FreshAtRest
<1>2. CASE NotifyAndReturn(t)
  <2>1. ControlType'
    BY <1>2 DEF Inv, ControlType, CallerStates, PublisherStates, NotifyAndReturn
  <2>2. Startup' /\ MutexOwners'
    BY <1>2 DEF Inv, ControlType, CallerStates, Startup, MutexOwners,
                NotifyAndReturn
  <2>3. BlockUnchanged' /\ NoLostWakeup'
    BY <1>2 DEF Inv, ControlType, BlockUnchanged, NoLostWakeup, NotifyAndReturn
  <2>4. ~Pending' => ~Pending
    BY <1>2 DEF Inv, ControlType, Pending, NotifyAndReturn
  <2>5. (~Pending /\ ~cutShort => Collected)'
    BY <1>2, <2>4 DEF Inv, Collected, Building, NotifyAndReturn, roundVars
  <2>6. FreshAtRest'
    BY <1>2, <2>4 DEF Inv, FreshAtRest, MessageDue, NotifyAndReturn, roundVars
  <2> QED
    BY <2>1, <2>2, <2>3, <2>5, <2>6 DEF Inv
<1> QED
  BY <1>1, <1>2 DEF FinishCall

LEMMA ConstructKeepsInv ==
  ASSUME Inv, Construct
  PROVE  Inv'
<1> USE ThreadsAssumption
<1>1. CASE SetOnChangeCallback
  <2>1. ControlType' /\ Startup' /\ MutexOwners'
    BY <1>1 DEF Inv, ControlType, CallerStates, Startup, MutexOwners,
                SetOnChangeCallback
  <2>2. BlockUnchanged' /\ NoLostWakeup'
    BY <1>1 DEF Inv, ControlType, BlockUnchanged, NoLostWakeup,
                SetOnChangeCallback
  <2>3. Pending'
    BY <1>1 DEF Inv, ControlType, Pending, SetOnChangeCallback
  <2> QED
    BY <2>1, <2>2, <2>3 DEF Inv, FreshAtRest
<1>2. CASE StartPublisher
  <2>1. ControlType' /\ Startup' /\ MutexOwners'
    BY <1>2 DEF Inv, ControlType, CallerStates, PublisherStates, Startup,
                MutexOwners, StartPublisher, cacheVars
  <2>2. BlockUnchanged' /\ NoLostWakeup'
    BY <1>2 DEF Inv, ControlType, BlockUnchanged, NoLostWakeup, StartPublisher
  <2>3. Pending'
    BY <1>2 DEF Inv, ControlType, Pending, StartPublisher
  <2> QED
    BY <2>1, <2>2, <2>3 DEF Inv, FreshAtRest
<1>3. CASE AddFirstParticipant
  BY <1>3, FirstParticipantIsCacheStep, CacheStepKeepsInv DEF Inv
<1> QED
  BY <1>1, <1>2, <1>3 DEF Construct

-----------------------------------------------------------------------------
(***************************************************************************)
(* The publisher preserves the invariant.                                  *)
(***************************************************************************)
LEMMA WaitKeepsInv ==
  ASSUME Inv, WaitForChange \/ WakeSpuriously
  PROVE  Inv'
<1> USE ThreadsAssumption
<1>1. ControlType' /\ Startup' /\ MutexOwners'
  BY DEF Inv, ControlType, PublisherStates, Startup, MutexOwners, cacheVars,
         WaitForChange, LockMtx, ConsumeChange, FindUnchanged, FallAsleep,
         WakeSpuriously
<1>2. BlockUnchanged' /\ NoLostWakeup'
  BY DEF Inv, ControlType, BlockUnchanged, NoLostWakeup,
         WaitForChange, LockMtx, ConsumeChange, FindUnchanged, FallAsleep,
         WakeSpuriously
<1>3. CASE ConsumeChange
  <2>1. pub' = "node_names"
    BY <1>3 DEF ConsumeChange
  <2> QED
    BY <1>1, <1>2, <2>1 DEF Inv, Collected, MessageDue, FreshAtRest
<1>4. CASE LockMtx \/ FindUnchanged \/ FallAsleep \/ WakeSpuriously
  <2>1. /\ UNCHANGED <<cacheVars, graphChanged, pc, roundVars, published>>
        /\ pub \in {"lock", "predicate", "block", "asleep"}
        /\ pub' \in {"lock", "predicate", "block", "asleep"}
    BY <1>4 DEF LockMtx, FindUnchanged, FallAsleep, WakeSpuriously
  <2>2. ~Pending' => ~Pending
    BY <2>1 DEF Pending
  <2>3. FreshAtRest'
    BY <2>1, <2>2 DEF Inv, FreshAtRest, MessageDue, cacheVars, roundVars
  <2>4. (~Pending /\ ~cutShort => Collected)'
    BY <2>1 DEF Collected
  <2> QED
    BY <1>1, <1>2, <2>3, <2>4 DEF Inv
<1> QED
  BY <1>3, <1>4 DEF WaitForChange

\* What the invariant says of control, for every step of a round.
LEMMA RoundKeepsControl ==
  ASSUME Inv, CollectAndWrite
  PROVE  /\ ControlType' /\ Startup' /\ MutexOwners'
         /\ BlockUnchanged' /\ NoLostWakeup'
         /\ ~Pending' => ~Pending
         /\ cache' = cache
<1> USE ThreadsAssumption
<1>1. /\ UNCHANGED <<cacheVars, mtx, graphChanged, pc>>
      /\ pub \in {"node_names", "writers", "readers", "servers", "clients", "write"}
      /\ pub' \in {"writers", "readers", "servers", "clients", "write", "lock",
                   "returned", "ended"}
  BY DEF CollectAndWrite, GetNodeNames, GetWriters, GetReaders, GetServers,
         GetClients, Write, Query, RunOutOfMemory, LeaveLoop
<1> QED
  BY <1>1 DEF Inv, ControlType, PublisherStates, Startup, MutexOwners,
              BlockUnchanged, NoLostWakeup, Pending, cacheVars

LEMMA RoundKeepsInv ==
  ASSUME Inv, CollectAndWrite
  PROVE  Inv'
<1> SUFFICES (~Pending /\ ~cutShort => Collected)' /\ FreshAtRest'
  BY RoundKeepsControl DEF Inv
<1> SUFFICES ASSUME ~Pending', ~cutShort'
             PROVE  Collected' /\ FreshAtRest'
  BY DEF FreshAtRest, MessageDue
<1>1. ~Pending /\ cache' = cache
  BY RoundKeepsControl
<1>2. Collected \/ GetNodeNames
  <2>1. ASSUME ~GetNodeNames PROVE ~cutShort
    BY <2>1 DEF CollectAndWrite, GetWriters, GetReaders, GetServers, GetClients,
       Write, RunOutOfMemory
  <2> QED
    BY <1>1, <2>1 DEF Inv
<1>3. CASE GetNodeNames
  <2>1. /\ pub' \in {"write", "writers"}
        /\ pub' = "write" => GC!NodeNames(cache) = {}
        /\ todo' = GC!NodeNames(cache)
        /\ graphMessage' = EmptyMessage
    BY <1>3 DEF GetNodeNames
  <2>2. /\ DOMAIN graphMessage' = {}
        /\ graphMessage' = [n \in DOMAIN graphMessage' |-> NodeMessage(cache', n)]
    BY <2>1 DEF EmptyMessage
  <2> QED
    BY <1>1, <2>1, <2>2 DEF Collected, Building, MessageDue, FreshAtRest
\* The queries by node cannot fail: nothing changed since get_node_names.
<1>4. CASE GetWriters
  <2>1. pub = "writers" /\ Collected
    BY <1>2, <1>4 DEF GetWriters, GetNodeNames
  <2>2. \A n \in todo : n \in GC!NodeNames(cache)
    BY <2>1 DEF Collected
  <2>3. PICK n \in todo :
          /\ current' = [node |-> n, publishers |-> GC!WriterNamesByNode(cache, n)]
          /\ todo' = todo \ {n}
          /\ pub' = "readers"
          /\ graphMessage' = graphMessage
    BY <1>4, <2>2 DEF GetWriters, RunOutOfMemory
  <2>4. /\ current'.node = n
        /\ current'.publishers = GC!WriterNamesByNode(cache, n)
    BY <2>3
  <2> QED
    BY <1>1, <2>1, <2>3, <2>4 DEF Collected, Building, MessageDue, FreshAtRest
<1>5. CASE GetReaders
  <2>1. pub = "readers" /\ Collected
    BY <1>2, <1>5 DEF GetReaders, GetNodeNames
  <2>2. current.node \in GC!NodeNames(cache)
    BY <2>1 DEF Collected, Building
  <2>3. /\ UNCHANGED <<todo, graphMessage>>
        /\ current'.node = current.node
        /\ current'.publishers = current.publishers
        /\ current'.subscribers = GC!ReaderNamesByNode(cache, current.node)
        /\ pub' = "servers"
    BY <1>5, <2>2 DEF GetReaders, RunOutOfMemory
  <2> QED
    BY <1>1, <2>1, <2>3 DEF Collected, Building, MessageDue, FreshAtRest
<1>6. CASE GetServers
  <2>1. /\ pub = "servers" /\ UNCHANGED <<todo, graphMessage>>
        /\ Collected
        /\ current'.node = current.node
        /\ current'.publishers = current.publishers
        /\ current'.subscribers = current.subscribers
        /\ current'.servers = GC!AllNames(cache, "request")
        /\ pub' = "clients"
    BY <1>2, <1>6 DEF GetServers, GetNodeNames, RunOutOfMemory
  <2> QED
    BY <1>1, <2>1 DEF Collected, Building, MessageDue, FreshAtRest
<1>7. CASE GetClients
  <2> DEFINE done == DOMAIN graphMessage \union {current.node}
  <2>1. /\ pub = "clients" /\ Collected
        /\ pub' \in {"write", "writers", "returned"}
    BY <1>2, <1>7 DEF GetClients, GetNodeNames, RunOutOfMemory, LeaveLoop
  <2>2. CASE pub' = "returned"
    BY <1>1, <2>2 DEF Collected, MessageDue, FreshAtRest
  <2>3. CASE pub' # "returned"
    <3>1. /\ graphMessage = [n \in DOMAIN graphMessage |-> NodeMessage(cache, n)]
          /\ current.publishers = GC!WriterNamesByNode(cache, current.node)
          /\ current.subscribers = GC!ReaderNamesByNode(cache, current.node)
          /\ current.servers = GC!AllNames(cache, "request")
          /\ todo \union done = GC!NodeNames(cache)
      BY <2>1 DEF Collected, Building
    <3>2. todo' = todo /\ (pub' = "write" => todo = {})
      BY <1>7, <2>3 DEF GetClients, RunOutOfMemory
    <3>3. graphMessage' = [n \in done |-> NodeMessage(cache, n)]
      BY <1>7, <2>3, <3>1 DEF GetClients, NodeMessage, RunOutOfMemory
    <3>4. DOMAIN graphMessage' = done
      BY <3>3
    <3> QED
      BY <1>1, <2>1, <2>3, <3>1, <3>2, <3>3, <3>4
      DEF Collected, Building, MessageDue, FreshAtRest
  <2> QED
    BY <2>2, <2>3
<1>8. CASE Write
  <2>1. /\ pub = "write" /\ Collected
        /\ published' = graphMessage /\ pub' \in {"lock", "ended"}
    BY <1>2, <1>8 DEF Write, GetNodeNames
  <2>2. graphMessage = Snapshot(cache)
    BY <2>1 DEF Collected, Building, Snapshot
  <2> QED
    BY <1>1, <2>1, <2>2 DEF Collected, FreshAtRest
<1> QED
  BY <1>3, <1>4, <1>5, <1>6, <1>7, <1>8 DEF CollectAndWrite

-----------------------------------------------------------------------------
(***************************************************************************)
(* The theorems that follow from the invariant.                            *)
(***************************************************************************)
LEMMA InitInv == Init => Inv
BY ThreadsAssumption
DEF Init, Inv, ControlType, CallerStates, PublisherStates, Startup, MutexOwners,
    BlockUnchanged, NoLostWakeup, Collected, Pending, FreshAtRest

LEMMA NextInv == Inv /\ [Next]_vars => Inv'
<1> SUFFICES ASSUME Inv, [Next]_vars PROVE Inv'
  OBVIOUS
<1>1. CASE \E t \in Callers : Update(t)
  BY <1>1, UpdateIsCacheStep, CacheStepKeepsInv DEF Inv
<1>2. CASE \E t \in Callers : FinishCall(t)
  BY <1>2, CallbackKeepsInv
<1>3. CASE Construct
  BY <1>3, ConstructKeepsInv
<1>4. CASE WaitForChange \/ WakeSpuriously
  BY <1>4, WaitKeepsInv
<1>5. CASE CollectAndWrite
  BY <1>5, RoundKeepsInv
<1>6. CASE UNCHANGED vars
  BY <1>6 DEF vars, cacheVars, roundVars, Inv, ControlType, Startup, MutexOwners,
              BlockUnchanged, NoLostWakeup, Collected, Building, Pending,
              FreshAtRest, MessageDue
<1> QED
  BY <1>1, <1>2, <1>3, <1>4, <1>5, <1>6 DEF Next

THEOREM Invariance == Spec => []Inv
BY InitInv, NextInv, PTL DEF Spec

\* The publisher never sleeps on a graph_changed_ that nobody will notify it of
\* (graph_manager.cpp:130-137, 147-152).
THEOREM WakeupsAreNotLost == Spec => []NoLostWakeup
<1>1. Inv => NoLostWakeup
  BY DEF Inv
<1> QED
  BY <1>1, Invariance, PTL

\* At rest the micro-ROS side has the graph the cache holds
\* (publish_microros_graph, graph_manager.cpp:142-302).
THEOREM MirrorIsFresh == Spec => []FreshAtRest
<1>1. Inv => FreshAtRest
  BY DEF Inv
<1> QED
  BY <1>1, Invariance, PTL

\* No two threads wait for each other's mutex: who waits in the callback, with
\* the cache's mutex locked, waits for a publisher that needs nothing to go on
\* (graph_manager.cpp:130-137, 145-155).
THEOREM LocksAreOrdered == Spec => []NoCircularWait
<1>1. Inv => NoCircularWait
  BY ThreadsAssumption
  DEF Inv, ControlType, CallerStates, PublisherStates, MutexOwners, NeedsMtx,
      NeedsCache, WaitsFor, NoCircularWait
<1> QED
  BY <1>1, Invariance, PTL

-----------------------------------------------------------------------------
(***************************************************************************)
(* The publication protocol implements GraphMirror.                        *)
(***************************************************************************)
LEMMA InitMirror == Init => Mirror!Init
BY ThreadsAssumption DEF Init, Mirror!Init, Pending

\* A step that leaves a change pending after it, and neither publishes nor was
\* at rest about nothing, is a change of the abstract graph.
LEMMA OwingSteps ==
  ASSUME Pending' \/ MessageDue', published' = published
  PROVE  Mirror!Change
BY DEF Mirror!Change

LEMMA RestingSteps ==
  ASSUME cache' = cache, published' = published,
         (Pending \/ MessageDue) <=> (Pending' \/ MessageDue')
  PROVE  UNCHANGED Mirror!vars
BY DEF Mirror!vars

LEMMA NextMirror ==
  ASSUME Inv, Inv', [Next]_vars
  PROVE  [Mirror!Next]_(Mirror!vars)
<1> USE ThreadsAssumption
<1>1. ASSUME NEW t \in Callers, CacheStep(t)
      PROVE  Mirror!Change \/ UNCHANGED Mirror!vars
  <2>1. published' = published /\ (~Pending' => ~Pending /\ cache' = cache)
    BY <1>1 DEF Inv, ControlType, Startup, Pending, CacheStep
  <2>2. MessageDue' = MessageDue
    BY <1>1 DEF CacheStep, MessageDue, roundVars
  <2>3. CASE Pending'
    BY <2>1, <2>3, OwingSteps
  <2>4. CASE ~Pending'
    BY <2>1, <2>2, <2>4, RestingSteps
  <2> QED
    BY <2>3, <2>4
<1>2. ASSUME NEW t \in Callers, SetGraphChanged(t)
      PROVE  Mirror!Change
  BY <1>2, OwingSteps DEF SetGraphChanged, Pending
<1>3. ASSUME NEW t \in Callers, NotifyAndReturn(t)
      PROVE  UNCHANGED Mirror!vars
  <2>1. Pending' <=> Pending
    BY <1>3 DEF Inv, ControlType, Pending, NotifyAndReturn
  <2>2. MessageDue' <=> MessageDue
    BY <1>3 DEF MessageDue, NotifyAndReturn, roundVars
  <2> QED
    BY <1>3, <2>1, <2>2, RestingSteps DEF NotifyAndReturn
<1>4. CASE SetOnChangeCallback \/ StartPublisher
  <2>1. Pending' /\ published' = published
    BY <1>4 DEF Inv, ControlType, Pending, SetOnChangeCallback, StartPublisher
  <2> QED
    BY <2>1, OwingSteps DEF Mirror!Next
<1>5. CASE WaitForChange \/ WakeSpuriously
  <2>1. cache' = cache /\ published' = published /\ pc' = pc
    BY <1>5 DEF WaitForChange, LockMtx, ConsumeChange, FindUnchanged,
                FallAsleep, WakeSpuriously, cacheVars
  <2>2. CASE ConsumeChange
    <3>1. MessageDue'
      BY <2>2 DEF ConsumeChange, MessageDue
    <3> QED
      BY <2>1, <3>1, OwingSteps DEF Mirror!Next
  <2>3. CASE ~ConsumeChange
    <3>1. graphChanged' = graphChanged /\ (MessageDue' <=> MessageDue)
      BY <1>5, <2>3 DEF WaitForChange, LockMtx, FindUnchanged, FallAsleep,
                        WakeSpuriously, MessageDue, roundVars
    <3>2. Pending' <=> Pending
      BY <2>1, <3>1 DEF Pending
    <3> QED
      BY <2>1, <3>1, <3>2, RestingSteps
  <2> QED
    BY <2>2, <2>3
<1>6. CASE CollectAndWrite
  <2>1. UNCHANGED <<cacheVars, mtx, graphChanged, pc>>
    BY <1>6 DEF CollectAndWrite, GetNodeNames, GetWriters, GetReaders,
                GetServers, GetClients, Write, Query
  <2>2. cache' = cache /\ (Pending' <=> Pending)
    BY <2>1 DEF cacheVars, Pending
  <2>3. MessageDue
    BY <1>6 DEF CollectAndWrite, GetNodeNames, GetWriters, GetReaders,
                GetServers, GetClients, Write, MessageDue
  <2>4. CASE Write
    \* Nothing pending, nothing cut short: this publication settles the debt.
    <3>1. CASE ~Pending /\ ~cutShort
      <4>1. ~MessageDue'
        BY <2>4, <3>1 DEF Write, MessageDue
      <4>2. published' = Snapshot(cache)
        BY <2>2, <3>1, <4>1 DEF Inv, FreshAtRest
      <4> QED
        BY <2>2, <2>3, <3>1, <4>1, <4>2 DEF Mirror!Next, Mirror!Publish
    <3>2. CASE Pending
      BY <2>2, <3>2 DEF Mirror!Next, Mirror!PublishTorn
    <3>3. CASE cutShort
      <4>1. MessageDue'
        BY <2>4, <3>3 DEF Write, MessageDue
      <4> QED
        BY <2>2, <2>3, <4>1 DEF Mirror!Next, Mirror!PublishTorn
    <3> QED
      BY <3>1, <3>2, <3>3
  <2>5. CASE ~Write
    <3>1. published' = published /\ MessageDue'
      BY <1>6, <2>5 DEF CollectAndWrite, GetNodeNames, GetWriters, GetReaders,
                        GetServers, GetClients, Query, RunOutOfMemory, LeaveLoop,
                        MessageDue
    <3> QED
      BY <2>2, <2>3, <3>1, RestingSteps
  <2> QED
    BY <2>4, <2>5
<1>7. CASE UNCHANGED vars
  BY <1>7, RestingSteps DEF vars, cacheVars, roundVars, Pending, MessageDue
<1>8. CASE \E t \in Callers : Update(t)
  BY <1>1, <1>8, UpdateIsCacheStep DEF Inv, Mirror!Next
<1>9. CASE AddFirstParticipant
  BY <1>1, <1>9, FirstParticipantIsCacheStep DEF Inv, Mirror!Next
<1> QED
  BY <1>2, <1>3, <1>4, <1>5, <1>6, <1>7, <1>8, <1>9
  DEF Next, FinishCall, Construct, Mirror!Next

\* Every behaviour of the publication protocol is one of the abstract mirror:
\* a copy of the graph that may be late but never silently.
THEOREM ImplementsMirror == Spec => MirrorSpec
<1>1. Inv /\ Inv' /\ [Next]_vars => [Mirror!Next]_(Mirror!vars)
  BY NextMirror
<1> QED
  BY <1>1, InitMirror, Invariance, PTL DEF Spec, MirrorSpec, Mirror!Spec

-----------------------------------------------------------------------------
(***************************************************************************)
(* Type correctness.  Here the operators of GraphCache matter: each one    *)
(* keeps the cache a cache.                                                *)
(***************************************************************************)
LEMMA PutType ==
  ASSUME NEW S, NEW T, NEW f \in PartialFunctions(S, T), NEW x \in S, NEW y \in T
  PROVE  GC!Put(f, x, y) \in PartialFunctions(S, T)
<1>1. PICK D \in SUBSET S : f \in [D -> T]
  BY DEF PartialFunctions
<1>2. GC!Put(f, x, y) \in [D \union {x} -> T]
  BY <1>1 DEF GC!Put
<1> QED
  BY <1>1, <1>2 DEF PartialFunctions

LEMMA WithoutType ==
  ASSUME NEW S, NEW T, NEW f \in PartialFunctions(S, T), NEW x
  PROVE  GC!Without(f, x) \in PartialFunctions(S, T)
<1>1. PICK D \in SUBSET S : f \in [D -> T]
  BY DEF PartialFunctions
<1>2. GC!Without(f, x) \in [D \ {x} -> T]
  BY <1>1 DEF GC!Without, GC!Restrict
<1> QED
  BY <1>1, <1>2 DEF PartialFunctions

\* Replacing the value of a key that is there.
LEMMA ExceptType ==
  ASSUME NEW S, NEW T, NEW f \in PartialFunctions(S, T),
         NEW x \in DOMAIN f, NEW y \in T
  PROVE  [f EXCEPT ![x] = y] \in PartialFunctions(S, T)
BY DEF PartialFunctions

LEMMA ApplyType ==
  ASSUME NEW S, NEW T, NEW f \in PartialFunctions(S, T), NEW x \in DOMAIN f
  PROVE  f[x] \in T
BY DEF PartialFunctions

LEMMA DomainType ==
  ASSUME NEW S, NEW T, NEW f \in PartialFunctions(S, T)
  PROVE  DOMAIN f \subseteq S
BY DEF PartialFunctions

\* What the program's threads do to the cache keeps it a cache.
LEMMA UpdateKeepsCaches ==
  ASSUME NEW t \in Callers, cache \in Caches, Update(t)
  PROVE  cache' \in Caches
<1> DEFINE Info == [writers : SUBSET Writers, readers : SUBSET Readers]
<1>0. /\ cache.participants \in PartialFunctions(Participants, NodesInfo)
      /\ cache.writers \in PartialFunctions(Writers, Topics)
      /\ cache.readers \in PartialFunctions(Readers, Topics)
      /\ GC!NoEntities \in Info
      /\ GC!NoEntries \in NodesInfo
  <2>1. GC!NoEntries \in [{} -> Info]
    BY DEF GC!NoEntries
  <2>2. GC!NoEntries \in NodesInfo
    BY <2>1 DEF NodesInfo, PartialFunctions
  <2>3. GC!NoEntities \in Info
    BY DEF GC!NoEntities
  <2> QED
    BY <2>2, <2>3 DEF Caches
<1>1. CASE AddParticipant(t)
  <2>1. PICK p \in Participants : cache' = GC!AddParticipant(cache, p)
    BY <1>1 DEF AddParticipant, CacheCall
  <2> QED
    BY <1>0, <2>1, PutType DEF GC!AddParticipant, Caches
<1>2. CASE RemoveParticipant(t)
  <2>1. PICK p \in Participants : cache' = GC!RemoveParticipant(cache, p)
    BY <1>2 DEF RemoveParticipant, CacheCall
  <2> QED
    BY <1>0, <2>1, WithoutType DEF GC!RemoveParticipant, Caches
<1>3. CASE UpdateParticipantEntities(t)
  <2>1. PICK p \in Participants, nodes \in NodesInfo :
          cache' = GC!UpdateParticipantEntities(cache, p, nodes)
    BY <1>3 DEF UpdateParticipantEntities, CacheCall
  <2> QED
    BY <1>0, <2>1, PutType DEF GC!UpdateParticipantEntities, Caches
<1>4. CASE AddNode(t)
  <2>1. PICK p \in Participants, n \in Nodes :
          GC!Knows(cache, p) /\ cache' = GC!AddNode(cache, p, n)
    BY <1>4 DEF AddNode, CacheCall
  <2>2. cache.participants[p] \in PartialFunctions(Nodes, Info)
    BY <1>0, <2>1, ApplyType DEF GC!Knows, NodesInfo
  <2> DEFINE nodes == GC!Put(cache.participants[p], n, GC!NoEntities)
  <2>3. nodes \in NodesInfo
    BY <1>0, <2>2, PutType DEF NodesInfo
  <2> HIDE DEF nodes
  <2>4. [cache.participants EXCEPT ![p] = nodes]
          \in PartialFunctions(Participants, NodesInfo)
    BY <1>0, <2>1, <2>3, ExceptType DEF GC!Knows
  <2>5. cache' = cache \/ cache' = [cache EXCEPT !.participants =
                                      [cache.participants EXCEPT ![p] = nodes]]
    BY <2>1 DEF GC!AddNode, nodes
  <2> QED
    BY <2>4, <2>5 DEF Caches
<1>5. CASE AssociateEntity(t)
  <2>1. PICK p \in Participants, n \in Nodes :
          /\ GC!HasNode(cache, p, n)
          /\ \/ \E e \in Writers : cache' = GC!AssociateWriter(cache, e, p, n)
             \/ \E e \in Readers : cache' = GC!AssociateReader(cache, e, p, n)
    BY <1>5 DEF AssociateEntity, CacheCall
  <2> DEFINE nodes == cache.participants[p]
  <2>2. nodes \in PartialFunctions(Nodes, Info)
    BY <1>0, <2>1, ApplyType DEF GC!HasNode, GC!Knows, NodesInfo
  <2>3. nodes[n] \in Info
    BY <2>1, <2>2, ApplyType DEF GC!HasNode
  <2> DEFINE Becomes(new) ==
               cache' = [cache EXCEPT !.participants =
                           [cache.participants EXCEPT ![p] = [nodes EXCEPT ![n] = new]]]
  <2>4. \E info \in Info : Becomes(info)
    <3>1. ASSUME NEW e \in Writers, cache' = GC!AssociateWriter(cache, e, p, n)
          PROVE  Becomes([nodes[n] EXCEPT !.writers = @ \union {e}])
      BY <3>1 DEF GC!AssociateWriter
    <3>2. ASSUME NEW e \in Readers, cache' = GC!AssociateReader(cache, e, p, n)
          PROVE  Becomes([nodes[n] EXCEPT !.readers = @ \union {e}])
      BY <3>2 DEF GC!AssociateReader
    <3>3. \A e \in Writers : [nodes[n] EXCEPT !.writers = @ \union {e}] \in Info
      BY <2>3
    <3>4. \A e \in Readers : [nodes[n] EXCEPT !.readers = @ \union {e}] \in Info
      BY <2>3
    <3> HIDE DEF Becomes, Info, nodes
    <3> QED
      BY <2>1, <3>1, <3>2, <3>3, <3>4
  <2>5. PICK info \in Info : Becomes(info)
    BY <2>4
  <2>6. [nodes EXCEPT ![n] = info] \in NodesInfo
    BY <2>1, <2>2, ExceptType DEF GC!HasNode, NodesInfo
  <2>7. [cache.participants EXCEPT ![p] = [nodes EXCEPT ![n] = info]]
          \in PartialFunctions(Participants, NodesInfo)
    BY <1>0, <2>1, <2>6, ExceptType DEF GC!HasNode, GC!Knows
  <2> QED
    BY <2>5, <2>7 DEF Caches
<1>6. CASE AddDatawriter(t) \/ AddDatareader(t)
  <2>1. \/ \E e \in Writers, topic \in Topics : cache' = GC!AddWriter(cache, e, topic)
        \/ \E e \in Readers, topic \in Topics : cache' = GC!AddReader(cache, e, topic)
    BY <1>6 DEF AddDatawriter, AddDatareader, CacheCall
  <2> QED
    BY <1>0, <2>1, PutType DEF GC!AddWriter, GC!AddReader, Caches
<1>7. CASE RemoveDatawriter(t) \/ RemoveDatareader(t)
  <2>1. \/ \E e \in Writers : cache' = GC!RemoveWriter(cache, e)
        \/ \E e \in Readers : cache' = GC!RemoveReader(cache, e)
    BY <1>7 DEF RemoveDatawriter, RemoveDatareader, CacheCall
  <2> QED
    BY <1>0, <2>1, WithoutType DEF GC!RemoveWriter, GC!RemoveReader, Caches
<1> QED
  BY <1>1, <1>2, <1>3, <1>4, <1>5, <1>6, <1>7 DEF Update

LEMMA NodeNamesType ==
  ASSUME cache \in Caches
  PROVE  GC!NodeNames(cache) \subseteq Nodes
<1>1. ASSUME NEW p \in DOMAIN cache.participants
      PROVE  DOMAIN cache.participants[p] \subseteq Nodes
  <2>1. cache.participants[p] \in NodesInfo
    BY ApplyType DEF Caches
  <2> QED
    BY <2>1, DomainType DEF NodesInfo
<1> QED
  BY <1>1 DEF GC!NodeNames

\* The values of a round stay names of nodes because the cache's are.
RoundType ==
  /\ todo \subseteq Nodes
  /\ DOMAIN graphMessage \subseteq Nodes
  /\ Building \subseteq Nodes
  /\ unfreed \subseteq {"writers", "readers", "servers"}
  /\ cutShort \in BOOLEAN

LEMMA RoundKeepsType ==
  ASSUME cache \in Caches, RoundType, CollectAndWrite
  PROVE  RoundType'
<1> USE DEF RunOutOfMemory, LeaveLoop, Allocate
<1>1. CASE GetNodeNames
  BY <1>1, NodeNamesType DEF RoundType, Building, GetNodeNames, EmptyMessage
<1>2. CASE GetWriters
  <2>1. /\ graphMessage' = graphMessage
        /\ todo' \subseteq todo
        /\ unfreed' \subseteq unfreed \union {"writers"}
        /\ pub' = "readers" => current'.node \in todo
        /\ pub' \in {"readers", "write"}
    BY <1>2 DEF GetWriters
  <2>2. cutShort' \in BOOLEAN
    BY <1>2 DEF GetWriters, RoundType
  <2> QED
    BY <2>1, <2>2 DEF RoundType, Building
<1>3. CASE GetReaders
  <2>1. /\ UNCHANGED <<todo, graphMessage>>
        /\ unfreed' \in {unfreed, unfreed \union {"readers"}}
        /\ pub = "readers" /\ pub' \in {"servers", "write"}
        /\ pub' = "servers" => current'.node = current.node
    BY <1>3 DEF GetReaders
  <2>2. cutShort' \in BOOLEAN
    BY <1>3 DEF GetReaders, RoundType
  <2> QED
    BY <2>1, <2>2 DEF RoundType, Building
<1>4. CASE GetServers
  <2>1. /\ UNCHANGED <<todo, graphMessage>>
        /\ unfreed' \in {unfreed, unfreed \union {"servers"}}
        /\ pub = "servers" /\ pub' \in {"clients", "write"}
        /\ pub' = "clients" => current'.node = current.node
    BY <1>4 DEF GetServers
  <2>2. cutShort' \in BOOLEAN
    BY <1>4 DEF GetServers, RoundType
  <2> QED
    BY <2>1, <2>2 DEF RoundType, Building
<1>5. CASE GetClients
  <2>1. CASE pub' = "returned"
    BY <1>5, <2>1 DEF RoundType, Building, GetClients, EndRound, EmptyMessage
  <2>2. CASE pub' # "returned"
    <3>1. DOMAIN graphMessage' \subseteq DOMAIN graphMessage \union {current.node}
      BY <1>5, <2>2 DEF GetClients
    <3> QED
      BY <1>5, <2>2, <3>1 DEF RoundType, Building, GetClients
  <2> QED
    BY <2>1, <2>2
<1>6. CASE Write
  BY <1>6 DEF RoundType, Building, Write, EndRound, EmptyMessage
<1> QED
  BY <1>1, <1>2, <1>3, <1>4, <1>5, <1>6 DEF CollectAndWrite

TypeInv == Inv /\ cache \in Caches /\ RoundType

LEMMA NextType == TypeInv /\ [Next]_vars => TypeInv'
<1> SUFFICES ASSUME TypeInv, [Next]_vars
             PROVE  cache' \in Caches /\ RoundType'
  BY NextInv DEF TypeInv
<1>1. CASE \E t \in Callers : Update(t)
  <2>1. UNCHANGED <<roundVars, pub>>
    BY <1>1, UpdateIsCacheStep DEF TypeInv, Inv, CacheStep
  <2> QED
    BY <1>1, <2>1, UpdateKeepsCaches DEF TypeInv, RoundType, Building, roundVars
<1>2. CASE AddFirstParticipant
  <2>1. PICK p \in Participants :
          cache' = GC!AddParticipant(cache, p) /\ UNCHANGED <<roundVars, pub>>
    BY <1>2 DEF AddFirstParticipant, CacheCall
  <2>2. cache.participants \in PartialFunctions(Participants, NodesInfo)
    BY DEF TypeInv, Caches
  <2>3. GC!NoEntries \in NodesInfo
    BY DEF GC!NoEntries, NodesInfo, PartialFunctions
  <2>4. cache' \in Caches
    BY <2>1, <2>2, <2>3, PutType DEF TypeInv, GC!AddParticipant, Caches
  <2> QED
    BY <2>1, <2>4 DEF TypeInv, RoundType, Building, roundVars
<1>3. CASE \/ \E t \in Callers : FinishCall(t)
           \/ SetOnChangeCallback \/ StartPublisher
           \/ WaitForChange \/ WakeSpuriously
  <2>1. /\ UNCHANGED <<cache, roundVars>>
        /\ \/ pub' = pub
           \/ pub' \in {"lock", "predicate", "block", "asleep", "node_names"}
    BY <1>3 DEF FinishCall, SetGraphChanged, NotifyAndReturn,
                SetOnChangeCallback, StartPublisher, WaitForChange, LockMtx,
                ConsumeChange, FindUnchanged, FallAsleep, WakeSpuriously, cacheVars
  <2> QED
    BY <2>1 DEF TypeInv, RoundType, Building, roundVars
<1>4. CASE CollectAndWrite
  <2>1. cache' = cache
    BY <1>4, RoundKeepsControl DEF TypeInv
  <2> QED
    BY <1>4, <2>1, RoundKeepsType DEF TypeInv
<1>5. CASE UNCHANGED vars
  BY <1>5 DEF vars, cacheVars, roundVars, TypeInv, RoundType, Building
<1> QED
  BY <1>1, <1>2, <1>3, <1>4, <1>5 DEF Next, Construct

LEMMA InitType == Init => TypeInv
<1> SUFFICES ASSUME Init PROVE TypeInv
  OBVIOUS
<1>1. \A S, T : GC!NoEntries \in PartialFunctions(S, T)
  BY DEF GC!NoEntries, PartialFunctions
<1>2. cache \in Caches
  BY <1>1 DEF Init, GC!EmptyCache, Caches
<1> QED
  BY <1>2, InitInv DEF Init, TypeInv, RoundType, Building, EmptyMessage

\* The variables keep their types (graph_manager.hpp:287-296).
THEOREM TypeCorrect == Spec => []TypeOK
<1>1. TypeInv => TypeOK
  BY DEF TypeInv, Inv, ControlType, CallerStates, PublisherStates, RoundType,
         TypeOK
<1> QED
  BY <1>1, InitType, NextType, PTL DEF Spec
=============================================================================
