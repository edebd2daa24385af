---------------------------- MODULE MicrorosGraph ---------------------------
(***************************************************************************)
(* How a GraphManager publishes the graph to the micro-ROS side.           *)
(*                                                                         *)
(* Threads of the Agent (Callers) update graphCache_ while they handle     *)
(* XRCE callbacks, DDS discovery and ros_discovery_info samples.  Each     *)
(* update that the cache reports runs the on-change callback, still inside *)
(* the cache's own mutex: it sets graph_changed_ under mtx_ and notifies   *)
(* cv_ (graph_manager.cpp:130-137).  One more thread, the publisher, waits *)
(* for graph_changed_, reads the cache back one query at a time and writes *)
(* the result (publish_microros_graph, graph_manager.cpp:142-302).         *)
(*                                                                         *)
(* A call into the cache is one step: acquire its mutex, do the work and,  *)
(* unless the on-change callback has to run, release it.  The callback     *)
(* holds the cache's mutex over two more steps, so both mutexes and the    *)
(* wait on cv_ interleave as they do in the code.                          *)
(*                                                                         *)
(* The Xrce thread creates the manager in its first callback (see Agent,   *)
(* on_create_participant): participant_ listens from graph_manager.cpp:65  *)
(* on, so discovery may already update the cache before the on-change      *)
(* callback is installed and before the publisher runs.  Any callback may  *)
(* find no manager and construct it (Agent.cpp:46, 62, 80, 102, ...); that *)
(* it is on_create_participant's assumes that no client was served before  *)
(* the callbacks were installed.  Agent models those that were.            *)
(***************************************************************************)
CONSTANTS
  Participants,   \* gids of DDS participants
  Before,         \* the order of gids
  Nodes,          \* node names
  Writers,        \* gids of data writers
  Readers,        \* gids of data readers
  Topics,         \* topics, as records [kind, name]
  Callers,        \* threads that update the cache
  Xrce,           \* the caller that runs the Agent's callbacks
  Publisher,      \* the thread of publish_microros_graph
  Failing,        \* queries of the cache that may fail for want of memory
  NoThread,       \* owner of a free mutex
  NoGraph         \* nothing was written to ros_to_microros_graph yet

ASSUME ThreadsAssumption ==
  /\ Xrce \in Callers
  /\ Publisher \notin Callers
  /\ NoThread \notin Callers \union {Publisher}

VARIABLES
  cache,            \* graphCache_
  cacheMtx,         \* owner of the mutex inside graphCache_
  onChange,         \* has set_on_change_callback been called?
  mtx,              \* owner of mtx_
  graphChanged,     \* graph_changed_
  pc,               \* where each caller is
  pub,              \* where the publisher is
  todo,             \* names still to visit of the last get_node_names
  current,          \* the node message being built, its node and its lists
  graphMessage,     \* graph_message: node name -> lists of its entities
  unfreed,          \* rmw_names_and_types_t arrays allocated and not freed
  cutShort,         \* did a query of the last round fail for want of memory?
                    \* (the program keeps no note of it, the properties do)
  published         \* last sample written to ros_to_microros_graph

cacheVars == <<cache, cacheMtx, onChange>>
roundVars == <<todo, current, graphMessage, unfreed, cutShort>>
vars == <<cacheVars, mtx, graphChanged, pc, pub, roundVars, published>>

GC == INSTANCE GraphCache

\* What a complete message says of node n, and of the whole graph.
NodeMessage(c, n) ==
  [publishers  |-> GC!WriterNamesByNode(c, n),
   subscribers |-> GC!ReaderNamesByNode(c, n),
   servers     |-> GC!AllNames(c, "request"),
   clients     |-> GC!AllNames(c, "reply")]

Snapshot(c) == [n \in GC!NodeNames(c) |-> NodeMessage(c, n)]

NoNodeYet == [node |-> NoThread]

\* graph_message as a round declares it.
EmptyMessage == [n \in {} |-> NoGraph]

-----------------------------------------------------------------------------
(***************************************************************************)
(* Callers: one action per method of the cache that the program calls.     *)
(***************************************************************************)

\* A call that turns the cache into c.  When it reports a change and the
\* on-change callback is installed, the callback runs before the call returns.
CacheCall(t, c, changed) ==
  /\ cacheMtx = NoThread
  /\ cache' = c
  /\ IF changed /\ onChange
     THEN pc' = [pc EXCEPT ![t] = "callback"] /\ cacheMtx' = t
     ELSE pc' = [pc EXCEPT ![t] = "idle"] /\ UNCHANGED cacheMtx
  /\ UNCHANGED <<onChange, mtx, graphChanged, pub, roundVars, published>>

AddParticipant(t) ==
  \E p \in Participants :
    pc[t] = "idle" /\ CacheCall(t, GC!AddParticipant(cache, p), TRUE)

RemoveParticipant(t) ==
  \E p \in Participants :
    /\ pc[t] = "idle"
    /\ CacheCall(t, GC!RemoveParticipant(cache, p), GC!Knows(cache, p))

PartialFunctions(S, T) == UNION {[D -> T] : D \in SUBSET S}

\* Nodes of a ParticipantEntitiesInfo sample, each with its endpoints.
NodesInfo ==
  PartialFunctions(Nodes, [writers : SUBSET Writers, readers : SUBSET Readers])

Caches == [participants : PartialFunctions(Participants, NodesInfo),
           writers      : PartialFunctions(Writers, Topics),
           readers      : PartialFunctions(Readers, Topics)]

UpdateParticipantEntities(t) ==
  \E p \in Participants, nodes \in NodesInfo :
    /\ pc[t] = "idle"
    /\ CacheCall(t, GC!UpdateParticipantEntities(cache, p, nodes), TRUE)

AddNode(t) ==
  \E p \in Participants, n \in Nodes :
    /\ pc[t] = "idle"
    /\ GC!Knows(cache, p)
    /\ CacheCall(t, GC!AddNode(cache, p, n), TRUE)

AddDatawriter(t) ==
  \E e \in Writers, topic \in Topics :
    /\ pc[t] = "idle"
    /\ CacheCall(t, GC!AddWriter(cache, e, topic), e \notin DOMAIN cache.writers)

AddDatareader(t) ==
  \E e \in Readers, topic \in Topics :
    /\ pc[t] = "idle"
    /\ CacheCall(t, GC!AddReader(cache, e, topic), e \notin DOMAIN cache.readers)

RemoveDatawriter(t) ==
  \E e \in Writers :
    /\ pc[t] = "idle"
    /\ CacheCall(t, GC!RemoveWriter(cache, e), e \in DOMAIN cache.writers)

RemoveDatareader(t) ==
  \E e \in Readers :
    /\ pc[t] = "idle"
    /\ CacheCall(t, GC!RemoveReader(cache, e), e \in DOMAIN cache.readers)

AssociateEntity(t) ==
  \E p \in Participants, n \in Nodes :
    /\ pc[t] = "idle"
    /\ GC!HasNode(cache, p, n)
    /\ \/ \E e \in Writers : CacheCall(t, GC!AssociateWriter(cache, e, p, n), TRUE)
       \/ \E e \in Readers : CacheCall(t, GC!AssociateReader(cache, e, p, n), TRUE)

-----------------------------------------------------------------------------
(***************************************************************************)
(* The on-change callback, run by the caller inside the cache's mutex.     *)
(***************************************************************************)

\* A plausible bug: graph_changed_ is set without locking mtx_.
SetGraphChangedUnlocked(t) ==
  /\ pc[t] = "callback"
  /\ graphChanged' = TRUE
  /\ pc' = [pc EXCEPT ![t] = "notify"]
  /\ UNCHANGED <<cacheVars, mtx, pub, roundVars, published>>

\* A plausible bug: the lock on mtx_ outlives its block.
SetGraphChangedKeepingLock(t) ==
  /\ pc[t] = "callback"
  /\ mtx = NoThread
  /\ mtx' = t
  /\ graphChanged' = TRUE
  /\ pc' = [pc EXCEPT ![t] = "notify"]
  /\ UNCHANGED <<cacheVars, pub, roundVars, published>>

\* The block that locks mtx_, sets graph_changed_ and unlocks.
SetGraphChanged(t) ==
  /\ pc[t] = "callback"
  /\ mtx = NoThread
  /\ graphChanged' = TRUE
  /\ pc' = [pc EXCEPT ![t] = "notify"]
  /\ UNCHANGED <<cacheVars, mtx, pub, roundVars, published>>

\* A plausible bug: cv_ is not notified.
ReturnWithoutNotify(t) ==
  /\ pc[t] = "notify"
  /\ pc' = [pc EXCEPT ![t] = "idle"]
  /\ cacheMtx' = NoThread
  /\ UNCHANGED <<cache, onChange, mtx, graphChanged, pub, roundVars, published>>

\* cv_.notify_one() wakes the publisher if it sleeps; then the cache's method
\* returns and releases the cache's mutex.
NotifyAndReturn(t) ==
  /\ pc[t] = "notify"
  /\ pub' = IF pub = "asleep" THEN "lock" ELSE pub
  /\ pc' = [pc EXCEPT ![t] = "idle"]
  /\ cacheMtx' = NoThread
  /\ UNCHANGED <<cache, onChange, mtx, graphChanged, roundVars, published>>

-----------------------------------------------------------------------------
(***************************************************************************)
(* The end of GraphManager's constructor, and the call that follows it.    *)
(***************************************************************************)
SetOnChangeCallback ==
  /\ pc[Xrce] = "construct"
  /\ cacheMtx = NoThread
  /\ onChange' = TRUE
  /\ pc' = [pc EXCEPT ![Xrce] = "start_thread"]
  /\ UNCHANGED <<cache, cacheMtx, mtx, graphChanged, pub, roundVars, published>>

StartPublisher ==
  /\ pc[Xrce] = "start_thread"
  /\ pub' = "lock"
  /\ pc' = [pc EXCEPT ![Xrce] = "add_participant"]
  /\ UNCHANGED <<cacheVars, mtx, graphChanged, roundVars, published>>

\* A plausible bug: a participant that discovery added first is no change.
AddFirstParticipantIfUnknown ==
  \E p \in Participants :
    /\ pc[Xrce] = "add_participant"
    /\ CacheCall(Xrce, GC!AddParticipant(cache, p), ~GC!Knows(cache, p))

\* on_create_participant: find_or_create_graph_manager(..) has constructed the
\* manager, add_participant(participant) follows.
AddFirstParticipant ==
  \E p \in Participants :
    /\ pc[Xrce] = "add_participant"
    /\ CacheCall(Xrce, GC!AddParticipant(cache, p), TRUE)

-----------------------------------------------------------------------------
(***************************************************************************)
(* The publisher thread.                                                   *)
(***************************************************************************)

LockMtx ==
  /\ pub = "lock"
  /\ mtx = NoThread
  /\ mtx' = Publisher
  /\ pub' = "predicate"
  /\ UNCHANGED <<cacheVars, graphChanged, pc, roundVars, published>>

\* A plausible bug: the lock on mtx_ outlives its block.
ConsumeChangeKeepingLock ==
  /\ pub = "predicate"
  /\ graphChanged
  /\ graphChanged' = FALSE
  /\ pub' = "node_names"
  /\ UNCHANGED <<cacheVars, mtx, pc, roundVars, published>>

\* cv_.wait finds graph_changed_ set: reset it and leave the locked block.
ConsumeChange ==
  /\ pub = "predicate"
  /\ graphChanged
  /\ graphChanged' = FALSE
  /\ mtx' = NoThread
  /\ pub' = "node_names"
  /\ UNCHANGED <<cacheVars, pc, roundVars, published>>

\* cv_.wait finds it unset and goes to sleep: between the test and the sleep
\* the thread still holds mtx_.
FindUnchanged ==
  /\ pub = "predicate"
  /\ ~graphChanged
  /\ pub' = "block"
  /\ UNCHANGED <<cacheVars, mtx, graphChanged, pc, roundVars, published>>

FallAsleep ==
  /\ pub = "block"
  /\ mtx' = NoThread
  /\ pub' = "asleep"
  /\ UNCHANGED <<cacheVars, graphChanged, pc, roundVars, published>>

\* A condition variable may wake without a notification.
WakeSpuriously ==
  /\ pub = "asleep"
  /\ pub' = "lock"
  /\ UNCHANGED <<cacheVars, mtx, graphChanged, pc, roundVars, published>>

\* A getter of the cache needs the cache's mutex; it changes none of it.
Query ==
  /\ cacheMtx = NoThread
  /\ UNCHANGED <<cacheVars, mtx, graphChanged, pc, published>>

\* The result is ignored: names that could not be listed are no names.
GetNodeNames ==
  /\ pub = "node_names"
  /\ Query
  /\ \/ todo' = GC!NodeNames(cache) /\ cutShort' = FALSE
     \/ "node_names" \in Failing /\ todo' = {} /\ cutShort' = TRUE
  /\ graphMessage' = EmptyMessage
  /\ pub' = IF todo' = {} THEN "write" ELSE "writers"
  /\ UNCHANGED <<current, unfreed>>

\* A list without entries needs no array.
Allocate(array, list) ==
  unfreed' = IF list = {} THEN unfreed ELSE unfreed \union {array}

\* A query fails: the loop over the nodes is left, arrays and all, and what was
\* collected so far is written.
LeaveLoop ==
  /\ pub' = "write"
  /\ UNCHANGED <<todo, current, graphMessage, unfreed>>

\* The query finds no memory, whatever it is asked.
RunOutOfMemory(query) ==
  /\ query \in Failing
  /\ LeaveLoop
  /\ cutShort' = TRUE

\* A query by node fails, too, when the node has vanished since get_node_names.
GetWriters ==
  /\ pub = "writers"
  /\ Query
  /\ \/ \E n \in todo :
          LET publishers == GC!WriterNamesByNode(cache, n) IN
          /\ UNCHANGED cutShort
          /\ IF n \in GC!NodeNames(cache)
             THEN /\ current' = [node |-> n, publishers |-> publishers]
                  /\ todo' = todo \ {n}
                  /\ Allocate("writers", publishers)
                  /\ pub' = "readers"
                  /\ UNCHANGED graphMessage
             ELSE LeaveLoop
     \/ RunOutOfMemory("writers")

GetReaders ==
  /\ pub = "readers"
  /\ Query
  /\ \/ LET subscribers == GC!ReaderNamesByNode(cache, current.node) IN
        /\ UNCHANGED cutShort
        /\ IF current.node \in GC!NodeNames(cache)
           THEN /\ current' = [node        |-> current.node,
                               publishers  |-> current.publishers,
                               subscribers |-> subscribers]
                /\ Allocate("readers", subscribers)
                /\ pub' = "servers"
                /\ UNCHANGED <<todo, graphMessage>>
           ELSE LeaveLoop
     \/ RunOutOfMemory("readers")

\* The two service queries are over the whole cache, whatever the node.
GetServers ==
  /\ pub = "servers"
  /\ Query
  /\ \/ /\ current' = [node        |-> current.node,
                       publishers  |-> current.publishers,
                       subscribers |-> current.subscribers,
                       servers     |-> GC!AllNames(cache, "request")]
        /\ Allocate("servers", GC!AllNames(cache, "request"))
        /\ pub' = "clients"
        /\ UNCHANGED <<todo, graphMessage, cutShort>>
     \/ RunOutOfMemory("servers")

\* The locals of the loop are gone at the end of a round.
EndRound ==
  /\ todo' = {}
  /\ current' = NoNodeYet
  /\ graphMessage' = EmptyMessage

\* The last query of a node completes its message; the four arrays are freed,
\* and the thread returns when a fini function fails.
GetClients ==
  /\ pub = "clients"
  /\ Query
  /\ \/ /\ graphMessage' =
            [n \in DOMAIN graphMessage \union {current.node} |->
               IF n = current.node
               THEN [publishers  |-> current.publishers,
                     subscribers |-> current.subscribers,
                     servers     |-> current.servers,
                     clients     |-> GC!AllNames(cache, "reply")]
               ELSE graphMessage[n]]
        /\ pub' = IF todo = {} THEN "write" ELSE "writers"
        /\ unfreed' = {}
        /\ current' = NoNodeYet
        /\ UNCHANGED <<todo, cutShort>>
     \/ pub' = "returned" /\ EndRound /\ UNCHANGED <<unfreed, cutShort>>
     \/ RunOutOfMemory("clients")

\* A plausible bug: graph_changed_ is reset after the round, not before it.
WriteAndReset ==
  /\ pub = "write"
  /\ published' = graphMessage
  /\ graphChanged' = FALSE
  /\ pub' \in {"lock", "ended"}
  /\ EndRound /\ unfreed' = {}
  /\ UNCHANGED <<cacheVars, mtx, pc, cutShort>>

\* The message is written and the name arrays are freed; a failure to free ends
\* the loop, and with it the thread.
Write ==
  /\ pub = "write"
  /\ published' = graphMessage
  /\ pub' \in {"lock", "ended"}
  /\ EndRound /\ unfreed' = {}
  /\ UNCHANGED <<cacheVars, mtx, graphChanged, pc, cutShort>>

-----------------------------------------------------------------------------
Init ==
  /\ cache = GC!EmptyCache
  /\ cacheMtx = NoThread
  /\ onChange = FALSE
  /\ mtx = NoThread
  /\ graphChanged = FALSE
  /\ pc = [t \in Callers |-> IF t = Xrce THEN "construct" ELSE "idle"]
  /\ pub = "unborn"
  /\ todo = {}
  /\ current = NoNodeYet
  /\ graphMessage = EmptyMessage
  /\ unfreed = {}
  /\ cutShort = FALSE
  /\ published = NoGraph

\* What a caller starts of its own accord, and what it must then finish.
Update(t) ==
  \/ AddParticipant(t) \/ RemoveParticipant(t) \/ UpdateParticipantEntities(t)
  \/ AddNode(t) \/ AssociateEntity(t)
  \/ AddDatawriter(t) \/ RemoveDatawriter(t)
  \/ AddDatareader(t) \/ RemoveDatareader(t)

FinishCall(t) == SetGraphChanged(t) \/ NotifyAndReturn(t)

Construct == SetOnChangeCallback \/ StartPublisher \/ AddFirstParticipant

WaitForChange == LockMtx \/ ConsumeChange \/ FindUnchanged \/ FallAsleep

CollectAndWrite ==
  \/ GetNodeNames \/ GetWriters \/ GetReaders \/ GetServers \/ GetClients
  \/ Write

Next ==
  \/ \E t \in Callers : Update(t) \/ FinishCall(t)
  \/ Construct
  \/ WaitForChange \/ WakeSpuriously \/ CollectAndWrite

\* Threads that can take a step eventually do: no thread is suspended forever.
\* Nothing is assumed of mutexes under endless contention, of spurious wake-ups
\* or of when updates come.
Fairness ==
  /\ \A t \in Callers : WF_vars(FinishCall(t))
  /\ WF_vars(Construct)
  /\ WF_vars(WaitForChange)
  /\ WF_vars(CollectAndWrite)

Spec == Init /\ [][Next]_vars /\ Fairness

-----------------------------------------------------------------------------
(***************************************************************************)
(* Properties.                                                             *)
(***************************************************************************)

\* The values the variables range over (graph_manager.hpp:287-296 and the
\* locals of publish_microros_graph, graph_manager.cpp:161-280).
TypeOK ==
  /\ cache \in Caches
  /\ cacheMtx \in Callers \union {NoThread}
  /\ mtx \in {Publisher, NoThread}
  /\ onChange \in BOOLEAN
  /\ graphChanged \in BOOLEAN
  /\ pc \in [Callers -> {"construct", "start_thread", "add_participant",
                          "idle", "callback", "notify"}]
  /\ pub \in {"unborn", "lock", "predicate", "block", "asleep", "node_names",
              "writers", "readers", "servers", "clients", "write",
              "returned", "ended"}
  /\ todo \subseteq Nodes
  /\ DOMAIN graphMessage \subseteq Nodes
  /\ unfreed \subseteq {"writers", "readers", "servers"}
  /\ cutShort \in BOOLEAN

\* Somebody will still set graph_changed_, or has set it and the publisher did
\* not see it yet.  While the constructor runs, the debt is the first
\* add_participant of on_create_participant (Agent.cpp:46-47).
Pending ==
  \/ graphChanged
  \/ \E t \in Callers : pc[t] = "callback"
  \/ pc[Xrce] \in {"construct", "start_thread", "add_participant"}

\* The publisher has consumed graph_changed_ and not written a message since, or
\* only one that it cut short for want of memory.
MessageDue ==
  \/ pub \in {"node_names", "writers", "readers", "servers", "clients", "write",
             "returned"}
  \/ cutShort

\* No wake-up is lost (graph_manager.cpp:130-137 and 147-152): when the
\* publisher sleeps on cv_ and graph_changed_ is set, the thread that set it
\* has its notify_one still ahead.
NoLostWakeup ==
  pub = "asleep" /\ graphChanged => \E t \in Callers : pc[t] = "notify"

\* The threads whose next step has to lock mtx_, and those for graphCache_.
NeedsMtx ==
  {t \in Callers : pc[t] = "callback"} \union {t \in {Publisher} : pub = "lock"}
NeedsCache ==
  {t \in Callers : pc[t] \in {"idle", "construct", "add_participant"}}
    \union {t \in {Publisher} :
               pub \in {"node_names", "writers", "readers", "servers", "clients"}}

WaitsFor(t) ==
  {u \in Callers \union {Publisher} :
     (t \in NeedsMtx /\ mtx = u) \/ (t \in NeedsCache /\ cacheMtx = u)}

\* No two threads wait for each other, and none for itself: the callback locks
\* mtx_ inside the cache's mutex, so whoever holds mtx_ must go on without the
\* cache (graph_manager.cpp:130-137, 145-155).  Two mutexes allow no longer
\* circle.
NoCircularWait ==
  \A t \in Callers \union {Publisher} : \A u \in WaitsFor(t) :
    u # t /\ t \notin WaitsFor(u)

\* With no change pending and no message due, the last message the micro-ROS side
\* received is the graph in the cache: an update that slips between two queries,
\* between the flag's reset and the first query, or in during construction is
\* never silently left out (graph_manager.cpp:142-302, Agent.cpp:46-47).
FreshAtRest == ~Pending /\ ~MessageDue => published = Snapshot(cache)

Mirror == INSTANCE GraphMirror
            WITH graph  <- Snapshot(cache),
                 mirror <- published,
                 owed   <- Pending \/ MessageDue

\* The publication protocol implements the abstract mirror.
MirrorSpec == Mirror!Spec

CallersIdle == \A t \in Callers : pc[t] = "idle"

\* A fini function has failed and the thread is at an end, or memory has run out
\* in the last round.
GivenUp == pub \in {"returned", "ended"} \/ cutShort

\* When the updates stop, the micro-ROS side ends up with the graph in the
\* cache, whatever the interleaving of the last updates with the publisher's
\* waits and queries, unless the publisher has given up.
Convergence == <>[]CallersIdle => <>[](published = Snapshot(cache) \/ GivenUp)

\* Whoever has changed the cache gets out of its on-change callback, also when
\* the publisher has ended, which leaves a callback nobody to notify: the end of
\* that thread, wherever in a round it comes, holds up neither the server nor the
\* listeners, which all need the cache's mutex (graph_manager.cpp:130-137, 281-299).
\* Nothing is said of a publisher that wakes up spuriously for ever.
CallersReturn ==
  <>[][~WakeSpuriously]_vars =>
    \A t \in Callers : pc[t] \in {"callback", "notify"} ~> pc[t] = "idle"

\* Stated by the doc of this code ("Fix memory leak in graph manager",
\* CHANGELOG.rst:39): a round frees every array the cache's getters allocated
\* in it before the next round starts.
RoundFreesItsArrays == pub = "write" => unfreed = {}

\* Stated by the comment on the loop body ("//// Get servers",
\* graph_manager.cpp:229): a node's message lists as servers the services whose
\* requests one of the node's readers takes.
ServersServe ==
  ~Pending /\ ~MessageDue =>
    \A n \in DOMAIN published : \A s \in published[n].servers :
      \E p \in DOMAIN cache.participants :
        /\ GC!HasNode(cache, p, n)
        /\ \E e \in cache.participants[p][n].readers \intersect DOMAIN cache.readers :
             cache.readers[e] = [kind |-> "request", name |-> s]
=============================================================================
