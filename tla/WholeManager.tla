---------------------------- MODULE WholeManager ----------------------------
(***************************************************************************)
(* A GraphManager as a whole: what it learns of the domain (GraphManager)  *)
(* and how it publishes the graph (MicrorosGraph), on one graphCache_.     *)
(*                                                                         *)
(* Each call into the cache that GraphManager makes is a step of one of    *)
(* the callers of MicrorosGraph: the thread of the XRCE server, the one of *)
(* DDS discovery or the one of the reader of ros_discovery_info.  The      *)
(* thread does nothing else before the on-change callback has returned.    *)
(* The manager is constructed inside the first on_create_participant       *)
(* (Agent.cpp:46); from graph_manager.cpp:65 on its listeners run.  Any    *)
(* other callback may construct it, too (Agent.cpp:62, 80, 102, ...): the  *)
(* first one is on_create_participant's if no client was served before the *)
(* callbacks were installed, which is assumed here and not in Agent.       *)
(***************************************************************************)
EXTENDS GraphManager

CONSTANTS
  ServerThread,    \* runs the Agent's callbacks
  ListenerThread,  \* reports what DDS discovers
  ReaderThread,    \* hands over samples of ros_discovery_info
  Publisher,       \* runs publish_microros_graph
  Failing,         \* queries of the cache that may fail for want of memory
  NoThread,
  NoGraph

Threads == {ServerThread, ListenerThread, ReaderThread}

NodeNames == {NodeOf[p] : p \in Clients} \union UNION {DOMAIN nodes : nodes \in PeerInfos}
Topics == {TopicOf[e] : e \in Entities}

VARIABLES
  cacheMtx, onChange, mtx, graphChanged, pc, pub, todo, current, graphMessage,
  unfreed, cutShort, published   \* as in MicrorosGraph

P == INSTANCE MicrorosGraph
       WITH Nodes <- NodeNames, Callers <- Threads, Xrce <- ServerThread

ASSUME ManagerAssumption ==
  /\ Publisher \notin Threads
  /\ NoThread \notin Threads \union {Publisher}
  /\ PeerInfos \subseteq P!NodesInfo

\* Among any participants there is one whose gid comes first.
ASSUME GidOrder ==
  \A S \in SUBSET Participants :
    S # {} => \E p \in S : \A q \in S \ {p} : <<p, q>> \in Before

bookkeeping == <<dds, auxWriters, samples, xrce>>
publication == <<cacheMtx, onChange, mtx, graphChanged, pc, pub, todo, current,
                 graphMessage, unfreed, cutShort, published>>
managerVars == <<bookkeeping, cache, publication>>

\* A step of thread t outside the cache.
OutsideCache(t) ==
  /\ pc[t] = "idle"
  /\ UNCHANGED publication

-----------------------------------------------------------------------------
(***************************************************************************)
(* The server's thread.                                                    *)
(***************************************************************************)

\* A callback begins: a client or one of its objects is created or deleted.
ServerStarts ==
  /\ XrceStarts
  /\ pc[ServerThread] \in {"idle", "construct"}
  /\ UNCHANGED publication

\* The first callback constructs the manager before it calls add_participant.
Construct ==
  /\ xrce.at = "add_participant"
  /\ P!SetOnChangeCallback \/ P!StartPublisher
  /\ UNCHANGED bookkeeping

\* The calls of thread t for an endpoint e.
AddsEntity(t, e) == IF e \in Writers THEN P!AddDatawriter(t) ELSE P!AddDatareader(t)
RemovesEntity(t, e) ==
  IF e \in Writers THEN P!RemoveDatawriter(t) ELSE P!RemoveDatareader(t)

\* A failed assertion, or a use of an iterator past the end, changes no cache.
ServerCalls ==
  \/ AddParticipant /\ (P!AddParticipant(ServerThread) \/ P!AddFirstParticipant)
  \/ RemoveParticipant /\ P!RemoveParticipant(ServerThread)
  \/ AddNode /\ IF xrce'.at = "undefined" THEN OutsideCache(ServerThread)
                ELSE P!AddNode(ServerThread)
  \/ AssociateEntity /\ IF xrce'.at = "undefined" THEN OutsideCache(ServerThread)
                        ELSE P!AssociateEntity(ServerThread)
  \/ AddEntity /\ AddsEntity(ServerThread, Head(xrce.todo))
  \/ RemoveEntity /\ RemovesEntity(ServerThread, Head(xrce.todo))
  \/ (FirstWrite \/ LastWrite \/ DeleteAuxiliary \/ WriteInfo) /\ OutsideCache(ServerThread)

-----------------------------------------------------------------------------
(***************************************************************************)
(* The other threads.                                                      *)
(***************************************************************************)

\* Nobody listens before the manager's participant is created.
Listening == xrce # Idle \/ pc[ServerThread] # "construct"

ListenerReports(p) ==
  /\ Listening
  /\ \/ /\ OnParticipantDiscovered(p)
        /\ IF p \in Enclaved THEN P!AddParticipant(ListenerThread)
           ELSE OutsideCache(ListenerThread)
     \/ OnParticipantRemoved(p) /\ P!RemoveParticipant(ListenerThread)
     \/ OnEntityDiscovered(p) /\ AddsEntity(ListenerThread, Event(p).id)
     \/ OnEntityRemoved(p) /\ RemovesEntity(ListenerThread, Event(p).id)

ReaderTakes(p) ==
  /\ Listening
  /\ TakeSample(p)
  /\ OutsideCache(ReaderThread)

ReaderUpdates ==
  /\ UpdateNodeEntitiesInfo
  /\ P!UpdateParticipantEntities(ReaderThread)

\* The on-change callback, in the thread whose call has changed the cache.
CallbackRuns(t) == P!FinishCall(t) /\ UNCHANGED bookkeeping

ServerRuns == Construct \/ ServerCalls \/ CallbackRuns(ServerThread)

ListenerRuns ==
  (\E p \in Participants : ListenerReports(p)) \/ CallbackRuns(ListenerThread)

ReaderRuns ==
  \/ \E p \in Participants : ReaderTakes(p)
  \/ ReaderUpdates \/ CallbackRuns(ReaderThread)

PublisherRuns == (P!WaitForChange \/ P!CollectAndWrite) /\ UNCHANGED bookkeeping

PublisherWakes == P!WakeSpuriously /\ UNCHANGED bookkeeping

PeersAct == PeerSteps /\ UNCHANGED publication

-----------------------------------------------------------------------------
ManagerInit == Init /\ P!Init

ManagerNext ==
  \/ ServerStarts \/ ServerRuns
  \/ ListenerRuns \/ ReaderRuns
  \/ PublisherRuns \/ PublisherWakes
  \/ PeersAct

\* Each of the four threads runs on; what clients and peers do is up to them.
\* Of what a thread could do next nothing is assumed.
ManagerFairness ==
  /\ WF_managerVars(ServerRuns)
  /\ WF_managerVars(ListenerRuns)
  /\ WF_managerVars(ReaderRuns)
  /\ WF_managerVars(PublisherRuns)

ManagerSpec == ManagerInit /\ [][ManagerNext]_managerVars /\ ManagerFairness

-----------------------------------------------------------------------------
(***************************************************************************)
(* Properties.                                                             *)
(***************************************************************************)

\* Those that have announced, and the nodes of a sample.
Announcers == {p \in Participants : Live(p) /\ announced[p] # NoSample}
NodesIn(sample) == CHOOSE nodes \in sample : TRUE

Existing == UNION {EndpointsOf(o) : o \in {x \in Objects : Live(x)}}

\* The graph of the domain as it is, whatever the manager knows of it: the
\* nodes that the participants there have announced last, the endpoints that
\* exist.
Domain ==
  [participants |-> [p \in Announcers |-> NodesIn(announced[p])],
   writers |-> [e \in Existing \intersect Writers |-> TopicOf[e]],
   readers |-> [e \in Existing \intersect Readers |-> TopicOf[e]]]

\* With nothing left to do for the listeners, the callbacks and the publisher,
\* what the micro-ROS side received last is the graph of the domain: between
\* an entity's life and the sample of ros_to_microros_graph nothing is lost,
\* overtaken or published out of date (graph_manager.cpp:130-302, 304-474,
\* 551-563, 609-778).
GraphPublished ==
  AtRest /\ ~P!Pending /\ ~P!MessageDue => published = P!Snapshot(Domain)

DomainMirror == INSTANCE GraphMirror
                  WITH graph  <- P!Snapshot(Domain),
                       mirror <- published,
                       owed   <- ~AtRest \/ P!Pending \/ P!MessageDue

\* The whole implements GraphMirror of the domain itself: from the moment an
\* entity or a participant appears, announces or goes, somebody owes the
\* publication that shows it, and no callback, event, sample or round settles
\* that debt but by showing the domain as it then is (graph_manager.cpp:130-302,
\* 304-474, 551-563, 609-778).
DomainMirrorSpec == DomainMirror!Spec

\* When clients and peers do nothing more and the publisher's spurious wake-ups
\* end, the micro-ROS side gets the graph of the domain and keeps it, unless the
\* publisher gave up or there never was a client: the threads, which wait for
\* the cache's mutex and for mtx_, do not wait for ever.
GraphArrives ==
  <>[][~ServerStarts /\ ~PeersAct /\ ~PublisherWakes]_managerVars =>
    <>[](published = P!Snapshot(Domain) \/ P!GivenUp \/ pc[ServerThread] = "construct")
=============================================================================
