---------------------------- MODULE GraphManager ----------------------------
(***************************************************************************)
(* What a GraphManager learns of the domain, and from whom.                *)
(*                                                                         *)
(* Three threads update graphCache_ without knowing of each other:         *)
(*   - the XRCE server runs the Agent's callbacks (Agent.cpp:41-283) for   *)
(*     the participants, datawriters, datareaders, requesters and repliers *)
(*     of micro-ROS clients.  Each callback is several calls into the      *)
(*     manager, each call one step: a call into the cache, or a write of   *)
(*     the client's node info on ros_discovery_info by the auxiliary       *)
(*     datawriter the manager keeps for that client;                       *)
(*   - DDS discovery reports every participant and endpoint of the domain, *)
(*     the clients' own included (graph_manager.cpp:609-778);              *)
(*   - the reader of ros_discovery_info applies what peers announce and,   *)
(*     because it matches the manager's own auxiliary datawriters, what    *)
(*     the manager itself has written (graph_manager.cpp:551-563, 787-791).*)
(*                                                                         *)
(* Of Fast DDS the module assumes: the events of one participant arrive in *)
(* order; an auxiliary datawriter keeps its last sample only and sends it  *)
(* later (KEEP_LAST depth 1, asynchronous, graph_manager.cpp:93-99); the   *)
(* reader hands over one sample at a time, and unmatching a writer         *)
(* (delete_datawriter, a participant that leaves) waits for the sample of  *)
(* that writer being handed over.                                          *)
(***************************************************************************)
EXTENDS Naturals, Sequences

CONSTANTS
  Clients,     \* participants created for micro-ROS clients
  Roots,       \* the clients whose participant is named "/"
  NodeOf,      \* client -> its node, named after its participant
  Peers,       \* other participants of the domain
  Enclaved,    \* participants whose user data has the key "enclave"
  Writers,     \* datawriters of anyone
  Readers,     \* datareaders of anyone
  Objects,     \* XRCE objects and peers' endpoints: [kind, owner, entities]
  PeerInfos,   \* what a peer may announce: maps of nodes to their entities
  TopicOf,     \* endpoint -> its topic, as a record [kind, name]
  Before,      \* the order of the participants' gids
  NoOne

Participants == Clients \union Peers
Entities == Writers \union Readers

ASSUME ObjectsAssumption ==
  /\ Roots \subseteq Clients
  /\ Clients \intersect Peers = {}
  /\ Participants \intersect (Entities \union Objects) = {}
  /\ NoOne \notin Participants
  /\ \A o \in Objects : o.owner \in Participants
                     /\ o.entities \in Seq(Entities) /\ o.entities # <<>>

\* The endpoints of an object.  No gid is given twice.
EndpointsOf(o) == {o.entities[i] : i \in DOMAIN o.entities}

ASSUME EndpointsAssumption ==
  /\ Writers \intersect Readers = {}
  /\ \A o1, o2 \in Objects :
       o1 # o2 => EndpointsOf(o1) \intersect EndpointsOf(o2) = {}

VARIABLES
  life,        \* of participants and objects: "none", "live", "gone"
  cache,       \* graphCache_
  auxWriters,  \* the keys of micro_ros_graph_datawriters_
  announced,   \* participant -> the node info it wrote last, a set of at most one
  outbox,      \* participant -> its sample still to be delivered, likewise
  taken,       \* the sample between take_next_sample and the cache
  discovery,   \* participant -> its discovery events to be reported
  matched,     \* peers whose ros_discovery_info writer the reader knows
  xrce         \* where the XRCE server thread is

dds == <<life, discovery, matched>>
samples == <<announced, outbox, taken>>
vars == <<dds, cache, auxWriters, samples, xrce>>

GC == INSTANCE GraphCache

\* Nothing announced, nothing to be delivered.
NoSample == {}

Idle == [at |-> "idle", client |-> NoOne, object |-> NoOne, todo |-> <<>>,
         info |-> GC!NoEntries]

Discovered(id) == [status |-> "discovered", id |-> id]
Removed(id) == [status |-> "removed", id |-> id]

\* Events of all entities of an object, in order.
EventsOf(o, status) ==
  [i \in DOMAIN o.entities |-> [status |-> status, id |-> o.entities[i]]]

Live(x) == life[x] = "live"
ObjectsOf(p) == {o \in Objects : o.owner = p}

\* A plausible bug: is_reader is passed the wrong way round.
AddEntityToOther(c, e) ==
  IF e \in Writers THEN GC!AddReader(c, e, TopicOf[e])
  ELSE GC!AddWriter(c, e, TopicOf[e])

AddEntityTo(c, e) ==
  IF e \in Writers THEN GC!AddWriter(c, e, TopicOf[e])
  ELSE GC!AddReader(c, e, TopicOf[e])
RemoveEntityFrom(c, e) ==
  IF e \in Writers THEN GC!RemoveWriter(c, e) ELSE GC!RemoveReader(c, e)

\* The thread goes on to step "at" of its callback; it comes to a use of an
\* iterator past the end, or to a failed assertion.
Continue(at) == xrce' = [xrce EXCEPT !.at = at]
Undefined == Continue("undefined")

\* The reader hands over no sample; it is handing over one of p.
NothingTaken == [from |-> NoOne, nodes |-> GC!NoEntries]
BeingApplied(p) == taken.from = p

Write(p, info) ==
  /\ announced' = [announced EXCEPT ![p] = {info}]
  /\ outbox' = [outbox EXCEPT ![p] = {info}]
  /\ taken' = taken

-----------------------------------------------------------------------------
(***************************************************************************)
(* on_create_participant, on_delete_participant.                           *)
(***************************************************************************)
OnCreateParticipant(p) ==
  /\ xrce = Idle
  /\ life[p] = "none"
  /\ life' = [life EXCEPT ![p] = "live"]
  /\ discovery' = [discovery EXCEPT ![p] = Append(@, Discovered(p))]
  /\ xrce' = [Idle EXCEPT !.at = "add_participant", !.client = p]
  /\ UNCHANGED <<matched, cache, auxWriters, samples>>

\* The root participant gets no node and no auxiliary datawriter.
AddParticipant ==
  /\ xrce.at = "add_participant"
  /\ cache' = GC!AddParticipant(cache, xrce.client)
  /\ IF xrce.client \in Roots THEN xrce' = Idle ELSE Continue("add_node")
  /\ UNCHANGED <<dds, auxWriters, samples>>

AddNode ==
  LET p == xrce.client IN
  /\ xrce.at = "add_node"
  /\ IF GC!Knows(cache, p)
     THEN /\ cache' = GC!AddNode(cache, p, NodeOf[p])
          /\ xrce' = [xrce EXCEPT !.at = "first_write",
                                  !.info = cache'.participants[p]]
     ELSE Undefined /\ UNCHANGED cache
  /\ UNCHANGED <<dds, auxWriters, samples>>

\* A plausible bug: the new datawriter is not stored.
FirstWriteUnstored ==
  /\ xrce.at = "first_write"
  /\ Write(xrce.client, xrce.info)
  /\ xrce' = Idle
  /\ UNCHANGED <<dds, cache, auxWriters>>

FirstWrite ==
  /\ xrce.at = "first_write"
  /\ auxWriters' = auxWriters \union {xrce.client}
  /\ Write(xrce.client, xrce.info)
  /\ xrce' = Idle
  /\ UNCHANGED <<dds, cache>>

\* The XRCE server deletes what belongs to a participant before it.
OnDeleteParticipant(p) ==
  /\ xrce = Idle
  /\ Live(p)
  /\ \A o \in ObjectsOf(p) : ~Live(o)
  /\ xrce' = [Idle EXCEPT !.at = "remove_participant", !.client = p]
  /\ UNCHANGED <<dds, cache, auxWriters, samples>>

RemoveParticipant ==
  /\ xrce.at = "remove_participant"
  /\ cache' = GC!RemoveParticipant(cache, xrce.client)
  /\ Continue("last_write")
  /\ UNCHANGED <<dds, auxWriters, samples>>

LastWrite ==
  /\ xrce.at = "last_write"
  /\ IF xrce.client \in auxWriters
     THEN Write(xrce.client, GC!NoEntries) /\ Continue("delete_datawriter")
     ELSE Undefined /\ UNCHANGED samples
  /\ UNCHANGED <<dds, cache, auxWriters>>

\* Deleting the auxiliary datawriter drops a sample it did not send yet.  The
\* callback is over: the server deletes the participant.
DeleteAuxiliary ==
  LET p == xrce.client IN
  /\ xrce.at = "delete_datawriter"
  /\ ~BeingApplied(p)
  /\ auxWriters' = auxWriters \ {p}
  /\ outbox' = [outbox EXCEPT ![p] = NoSample]
  /\ life' = [life EXCEPT ![p] = "gone"]
  /\ discovery' = [discovery EXCEPT ![p] = Append(@, Removed(p))]
  /\ xrce' = Idle
  /\ UNCHANGED <<matched, cache, announced, taken>>

-----------------------------------------------------------------------------
(***************************************************************************)
(* The callbacks that create and delete datawriters, datareaders,          *)
(* requesters and repliers: the latter two have a datawriter and a         *)
(* datareader, in this order.                                              *)
(***************************************************************************)
CreateObject(o, kind) ==
  /\ xrce = Idle
  /\ o.kind = kind
  /\ o.owner \in Clients
  /\ Live(o.owner) /\ life[o] = "none"
  /\ life' = [life EXCEPT ![o] = "live"]
  /\ discovery' = [discovery EXCEPT ![o.owner] = @ \o EventsOf(o, "discovered")]
  /\ xrce' = [Idle EXCEPT !.at = "add_entity", !.client = o.owner,
                          !.object = o, !.todo = o.entities]
  /\ UNCHANGED <<matched, cache, auxWriters, samples>>

AddEntity ==
  /\ xrce.at = "add_entity"
  /\ cache' = AddEntityTo(cache, Head(xrce.todo))
  /\ Continue("associate_entity")
  /\ UNCHANGED <<dds, auxWriters, samples>>

AssociateEntity ==
  LET p == xrce.client
      e == Head(xrce.todo)
  IN
  /\ xrce.at = "associate_entity"
  /\ IF GC!HasNode(cache, p, NodeOf[p])
     THEN /\ cache' = IF e \in Writers THEN GC!AssociateWriter(cache, e, p, NodeOf[p])
                      ELSE GC!AssociateReader(cache, e, p, NodeOf[p])
          /\ xrce' = [xrce EXCEPT !.at = "write", !.info = cache'.participants[p]]
     ELSE Undefined /\ UNCHANGED cache
  /\ UNCHANGED <<dds, auxWriters, samples>>

WriteInfo ==
  /\ xrce.at = "write"
  /\ IF xrce.client \in auxWriters
     THEN /\ Write(xrce.client, xrce.info)
          /\ xrce' = IF Len(xrce.todo) = 1 THEN Idle
                     ELSE [xrce EXCEPT !.at = "add_entity", !.todo = Tail(@)]
     ELSE Undefined /\ UNCHANGED samples
  /\ UNCHANGED <<dds, cache, auxWriters>>

DeleteObject(o, kind) ==
  /\ xrce = Idle
  /\ o.kind = kind
  /\ o.owner \in Clients
  /\ Live(o)
  /\ xrce' = [Idle EXCEPT !.at = "remove_entity", !.client = o.owner,
                          !.object = o, !.todo = o.entities]
  /\ UNCHANGED <<dds, cache, auxWriters, samples>>

\* Removing the last entity ends the callback: the server deletes the object.
RemoveEntity ==
  /\ xrce.at = "remove_entity"
  /\ cache' = RemoveEntityFrom(cache, Head(xrce.todo))
  /\ IF Len(xrce.todo) > 1
     THEN xrce' = [xrce EXCEPT !.todo = Tail(@)] /\ UNCHANGED dds
     ELSE /\ life' = [life EXCEPT ![xrce.object] = "gone"]
          /\ discovery' = [discovery EXCEPT ![xrce.client] =
                              @ \o EventsOf(xrce.object, "removed")]
          /\ matched' = matched
          /\ xrce' = Idle
  /\ UNCHANGED <<auxWriters, samples>>

XrceCalls ==
  \/ AddParticipant \/ AddNode \/ FirstWrite
  \/ RemoveParticipant \/ LastWrite \/ DeleteAuxiliary
  \/ AddEntity \/ AssociateEntity \/ WriteInfo \/ RemoveEntity

OnCreateDatawriter(o) == CreateObject(o, "datawriter")
OnDeleteDatawriter(o) == DeleteObject(o, "datawriter")
OnCreateDatareader(o) == CreateObject(o, "datareader")
OnDeleteDatareader(o) == DeleteObject(o, "datareader")
OnCreateRequester(o) == CreateObject(o, "requester")
OnDeleteRequester(o) == DeleteObject(o, "requester")
OnCreateReplier(o) == CreateObject(o, "replier")
OnDeleteReplier(o) == DeleteObject(o, "replier")

XrceStarts ==
  \/ \E p \in Clients : OnCreateParticipant(p) \/ OnDeleteParticipant(p)
  \/ \E o \in Objects :
       \/ OnCreateDatawriter(o) \/ OnDeleteDatawriter(o)
       \/ OnCreateDatareader(o) \/ OnDeleteDatareader(o)
       \/ OnCreateRequester(o) \/ OnDeleteRequester(o)
       \/ OnCreateReplier(o) \/ OnDeleteReplier(o)

-----------------------------------------------------------------------------
(***************************************************************************)
(* The listener of the manager's own participant.                          *)
(***************************************************************************)
Event(p) == Head(discovery[p])

Report(p, status, ids) ==
  /\ discovery[p] # <<>>
  /\ Event(p).status = status
  /\ Event(p).id \in ids
  /\ discovery' = [discovery EXCEPT ![p] = Tail(@)]
  /\ UNCHANGED <<life, auxWriters, announced, taken, xrce>>

\* A plausible bug: discovery starts the participant's entry afresh.
OnParticipantDiscoveredAfresh(p) ==
  /\ Report(p, "discovered", Participants)
  /\ cache' = IF p \in Enclaved
              THEN GC!UpdateParticipantEntities(cache, p, GC!NoEntries) ELSE cache
  /\ matched' = matched \union ({p} \intersect Peers)
  /\ outbox' = outbox

OnParticipantDiscovered(p) ==
  /\ Report(p, "discovered", Participants)
  /\ cache' = IF p \in Enclaved THEN GC!AddParticipant(cache, p) ELSE cache
  /\ matched' = matched \union ({p} \intersect Peers)
  /\ outbox' = outbox

\* A plausible bug: clients are left to on_delete_participant.
OnPeerRemoved(p) ==
  /\ Report(p, "removed", Participants)
  /\ ~BeingApplied(p)
  /\ cache' = IF p \in Peers THEN GC!RemoveParticipant(cache, p) ELSE cache
  /\ matched' = matched \ {p}
  /\ outbox' = [outbox EXCEPT ![p] = NoSample]

\* Removed, or dropped when its lease ran out.  That the event waits for a sample
\* of p being applied is an assumption about how Fast DDS unmatches a writer; the
\* listener itself has no such guard.
OnParticipantRemoved(p) ==
  /\ Report(p, "removed", Participants)
  /\ ~BeingApplied(p)
  /\ cache' = GC!RemoveParticipant(cache, p)
  /\ matched' = matched \ {p}
  /\ outbox' = [outbox EXCEPT ![p] = NoSample]

OnEntityDiscovered(p) ==
  /\ Report(p, "discovered", Entities)
  /\ cache' = AddEntityTo(cache, Event(p).id)
  /\ UNCHANGED <<matched, outbox>>

\* A plausible bug: only discovered endpoints are handled.
OnEntityRemovedIgnored(p) ==
  /\ Report(p, "removed", Entities)
  /\ UNCHANGED <<cache, matched, outbox>>

OnEntityRemoved(p) ==
  /\ Report(p, "removed", Entities)
  /\ cache' = RemoveEntityFrom(cache, Event(p).id)
  /\ UNCHANGED <<matched, outbox>>

Listen(p) ==
  \/ OnParticipantDiscovered(p) \/ OnParticipantRemoved(p)
  \/ OnEntityDiscovered(p) \/ OnEntityRemoved(p)

-----------------------------------------------------------------------------
(***************************************************************************)
(* The reader of ros_discovery_info: on_data_available takes the sample    *)
(* (of a writer that is alive) and then updates the cache.                 *)
(***************************************************************************)
\* A plausible bug: the sample is read, not taken.
ReadSample(p) ==
  /\ taken = NothingTaken
  /\ p \in auxWriters \union matched
  /\ \E nodes \in outbox[p] : taken' = [from |-> p, nodes |-> nodes]
  /\ UNCHANGED <<dds, cache, auxWriters, announced, outbox, xrce>>

TakeSample(p) ==
  /\ taken = NothingTaken
  /\ p \in auxWriters \union matched
  /\ \E nodes \in outbox[p] : taken' = [from |-> p, nodes |-> nodes]
  /\ outbox' = [outbox EXCEPT ![p] = NoSample]
  /\ UNCHANGED <<dds, cache, auxWriters, announced, xrce>>

\* A plausible bug: the nodes of the sample are added to those known.
AddNodeEntitiesInfo ==
  /\ taken # NothingTaken
  /\ cache' =
       LET old == IF GC!Knows(cache, taken.from)
                  THEN cache.participants[taken.from] ELSE GC!NoEntries
          both == [n \in DOMAIN old \union DOMAIN taken.nodes |->
                     IF n \in DOMAIN taken.nodes THEN taken.nodes[n] ELSE old[n]]
       IN  GC!UpdateParticipantEntities(cache, taken.from, both)
  /\ taken' = NothingTaken
  /\ UNCHANGED <<dds, auxWriters, announced, outbox, xrce>>

UpdateNodeEntitiesInfo ==
  /\ taken # NothingTaken
  /\ cache' = GC!UpdateParticipantEntities(cache, taken.from, taken.nodes)
  /\ taken' = NothingTaken
  /\ UNCHANGED <<dds, auxWriters, announced, outbox, xrce>>

-----------------------------------------------------------------------------
(***************************************************************************)
(* The peers.                                                              *)
(***************************************************************************)
PeerAppears(q) ==
  /\ life[q] = "none"
  /\ life' = [life EXCEPT ![q] = "live"]
  /\ discovery' = [discovery EXCEPT ![q] = Append(@, Discovered(q))]
  /\ UNCHANGED <<matched, cache, auxWriters, samples, xrce>>

PeerAnnounces(q) ==
  /\ Live(q)
  /\ \E nodes \in PeerInfos : Write(q, nodes)
  /\ UNCHANGED <<dds, cache, auxWriters, xrce>>

PeerCreates(o) ==
  /\ o.owner \in Peers
  /\ Live(o.owner) /\ life[o] = "none"
  /\ life' = [life EXCEPT ![o] = "live"]
  /\ discovery' = [discovery EXCEPT ![o.owner] = @ \o EventsOf(o, "discovered")]
  /\ UNCHANGED <<matched, cache, auxWriters, samples, xrce>>

PeerDeletes(o) ==
  /\ o.owner \in Peers
  /\ Live(o)
  /\ life' = [life EXCEPT ![o] = "gone"]
  /\ discovery' = [discovery EXCEPT ![o.owner] = @ \o EventsOf(o, "removed")]
  /\ UNCHANGED <<matched, cache, auxWriters, samples, xrce>>

\* A peer leaves once its endpoints are deleted.
PeerLeaves(q) ==
  /\ Live(q)
  /\ \A o \in ObjectsOf(q) : ~Live(o)
  /\ life' = [life EXCEPT ![q] = "gone"]
  /\ discovery' = [discovery EXCEPT ![q] = Append(@, Removed(q))]
  /\ UNCHANGED <<matched, cache, auxWriters, samples, xrce>>

PeerSteps ==
  \/ \E q \in Peers : PeerAppears(q) \/ PeerAnnounces(q) \/ PeerLeaves(q)
  \/ \E o \in Objects : PeerCreates(o) \/ PeerDeletes(o)

-----------------------------------------------------------------------------
Init ==
  /\ life = [x \in Participants \union Objects |-> "none"]
  /\ cache = GC!EmptyCache
  /\ auxWriters = {}
  /\ announced = [p \in Participants |-> NoSample]
  /\ outbox = [p \in Participants |-> NoSample]
  /\ taken = NothingTaken
  /\ discovery = [p \in Participants |-> <<>>]
  /\ matched = {}
  /\ xrce = Idle

Next ==
  \/ XrceStarts \/ XrceCalls
  \/ \E p \in Participants : Listen(p) \/ TakeSample(p)
  \/ UpdateNodeEntitiesInfo
  \/ PeerSteps

\* Every thread runs on; what clients and peers do is up to them.
Fairness ==
  /\ WF_vars(XrceCalls)
  /\ \A p \in Participants : WF_vars(Listen(p)) /\ WF_vars(TakeSample(p))
  /\ WF_vars(UpdateNodeEntitiesInfo)

Spec == Init /\ [][Next]_vars /\ Fairness

-----------------------------------------------------------------------------
(***************************************************************************)
(* Properties.                                                             *)
(***************************************************************************)

\* The values the variables range over (graph_manager.hpp:296-314).
TypeOK ==
  /\ life \in [Participants \union Objects -> {"none", "live", "gone"}]
  /\ DOMAIN cache.participants \subseteq Participants
  /\ DOMAIN cache.writers \subseteq Writers
  /\ DOMAIN cache.readers \subseteq Readers
  /\ auxWriters \subseteq Clients \ Roots
  /\ DOMAIN announced = Participants /\ DOMAIN outbox = Participants
  /\ taken = NothingTaken \/ taken.from \in Participants
  /\ discovery \in [Participants ->
                      Seq([status : {"discovered", "removed"},
                           id : Participants \union Entities])]
  /\ matched \subseteq Peers
  /\ xrce.client \in Clients \union {NoOne}

\* No callback uses an iterator past the end of micro_ros_graph_datawriters_
\* or fails an assertion of the cache (graph_manager.cpp:321-350, 454-473).
CallbacksDefined == xrce.at # "undefined"

\* From the end of on_create_participant until on_delete_participant takes it
\* out, the node of a client stays in the graph, whatever discovery and the
\* manager's own samples do to the cache meanwhile.
NodeStays ==
  \A p \in auxWriters :
    ~(xrce.client = p /\ xrce.at \in {"last_write", "delete_datawriter"}) =>
      GC!HasNode(cache, p, NodeOf[p])

\* No thread has anything left to do.
AtRest ==
  /\ xrce = Idle
  /\ taken = NothingTaken
  /\ \A p \in Participants : outbox[p] = NoSample /\ discovery[p] = <<>>

\* At rest the cache has the nodes each participant announced last, and what
\* the manager announced for its clients is what it believes itself: samples
\* that overtake calls (graph_manager.cpp:334, 473, 551-563) leave no trace of
\* their own.
NodesAsAnnounced ==
  AtRest => \A p \in Participants :
              Live(p) /\ announced[p] # NoSample =>
                GC!Knows(cache, p) /\ announced[p] = {cache.participants[p]}

\* At rest the cache knows no participant that is gone: neither a late sample
\* nor a late discovery event brings one back (graph_manager.cpp:338-354,
\* 609-648).
NoGhosts ==
  AtRest => \A p \in DOMAIN cache.participants : Live(p)

\* At rest the endpoints of the cache are those that exist, although each one
\* of a client is added and removed twice, by a callback and by discovery
\* (graph_manager.cpp:356-433, 700-754).
EndpointsExist ==
  AtRest => DOMAIN cache.writers \union DOMAIN cache.readers =
              UNION {EndpointsOf(o) : o \in {x \in Objects : Live(x)}}

\* Something about p is under way: a callback for it, an event, a sample.
Busy(p) ==
  \/ discovery[p] # <<>> \/ outbox[p] # NoSample \/ BeingApplied(p)
  \/ xrce # Idle /\ xrce.client = p

View == INSTANCE DomainView WITH
  NoNodes <- GC!NoEntries,
  there <- {p \in Participants : Live(p)},
  said <- announced,
  has <- [p \in Participants |->
            UNION {EndpointsOf(o) : o \in {x \in ObjectsOf(p) : Live(x)}}],
  view <- [p \in Participants |-> IF GC!Knows(cache, p) THEN {cache.participants[p]}
                                  ELSE {}],
  seen <- [p \in Participants |->
             (DOMAIN cache.writers \union DOMAIN cache.readers)
               \intersect UNION {EndpointsOf(o) : o \in ObjectsOf(p)}],
  busy <- {p \in Participants : Busy(p)}

\* The bookkeeping implements DomainView: of a participant about which no
\* callback, event or sample is under way the cache has what it announced last
\* and the endpoints that exist, however busy the other participants are, and
\* none of their callbacks, events and samples changes that
\* (graph_manager.cpp:304-474, 551-563, 609-778).
ViewSpec == View!Spec

\* When clients and peers do nothing more, the threads come to rest: the
\* manager's own samples do not keep it busy, and deleting an auxiliary
\* datawriter waits for the reader but not for ever.
Settles ==
  <>[][~XrceStarts /\ ~PeerSteps]_vars => <>[]AtRest

\* What a callback has still to do, its writes and the events it leads to
\* weighed with what they leave to the listeners.
StepsLeft(call) ==
  CASE call.at = "add_participant" -> 5
    [] call.at = "add_node" -> 4
    [] call.at = "first_write" -> 3
    [] call.at = "remove_participant" -> 6
    [] call.at = "last_write" -> 5
    [] call.at = "delete_datawriter" -> 2
    [] call.at = "add_entity" -> 5 * Len(call.todo)
    [] call.at = "associate_entity" -> 5 * Len(call.todo) - 1
    [] call.at = "write" -> 5 * Len(call.todo) - 2
    [] call.at = "remove_entity" -> Len(call.todo) + Len(call.object.entities)
    [] OTHER -> 0

\* What is under way about p: events, samples, a callback.
Undelivered(p) == IF outbox[p] = NoSample THEN 0 ELSE 2
Applying(p) == IF BeingApplied(p) THEN 1 ELSE 0
Calling(p) == IF xrce.client = p THEN StepsLeft(xrce) ELSE 0
Backlog(p) == Len(discovery[p]) + Undelivered(p) + Applying(p) + Calling(p)

\* What the manager does by itself never makes more to do than it gets done: a
\* step of a callback or a listener shortens the backlog of one participant and
\* adds to no other's, although writes come back as samples (graph_manager.cpp:
\* 334, 350, 473) and deletions as events (graph_manager.cpp:609-778).
Drains ==
  [][~XrceStarts /\ ~PeerSteps =>
       \E p \in Participants :
         /\ Backlog(p)' < Backlog(p)
         /\ \A q \in Participants \ {p} : Backlog(q)' = Backlog(q)]_vars

\* Stated by the doc of the class ("keeps track of the existing entities in the
\* ROS 2 world, both coming from micro-ROS or from external ROS 2
\* applications", graph_manager.hpp:72-73): at rest the node of a client has
\* the entities the client has.
EntitiesTracked ==
  AtRest => \A o \in Objects : Live(o) /\ o.owner \in Clients =>
    \A i \in DOMAIN o.entities :
      LET node == cache.participants[o.owner][NodeOf[o.owner]] IN
      o.entities[i] \in node.writers \union node.readers

\* Stated by the docs of the removals ("Removes a DDS datawriter from the graph
\* tree", graph_manager.hpp:145): at rest no node lists an entity that a client
\* has deleted.
DeletedUnlisted ==
  AtRest => \A o \in Objects : life[o] = "gone" /\ Live(o.owner) =>
    \A i \in DOMAIN o.entities, n \in DOMAIN cache.participants[o.owner] :
      LET node == cache.participants[o.owner][n] IN
      o.entities[i] \notin node.writers \union node.readers
=============================================================================
