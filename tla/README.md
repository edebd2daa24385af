# A TLA+ model of the micro-ROS Agent

The micro-ROS Agent bridges micro-ROS clients (over DDS-XRCE) and a ROS 2
system (over DDS). The transport is the work of the XRCE server it embeds. What
this repository adds is a **graph manager**: it mirrors the micro-ROS clients
as ROS 2 nodes, and publishes the ROS 2 graph to the clients. Its state is
shared by at least four threads, which is why it is modelled here.

Paths below are relative to `src/micro_ros_agent/`; `graph_manager.cpp` stands
for `src/agent/graph_manager/graph_manager.cpp`.

## 1. Inventory

| Part | State | Operations | Runs on |
|---|---|---|---|
| `Agent` (`src/agent/Agent.cpp`) | `graph_manager_map_`: DDS domain -> manager | `create`, which launches the server and installs ten callbacks: create and delete of participant, datawriter, datareader, requester, replier; `find_or_create_graph_manager`; `run` | main thread; callbacks on the XRCE server thread |
| `GraphManager`, bookkeeping (`graph_manager.cpp:304-474`) | `graphCache_`, `micro_ros_graph_datawriters_` (one auxiliary datawriter of `ros_discovery_info` per client) | `add_/remove_participant`, `add_/remove_datawriter`, `add_/remove_datareader`, `associate_entity` | XRCE server thread |
| `ParticipantListener` (`:602-648`, `:700-778`) | none of its own | participant, reader and writer discovery | DDS discovery thread |
| `DatareaderListener`, `update_node_entities_info` (`:551-563`, `:780-796`) | none of its own | take a sample of `ros_discovery_info`, update the cache | DDS reader thread |
| Publisher (`:130-302`) | `graph_changed_`, `mtx_`, `cv_`, the message being built | wait, collect, write `ros_to_microros_graph` | a thread of its own |
| `rmw_dds_common::GraphCache` (external) | participants with their nodes, endpoints, a mutex, the on-change callback | updates and queries, each under the mutex; updates call the on-change callback inside it | any |
| `Demangle` (`src/agent/utils/demangle.cpp`) | none | ROS names of DDS topics and types | publisher |
| `get_name_and_namespace` (`graph_manager.cpp:565-600`) | none | a participant's name to a node's | XRCE server thread |
| Type supports, QoS conversions (`graph_typesupport.cpp`, `graph_manager.cpp:477-549, 650-698`) | none | serialisation, field by field translation | any |
| Construction and destruction of a `GraphManager` (`graph_manager.cpp:28-140`, `graph_manager.hpp:86`) | the manager's DDS entities, its publisher thread | participant, topics, reader, on-change callback, thread; a defaulted destructor | XRCE server thread; main thread |
| `main` (`src/main.cpp`) | `params` | splits the command line | main |
| Profile generator, snap, launch file, CMake | files | build and installation | none at run time |

How the parts meet:

* a client's object makes the XRCE server call a callback of the Agent, the
  callback calls the manager of the participant's domain, and each call of the
  manager is one or two updates of the cache and, usually, a write on the
  client's auxiliary datawriter, outside any lock;
* DDS discovery reports the clients' participants and endpoints as well, so most
  entries of the cache are added and removed twice, by two threads;
* the manager's own reader matches the manager's own auxiliary datawriters: what
  the manager announces for a client comes back later and is written over the
  client's entry in the cache;
* every reported update of the cache wakes the publisher, which reads the cache
  with many separate queries while it goes on changing.

What is hard, and the property each part lives by:

| Part | Hazards | Correct when |
|---|---|---|
| Publisher | lost wake-ups; changes during a round or before the thread exists; nodes that vanish between queries; queries without memory; the end of the thread | nothing is published late without a further publication owed (`FreshAtRest`, `MirrorSpec`), no wake-up is lost, no threads wait for each other's locks (`NoCircularWait`), a quiet graph gets published (`Convergence`), and those who change the graph get on with their work, whatever has become of the publisher (`CallersReturn`) |
| Bookkeeping | calls, discovery and looped-back samples overtake each other | the cache is right about a participant as soon as nothing about it is under way (`ViewSpec`), hence at rest has what exists and what was announced (`NodesAsAnnounced`, `NoGhosts`, `EndpointsExist`), and no callback meets undefined behaviour (`CallbacksDefined`, `NodeStays`) |
| The whole manager | what the bookkeeping learns and what the publisher publishes are one cache's, under four threads | at rest the micro-ROS side has the graph of the domain (`GraphPublished`), until then a publication is owed (`DomainMirrorSpec`), and it comes (`GraphArrives`) |
| Agent | callbacks installed while the server already serves; managers made on first use, from any callback | a client is kept by the one manager of its domain (`Routed`, `ManagersKept`), every reported client gets its auxiliary datawriter (`ClientsServed`), only clients served too early meet undefined behaviour (`OnlyEarlyClients`) |
| Demangle, node names | suffixes inside names, positions that wrap | names survive the round trip, one topic has one kind, and a service type is cut at a suffix or not at all (`ServiceTypesCut`) |
| Construction and destruction | the reader's listener runs before the pointer to the reader is stored; the cache changes before its callback is set; a joinable thread is destroyed | early changes are told before a client depends on them (`PeersNoticed`); no sample meets a reader that is not stored (`SamplesFindReader`, which fails) |
| Type supports | sizes, lengths, reused buffers | what is written fits and is read back (`MessagesFit`, `MessagesRestored`) |
| QoS conversions | an endpoint arrives by two ways | the same profile by both, different profiles for different policies (`SameProfile`, `ProfileTells`) |
| Command line | arguments before and after `--ros-args` | what precedes the flag arrives in order (`ArgumentsKept`) |

`PROJECT.json` lists every hazard with its line and the properties that cover it.

## 2. Modules

| Module | Models | Uses |
|---|---|---|
| `GraphCache` | the external cache: an operator per method that the program calls | |
| `GraphMirror` | abstract specification: what the publisher promises | |
| `MicrorosGraph` | callers of the cache, the on-change callback, the end of the constructor, the publisher thread | `GraphCache`, refines `GraphMirror` |
| `DomainView` | abstract specification: what the bookkeeping promises | |
| `GraphManager` | the Agent's callbacks, the manager's methods, both listeners, peers, what DDS does between them | `GraphCache`, refines `DomainView` |
| `WholeManager` | a manager as a whole: the two halves on one cache, four threads | `GraphManager`, `MicrorosGraph`, refines `GraphMirror` of the domain |
| `Agent` | start and end of the program, the map of managers for several domains, the order in which a manager is built | |
| `Demangle` | the demanglers | |
| `NodeName` | `get_name_and_namespace` | |
| `TypeSupport` | type names, sizes, `serialize`, `deserialize` | |
| `Qos` | the conversions of an endpoint's policies | |
| `AgentMain` | the command line | |
| `Conversions` | what the five modules above promise, over all bounded inputs | those five |
| `MicrorosGraphProofs`, `GraphManagerProofs`, `AgentProofs`, `ConversionsProofs` | the proofs | the module they are named after |
| `EndpointProofs`, `DomainViewProofs` | the proofs about endpoints and that `GraphManager` implements `DomainView` | `GraphManagerProofs`; `EndpointProofs` |
| `DrainProofs` | the proofs that the bookkeeping's own work comes to an end | `GraphManagerProofs` |
| `WholeManagerProofs` | the proofs about the whole manager | `DomainViewProofs`, `MicrorosGraphProofs` |
| `MCMicrorosGraph`, `MCGraphManager`, `MCWholeManager`, `MCAgent` | values of the constants | |

The program is cut in two at the cache. `MicrorosGraph` lets the callers make
*any* call into the cache in *any* order, so that what holds there holds
whatever the bookkeeping does. `GraphManager` leaves the publisher out, which
only reads the cache. `WholeManager` puts the two together again. `Agent` leaves out what a manager does inside a callback,
except for the auxiliary datawriters, and looks at what surrounds the callbacks.
Definitions whose comment begins with `A plausible bug` are not part of any
specification: they are altered versions of a definition that show that the
properties can fail.

### MicrorosGraph

| Variable | In the code |
|---|---|
| `cache`, `cacheMtx`, `onChange` | `graphCache_`, the mutex inside it, its on-change callback |
| `mtx`, `graphChanged` | `mtx_`, `graph_changed_`; `cv_` is the value `"asleep"` of `pub` |
| `pc` | for each caller: idle, in the callback before or after the locked block; for the XRCE thread, also where it is in the constructor |
| `pub` | where the publisher is; `"ended"` and `"returned"` are its two exits (`:299`, `:288`) |
| `todo`, `current`, `graphMessage` | the names still to visit, the message of the current node, `graph_message` |
| `unfreed` | the arrays of the round that no `fini` has freed |
| `cutShort` | a query of the last round found no memory; the code keeps no note of it |
| `published` | the last sample of `ros_to_microros_graph` |

A call into the cache is one step, since it holds the cache's mutex throughout;
when the callback runs, the mutex stays held over two more steps, the locked
block that sets `graph_changed_` and `notify_one`. Waiting on `cv_` is split
where the mutex allows others in: lock, test of the predicate, block, sleep,
and a spurious wake-up is possible at any time. Each query of a round is a
step, so updates fall between any two. The lists of a message are sets: the
code's order and repetitions do not matter to its reader. Node names stand for
the pair of name and namespace.

Every `fini` function may report an error, and the thread then gives up, as in
the code (`:281-289`, `:294-299`). A query by node fails when the node has vanished since
`get_node_names`, and any query in `Failing` may find no memory: the loop is
left (`:186`, `:211`, `:237`, `:262`) and the message is written as far as it got, while the
result of `get_node_names` itself is ignored (`:167`). A list without entries
takes no array. A round cut short by a vanished node is made up for, because
whoever took the node away has set the flag; one cut short for want of memory is
repeated at the next change only. The properties except what the code cannot do
then: `MessageDue` counts such a message as still owed, and `Convergence`
excepts it and the end of the thread, which it names `GivenUp`. `CallersReturn`
excepts neither: when the publisher is gone, the threads that change the cache
still lock `mtx_` and notify nobody, and must get out. In `round_leak` and
`servers_of_nodes`, `Failing` is empty, so that nothing but a vanished node cuts a
round short.

The manager is constructed by the first `on_create_participant`. Any callback
may be the one that finds no manager (`Agent.cpp:46, 62, 80, ...`), but only for
a client that was served before the callbacks were installed: that there is none
is an assumption of `MicrorosGraph` and `WholeManager`. `Agent` models those
clients.

### GraphManager

| Variable | In the code |
|---|---|
| `cache`, `auxWriters` | `graphCache_`, the keys of `micro_ros_graph_datawriters_` |
| `xrce` | the step the XRCE server's thread is at in its callback, with the callback's locals |
| `announced`, `outbox` | per participant, the last info written on `ros_discovery_info`, and the sample still to be delivered; each a set of at most one |
| `taken` | the sample between `take_next_sample` and `update_participant_entities` |
| `discovery`, `matched` | the discovery events to come of each participant, the peers whose writer the reader knows |
| `life` | which participants, objects and peers' endpoints exist |

A callback is a sequence of steps, one for each call into the cache and each
write, and everything else interleaves between them. `"undefined"` is the step
at which a callback has used the end iterator of `micro_ros_graph_datawriters_`
or failed an assertion of the cache.

Of its surroundings the module assumes:

* Fast DDS reports the discovery events of one participant in order, and those
  of different participants in any order, any time later;
* an auxiliary datawriter keeps its last sample only (`KEEP_LAST`, depth 1) and
  sends it asynchronously (`graph_manager.cpp:93-99`); deleting it may drop the
  sample;
* the reader hands over one sample at a time. Unmatching a writer, because it is
  deleted or its participant has left, waits for a sample of that writer being
  handed over: the events that remove a participant, and the deletion of an
  auxiliary datawriter, carry that as the guard `~BeingApplied(p)`, which the
  code at `:351` and `:637` does not have. What would happen without it is not
  examined;
* a sample is delivered only while its writer is matched;
* the XRCE server runs callbacks one after the other on one thread, deletes what
  belongs to a participant before the participant, and calls a delete callback
  before it deletes the DDS entity;
* the cache keeps the first of two additions of the same endpoint, and asserts
  in `add_node` and `associate_*` that the participant and the node are known.

A requester and a replier are the same sequence of calls, and so are one
object with two endpoints in `Objects`. A participant named `/` is in `Roots`.
`Enclaved` are the participants whose user data carries an enclave, the only
ones that discovery adds (`:616-634`).

`DomainView` knows of a participant whether it is there, what it announced
last, its endpoints, what the cache shows of its nodes and endpoints, and
whether it is busy: a callback for it, a discovery event of it, or a sample of
it is under way. A step is about one participant. It either has that one busy
or is the last thing that was under way about it, and then its nodes and
endpoints are shown as they are; of the others nothing changes. That is stronger than
the properties of states at rest, which a busy domain may never reach.

### WholeManager

Has the variables of both halves, of which they share `cache`. A step of
`GraphManager` that calls into the cache is at the same time the step of
`MicrorosGraph` for that call, by the thread that makes it: the XRCE server's,
the discovery listener's or the reader's. The two say the same of the cache, so
that neither half may change it in a way the other does not allow. After a
change the thread runs the on-change callback, and nothing else before it has
returned. A step that makes no call (a write, taking a sample, the creation or
deletion of an auxiliary datawriter, a failed assertion) leaves the publication
alone, and the publisher leaves the bookkeeping alone.

The manager is built inside the first `on_create_participant`
(`Agent.cpp:46`): the callback is set and the thread started before
`add_participant`, while the listeners run since `:65`. Which thread makes a
step is written as one action per thread (`ServerRuns`, `ListenerRuns`,
`ReaderRuns`, `PublisherRuns`); what begins a callback, what peers do and the
spurious wake-ups are apart, since nothing makes them happen.

`Domain` is the graph as it is in the domain: the nodes last announced and the
endpoints that exist. `GraphMirror` is instantiated a second time, with the
snapshot of `Domain` for the graph.

### Agent

| Variable | In the code |
|---|---|
| `main` | where the main thread is: in `Agent::create` (launching the server, installing callbacks), in `run`, destroying, or how it ended |
| `installed` | how many of the ten callbacks `create` has installed (`Agent.cpp:49-283`) |
| `xrce` | the callback the server's thread is in: looking for its manager, in one of four steps of the constructor, or in its last call |
| `life`, `objects` | the clients' participants and objects in the server |
| `managers` | `graph_manager_map_`, and how far a manager that is not in it yet has been built |
| `auxWriters` | per domain, the keys of `micro_ros_graph_datawriters_` |
| `unnoticed` | domains whose cache has changed with no on-change callback set, and not since |
| `undefined` | who ran into undefined behaviour |

`create` starts the server (`Agent.cpp:32`) before it installs the callbacks, so
a client may be served with some of them missing. `life` tells such clients
apart: an `unreported` participant was made before its callback was installed,
a `forgotten` one was deleted before its callback was, and its manager keeps it.
The phases of a manager are those that other threads can see: `listening` (its
participant discovers peers), `receiving` (its reader exists and calls the
listener), `stored` (`ros_discovery_datareader_` is set), `up` (the on-change
callback is set, the manager is in the map).

The destructor is the default one. It neither ends nor joins the publisher,
whose loop has no exit but an error: destroying the condition variable under a
waiting thread, and then the joinable thread, is one of `hung` and `aborted`. These
are outcomes of the last step of `main` and no property restates them. A
model of one domain is enough for everything a manager does; `Agent` is about
several. No participant is named `/` here; `root_client` is about those.

### Demangle, NodeName, TypeSupport, Qos, AgentMain

Pure functions. The state machine of `Conversions` grows one of their inputs at
a time, so that a run visits every input up to the bounds.

* *Names.* A name is a sequence of tokens: the pieces that the functions search
  for, and others that stand for any text between them. `Demangle` keeps the one
  place where a length wraps around (`demangle.cpp:177`). `_resolve_prefix` and
  `_strip_ros_prefix_if_exists` are not in this repository; they are modelled by
  what their names and callers say. `ResolvePrefix` needs a slash after the
  prefix, as ROS's mangled names have it. The type names come from
  `TypeSupport`, so `TypesRestored` relates the two.
* *Samples.* A message is the sequence of the four-byte words of its CDR form,
  which generated code writes. A payload is a buffer with a size, a length and
  the words of earlier samples. `MaxSerializedSize` is what the generated
  callbacks say of a type without bound; a payload grows for a longer message
  because the endpoints' memory policy lets it (`graph_manager.cpp:89-119`).
* *QoS.* A profile has the policies of `fastdds_qos_to_rmw_qos`. The policies
  that only Fast DDS has are represented by ownership: they are copied in the
  same way, and nothing reads them.
* *Command line.* An argument is the sequence of its words, since a launch file
  may put several words in one.

Two observations that are no properties. Of a participant `/a/b/c`,
`get_name_and_namespace` makes the namespace `/a` and the node name `b/c`, where
ROS would have `/a/b` and `c`; put together, the two are the participant's name
(`NameKept`). And a type that is no service's, but has `_Request_` before its
end, is taken for a service type, because the search of the last suffix leaves
its result behind (`demangle.cpp:162`); types of services are not affected
(`ServiceTypesAgree`), and what comes out is cut at that suffix, or not at all when
it lies before the `dds_::` and the length of the name wraps around (`ServiceTypesCut`).

## 3. Runs

| Run | Instance | Shows |
|---|---|---|
| `publication` | a participant with a node, a datawriter and a datareader, updated by the XRCE thread and a listener; frees and queries may fail; 293 thousand states | `TypeOK`, `NoLostWakeup`, `FreshAtRest`, `NoCircularWait`, `Convergence`, `CallersReturn`, and that `MicrorosGraph` implements `GraphMirror` |
| `bookkeeping` | one client with a requester, one peer with a node and a datawriter; 193 thousand states | `TypeOK`, `CallbacksDefined`, `NodeStays`, `NodesAsAnnounced`, `NoGhosts`, `EndpointsExist`, that `GraphManager` implements `DomainView`; `Settles` and `Drains`: the states at rest, of which the invariants speak, are reached, since no step makes more to do than it gets done |
| `whole_manager` | a client with a datawriter, a peer that announces nothing, all four threads, from the construction of the manager on, one of the queries (`servers`) may find no memory; 531 thousand states | `GraphPublished`, `GraphArrives`, and that the whole implements `GraphMirror` of the domain |
| `agent` | two clients on two domains, every kind of object, callbacks being installed meanwhile; 391 thousand states | `TypeOK`, `Routed`, `OnlyEarlyClients`, `PeersNoticed`, `ManagersKept`, `ClientsServed` |
| `conversions` | every name of up to five of twelve tokens, every two messages of up to four words, every QoS over two durations, every command line of up to five arguments; 274 thousand states | the properties of names, samples, QoS and arguments |

Seven runs show where the code does not do what the repository says of it:

| Run | What happens |
|---|---|
| `round_leak` | A node with a known datawriter vanishes between two queries. The `break` (`graph_manager.cpp:211`) ends the round without freeing the arrays already filled. |
| `servers_of_nodes` | The service queries (`:232`, `:257`) are over the whole domain, so each node is published with every service of the domain as its server and client. |
| `root_client` | `add_participant` makes no auxiliary datawriter for a participant named `/` (`:316`); `remove_participant` and `associate_entity` use `find(..)` as if there were one (`:350`, `:473`). |
| `lost_association` | The info written after a requester's datawriter was associated is overtaken: an older sample comes back and erases the association, the datareader is associated to what is left, and the datawriter is never listed again. |
| `deleted_listed` | `remove_datawriter` never takes the endpoint out of its node's list, so it is announced for as long as the client lives. |
| `reader_not_stored` | A peer's sample arrives between `create_datareader` and the assignment of its result (`:125-127`): the listener uses a null reader (`:555`). |
| `launch_line` | The loop of `main` stops before it stores `--ros-args` (`main.cpp:33-38`), so the branch that splits the single token of a launch file is never taken, and the token arrives as one argument. |

**Bounds.** One node that comes and goes between queries, by two threads, makes
the publisher meet a node that is there, one that has vanished and one that has
come back with other endpoints; one caller can update while the other is inside
the callback. An endpoint matters to a round only through its name and its node,
and one of either direction suffices for a change between two queries. The
refinement and the safety properties are proved for every size, so these bounds
only limit `Convergence` and `CallersReturn`. Every query fails at some point of
the run `publication`; which one fails makes no difference to the rest of a
manager, and `whole_manager` takes one. In `GraphManager` an object with two endpoints is the
longest callback, and events of two participants are the only ones that can be
reordered: a client and a peer. Two clients differ from these in their names
only, which may be the same; `ImplementsView` is proved for any of them. In
`WholeManager` a client with one endpoint is enough for each thread to be inside
the cache, the callback or neither while the others go on; an announcing peer
and a second datawriter make 1.6 million states, which is too many for
`GraphArrives`, and `GraphPublished` and `DomainMirrorSpec` are proved for
every instance. A participant and an object live
once; a later one gets a new gid in DDS. In `Agent` two clients on two domains
let one manager be built while another serves, and each client may be served at
any point of the installation of the callbacks. `Demangle` looks for two tokens
and an end, and five tokens allow a suffix twice, in any order, around other
text, or a participant's name of three segments. `MaxSerializedSize` is shorter
than the longest message, so that payloads grow, and of two messages either may
be the longer one. `MaxLength`, `MaxWords` and `MaxArguments` bound the inputs
of `Conversions` and nothing else; the proofs have no use for them.

No run uses a state constraint. Deadlock checking is off only where the system
may stop: in `GraphManager` and `WholeManager` when every participant is gone, in `Agent` when main
has ended or behaviour is undefined, in `Conversions` at the bounds.

**Fairness.** Threads run: an enabled step of the publisher, of the callback, of
a listener or of a callback of the Agent is eventually taken if it stays
enabled (weak fairness). Nothing is assumed of clients, peers and new updates,
nor of spurious wake-ups. Weak fairness is enough, and nothing is assumed about
mutexes under endless contention, because `Convergence` and `Settles` speak of
what happens once updates stop. `CallersReturn` does not wait for updates to
stop: of the mutexes it needs only that the publisher, when it has found nothing
to do, sleeps and leaves `mtx_` alone, which is why it excepts endless spurious
wake-ups.
In `WholeManager` each of the four threads is fair as a whole: of two things that
a thread could do, neither is promised. `GraphArrives` speaks of what happens
once clients and peers do nothing more and spurious wake-ups end, which a thread
that is fair as a whole could otherwise spend its steps on. In `Agent` only the server's thread is fair, once
it is in a callback: `ClientsServed` needs no more.

## 4. Proofs

All proofs are checked by TLAPS, for every value of the constants that satisfies
the assumptions named below.

| Module | Theorem | States |
|---|---|---|
| `MicrorosGraphProofs` | `TypeCorrect` | `Spec => []TypeOK` |
| | `WakeupsAreNotLost` | `Spec => []NoLostWakeup` |
| | `MirrorIsFresh` | `Spec => []FreshAtRest` |
| | `LocksAreOrdered` | `Spec => []NoCircularWait` |
| | `ImplementsMirror` | `Spec => MirrorSpec` |
| `GraphManagerProofs` | `TypeCorrect` | `Spec => []TypeOK` |
| | `NodesStay` | `Spec => []NodeStays` |
| | `CacheAgrees` | `Spec => []NodesAsAnnounced` |
| | `NothingLeft` | `Spec => []NoGhosts` |
| | `CallbacksStayDefined` | `Roots = {}` implies `Spec => []CallbacksDefined` |
| `EndpointProofs` | `EndpointsTracked` | `Spec => []EndpointsExist` |
| `DomainViewProofs` | `ImplementsView` | `Spec => ViewSpec` |
| `DrainProofs` | `WorkDrains` | `Spec => Drains` |
| | `RestIsNoBacklog` | while callbacks are defined, `AtRest` is `Backlog(p) = 0` for every `p` |
| `WholeManagerProofs` | `Bookkeeps` | `ManagerSpec` implies `GraphManager`'s `Init /\ [][Next]_vars` |
| | `Publishes` | `ManagerSpec` implies `MicrorosGraph`'s `Init /\ [][Next]_vars` |
| | `DomainIsPublished` | `ManagerSpec => []GraphPublished` |
| | `ImplementsDomainMirror` | `ManagerSpec => DomainMirrorSpec` |
| `AgentProofs` | `TypeCorrect` | `Spec => []TypeOK` |
| | `ClientsRouted` | `Spec => []Routed` |
| | `OnlyEarly` | `Spec => []OnlyEarlyClients` |
| | `NoticedBeforeServed` | `Spec => []PeersNoticed` |
| | `Keeps` | `Spec => ManagersKept` |
| `ConversionsProofs` | `KindsExclude`, `ServiceNamesArrive`, `OnlyServicesAccepted` | topics: `OneKind`, `ServicesRestored`, `OnlyServices` |
| | `NodeNamesArrive` | node names: `NameKept` |
| | `TypesArrive`, `ServiceTypesArrive`, `ServiceTypesAreCut` | types: `TypesRestored`, `ServiceTypesAgree`, `ServiceTypesCut` |
| | `SizesSuffice`, `SamplesArrive` | samples: `MessagesFit`, `MessagesRestored` |
| | `ProfilesAgree`, `ProfilesTell` | QoS: `SameProfile`, `ProfileTells` |
| | `ArgumentsArrive` | command line: `ArgumentsKept` |

### MicrorosGraphProofs

Assumes `ThreadsAssumption`: the publisher is no caller, the XRCE thread is one,
and no thread is called `NoThread`.

*Invariant.* `FreshAtRest` is not inductive. A round ends with the current graph
only if nothing changed since the round began, and that is what `graphChanged`
remembers. `Inv` therefore adds

* `Startup` and `MutexOwners`: which thread holds which mutex, and what the
  constructor has done, so that an update either runs the callback or happens
  while the first `add_participant` is still owed;
* `BlockUnchanged`: between testing the predicate and sleeping, the publisher
  holds `mtx_` and the flag stays unset. This is what `NoLostWakeup` rests on;
* `~Pending /\ ~cutShort => Collected`: with no change pending and no query out of
  memory, all that the round has collected so far equals what the cache holds, name by name and list by list,
  and the names still to visit are the rest.

The calls into the cache are first shown to be `CacheStep`s: no change, a change
nobody is told of because the callback is not installed, or a change that runs
the callback. From there on the cache's operators stay opaque: the protocol is
right for every cache that reports its changes. Only the lemma that covers the
calls that may change nothing (`UpdateIsCacheStep`) opens them.

*Locks.* `MutexOwners` says where the holder of each mutex is: a caller holds
the cache's from its update to its return from the callback, and `mtx_` for no
step that waits, the publisher holds `mtx_` between locking it and sleeping or
consuming the change, and never at a query. So whoever holds `mtx_` waits for no
lock, and there is no circle.

*Refinement.* The graph is the snapshot of the cache, a publication is owed
while a change is pending, a round is under way or the last one ran out of memory. A call is `Change`. The write
is `Publish` when nothing is pending, by `Collected`, and `PublishTorn` when
something is. Everything else stutters or is one of these.

*Types.* `TypeCorrect` needs what every operator of `GraphCache` returns, since
the cache is a record of partial functions, and that `current` is a node's
message wherever it is read.

### GraphManagerProofs

Assumes `ObjectsAssumption`: clients, peers, entities and objects are distinct,
an object has an owner and at least one entity. The properties speak of states
at rest, or of the node of a client at any time, but what could spoil them is
under way: a sample to deliver, a sample being applied, discovery events to
come, a callback half done. The inductive invariant `IInv` says what each of
them may hold.

* `OwnEvents`: the events of a participant are its own, with its removal the
  last of them, so nothing brings a participant back once it has been reported.
* `Senders`: only a client that has its auxiliary datawriter has samples on
  their way, since deleting the datawriter drops them or waits for them. A late
  sample thus never revives a client that is gone.
* `Forgotten`: of a participant whose removal was reported nothing is left in
  the cache, to be delivered or being applied. `NoGhosts` is this at rest.
* `Agreed`: the newest of the cache's entry, the sample being applied and the
  sample to be delivered is what was announced last, except between an update of
  the entry and the write that follows it. `NodesAsAnnounced` is this at rest.
* `NodeKept`: the node of a client is in the cache and in every sample that may
  overwrite it. `NodeStays` is its first half, the second is why it holds.
* `XrceSteps` and `Owners`: what the steps of a callback rely on, which is why
  no assertion of the cache fails and no iterator is past its end when there is
  no client named `/`. With one, `root_client` shows the opposite.

The module first states what the calls into the cache change (participants, and
the names of their nodes), then treats each step in a lemma of its own.

### EndpointProofs

Assumes also `EndpointsAssumption`: no gid is given twice. Each endpoint of a
client is added twice and removed twice, by a callback and by discovery, each in
its own time. Counting them is not needed: what decides is what the pending
discovery events say of the endpoint. The invariant `EInv` says of an endpoint
of an object that

* does not exist yet: no event mentions it, and the cache does not know it;
* exists: events only report its discovery, and one of them does, or the cache
  knows it, or its delete callback has begun to take it out;
* is gone: every event about it is followed by its removal, and one mentions it,
  or the cache does not know it.

Lemmas about appending to a queue of events and taking its head carry this
through the steps. With no event and no callback left it is `EndpointsExist`.

### DomainViewProofs

From the same assumptions. `NextAbout` shows each step to be about one
participant (`StepAbout`), one lemma per kind of step; this is where samples,
events and callbacks are seen to carry nothing of another participant.
`VInvShown` shows that a participant that is not busy is shown as it is, from
`IInv`, `EInv` and `Unannounced`: discovery alone adds a participant without
nodes. `StepView` puts the two together.

### DrainProofs

From the same assumptions as `GraphManagerProofs`. `Backlog(p)` counts the events
of `p` to be reported, a sample to be delivered (2), one being applied (1), and
what its callback has left, where a write weighs 3, since it leaves a sample, and
the end of a deletion as much as the events that it leads to. `CallAdvances` and
`ListenerAdvances` reduce each step to what it adds and takes away; the invariant
is needed for the lengths of what is left to do and for samples being somebody's.
`NextAdvances` then says that every step that is no client's and no peer's
shortens one backlog and leaves the others, so that only as many of them follow
each other as there is backlog. With `RestIsNoBacklog` this is the part of
`Settles` that fairness has nothing to do with; what TLC adds is that some step
is possible, and taken, until then. By `Bookkeeps` the same holds of the whole
manager.

### WholeManagerProofs

Assumes `ManagerAssumption` (the publisher is none of the other threads, and
what peers announce is info about nodes) and `GidOrder`: of any
participants one has the first gid, which is what the cache's order of
participants amounts to. All assumptions of the two halves hold as well.

*Each half keeps its steps.* For `GraphManager` that is by construction, save
for the constructor and the publisher's steps, which change nothing of it. For
`MicrorosGraph` the arguments of every call must be such as its callers may
pass: names of nodes, endpoints and infos of the right kind, which is what the
type invariant of `GraphManager` provides. From `Bookkeeps` and `Publishes` the
invariants of both halves carry over, and `WInv` is their conjunction with
`TopicsKept`, which says that the cache lists endpoints under their own topics.

*`GraphPublished`.* With nothing pending the published graph is the cache's
(`MirrorIsFresh`). At rest the cache has the domain's nodes, by `VInvShown`, and
its endpoints (`RestingNodes`, `RestingTopics`). The two are not equal: discovery
may have left the cache a participant without nodes. `SameNodes` says that they
have the same nodes, and `SameSnapshot` that this is all that a round reads; for
two participants with a node of the same name both answer for the one whose gid
comes first, which is where `GidOrder` is needed.

*Refinement.* Only the end of a round publishes (`OnlyRoundsPublish`), and
whatever changes the domain leaves an event or a callback that is owed
(`RestKeepsDomain`). So a step that leaves nothing owed publishes the graph of
the domain, by `GraphPublished` in its successor state, and every other step is
`Change` or `PublishTorn`.

### AgentProofs

Assumes `DomainsAssumption`: every client has a domain. The invariant says who
has an auxiliary datawriter, also while a callback is under way (`Kept`), that
only a participant that is there has objects or is in a callback (`Alive`), how
far the manager is built at each step of the server's thread, so that no call
meets a half-built one (`Built`), and that no callback runs before the server is
launched or after it has ended (`Served`). `Installing` is needed for the type
of `installed`.

### ConversionsProofs

Assumes `DurationsAssumption` (the default duration is one of the durations)
and `SizeAssumption` (sizes are natural numbers). The only invariant needed is
that inputs are sequences of the right kind; the rest are lemmas about the
functions: where `find` and `rfind` end (`FindIs`, `RfindIs`, from the
well-foundedness of the naturals), what a resolved prefix leaves, where the
parts of a mangled name lie (`Mangled`, `TypeParts`), that the segments of a
participant's name, each put back behind a slash, are that name, and that a reused buffer
gives back what was written last (`Middle`, `SerializeRestores`).

### Only model-checked

`Convergence`, `CallersReturn`, `Settles`, `GraphArrives` and `ClientsServed`, since they are
liveness under fairness. What the violated runs show is found by TLC.

## 5. Not modelled

* The order in which a manager's DDS entities are destroyed: `Agent` says only
  what the end of main comes to.
* The XRCE server, Fast DDS and the generated type support callbacks: external.
  They appear as the assumptions listed above. In particular, the models assume
  one server thread for all callbacks, and a reader that keeps one sample for
  each sender.
* `create_data`, `delete_data`, `compute_key` and the instance handle functions
  of the type supports: they allocate, free, or do nothing.
* The empty type name that `demangle_if_ros_type` would read past
  (`demangle.cpp:43`): every endpoint has a type name.
* `CHANGED_QOS` events of endpoints (`:735`), which neither add nor remove: nothing
  reads the profile back.
* The profile generator, the snap hooks, the launch file and the build: not part
  of the running program.
* Enclaves, type hashes and QoS inside the cache, and `display_on_change_`:
  stored or printed, never read back.

## 6. Plan

Done, in this order: `GraphCache`, `GraphMirror`, `MicrorosGraph` with its
proofs; `GraphManager`; `Demangle` and `NodeName`; `Agent` with its proofs;
`TypeSupport`, `Qos`, `AgentMain` and `Conversions`; `GraphManagerProofs`;
`ConversionsProofs`; `EndpointProofs`; `DomainView` with its proofs;
`WholeManager` with its proofs, which shows that the two halves compose;
`DrainProofs`.

Left: the same for the publisher, that a round which nobody disturbs visits every
name and ends.
