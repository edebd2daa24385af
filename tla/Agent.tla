-------------------------------- MODULE Agent -------------------------------
(***************************************************************************)
(* The life of the Agent: how it starts to serve, how it makes a manager   *)
(* for each DDS domain, and how it ends.                                   *)
(*                                                                         *)
(* Agent::create launches the XRCE server on a thread of its own and then  *)
(* installs the ten callbacks, one after the other (Agent.cpp:35-283): a   *)
(* client may be served in between.  Each callback looks for the manager   *)
(* of its participant's domain and constructs it when there is none.  What *)
(* a manager does with a callback is the subject of GraphManager; here it  *)
(* keeps the participants that have an auxiliary datawriter.  No           *)
(* participant is named "/".                                               *)
(***************************************************************************)
EXTENDS Naturals, Sequences

CONSTANTS
  Domains,    \* DDS domains
  Clients,    \* participants of micro-ROS clients
  DomainOf    \* participant -> the domain its client chose

ASSUME DomainsAssumption == DomainOf \in [Clients -> Domains]

Kinds == {"datawriter", "datareader", "requester", "replier"}

\* The callbacks, in the order in which they are installed.
Callbacks ==
  <<[on |-> "create", of |-> "participant"], [on |-> "delete", of |-> "participant"],
    [on |-> "create", of |-> "datawriter"],  [on |-> "delete", of |-> "datawriter"],
    [on |-> "create", of |-> "datareader"],  [on |-> "delete", of |-> "datareader"],
    [on |-> "create", of |-> "requester"],   [on |-> "delete", of |-> "requester"],
    [on |-> "create", of |-> "replier"],     [on |-> "delete", of |-> "replier"]>>

VARIABLES
  main,        \* where the main thread is
  installed,   \* how many callbacks are installed
  xrce,        \* the callback the server's thread is in: its step and client
  life,        \* participant -> "none", "live", "unreported" (made before its
               \* callback was installed), "gone" or "forgotten" (deleted before
               \* its callback was installed: the manager keeps it)
  objects,     \* participant -> the kinds of its objects
  managers,    \* graph_manager_map_: how far each domain's manager is built
  auxWriters,  \* domain -> the keys of its manager's micro_ros_graph_datawriters_
  unnoticed,   \* domains whose cache changed before its on-change callback was
               \* set, and not since: the publisher was not told
  undefined    \* who ran into undefined behaviour, if anyone

clientVars == <<life, objects>>
managerVars == <<managers, auxWriters, unnoticed>>
vars == <<main, installed, xrce, clientVars, managerVars, undefined>>

Idle == [at |-> "idle"]

\* The calls into a manager with which callbacks end.
Calls == {"add_participant", "remove_participant", "associate_entity", "remove_entity"}

Installed(on, of) == \E i \in 1..installed : Callbacks[i] = [on |-> on, of |-> of]

-----------------------------------------------------------------------------
(***************************************************************************)
(* The main thread: main() and Agent::create.                              *)
(***************************************************************************)
MainStep == UNCHANGED <<xrce, clientVars, managerVars, undefined>>

\* The server is launched, unless its arguments are wrong.
LaunchServer ==
  /\ main = "create"
  /\ main' \in {"install", "failed"}
  /\ UNCHANGED installed
  /\ MainStep

\* A plausible bug: the loop over the callbacks runs once too often.
InstallCallbackPastEnd ==
  /\ main = "install"
  /\ installed' = installed + 1
  /\ main' = IF installed = Len(Callbacks) THEN "run" ELSE main
  /\ MainStep

InstallCallback ==
  /\ main = "install"
  /\ installed' = installed + 1
  /\ main' = IF installed' = Len(Callbacks) THEN "run" ELSE main
  /\ MainStep

\* run() returns on a signal, when the server's thread has ended.
Run ==
  /\ main = "run"
  /\ xrce = Idle
  /\ main' = "destroy"
  /\ UNCHANGED installed
  /\ MainStep

\* The Agent is destroyed and with it the managers.  The publisher of each is
\* never told to end and never joined: destroying cv_ under a thread that waits
\* in it may hang, and destroying the joinable thread aborts.
ReturnFromMain ==
  /\ main = "destroy"
  /\ IF \E d \in Domains : managers[d] = "up"
     THEN main' \in {"hung", "aborted"}
     ELSE main' = "returned"
  /\ UNCHANGED installed
  /\ MainStep

-----------------------------------------------------------------------------
(***************************************************************************)
(* What clients ask of the server, and the start of the callbacks.         *)
(***************************************************************************)
Serving == main \in {"install", "run"} /\ xrce = Idle

\* A callback that finds its manager and then takes step "call".
Start(c, call) == xrce' = [at |-> "find", client |-> c, call |-> call]

CreateParticipant(c) ==
  /\ Serving
  /\ life[c] = "none"
  /\ IF Installed("create", "participant")
     THEN /\ life' = [life EXCEPT ![c] = "live"]
          /\ Start(c, "add_participant")
     ELSE /\ life' = [life EXCEPT ![c] = "unreported"]
          /\ UNCHANGED xrce
  /\ UNCHANGED <<main, installed, objects, managerVars, undefined>>

DeleteParticipant(c) ==
  /\ Serving
  /\ life[c] \in {"live", "unreported"}
  /\ objects[c] = {}
  /\ IF Installed("delete", "participant")
     THEN Start(c, "remove_participant") /\ UNCHANGED life
     ELSE /\ life' = [life EXCEPT ![c] = IF @ = "live" THEN "forgotten" ELSE "gone"]
          /\ UNCHANGED xrce
  /\ UNCHANGED <<main, installed, objects, managerVars, undefined>>

CreateObject(c, kind) ==
  /\ Serving
  /\ life[c] \in {"live", "unreported"}
  /\ kind \notin objects[c]
  /\ objects' = [objects EXCEPT ![c] = @ \union {kind}]
  /\ IF Installed("create", kind) THEN Start(c, "associate_entity") ELSE UNCHANGED xrce
  /\ UNCHANGED <<main, installed, life, managerVars, undefined>>

DeleteObject(c, kind) ==
  /\ Serving
  /\ kind \in objects[c]
  /\ objects' = [objects EXCEPT ![c] = @ \ {kind}]
  /\ IF Installed("delete", kind) THEN Start(c, "remove_entity") ELSE UNCHANGED xrce
  /\ UNCHANGED <<main, installed, life, managerVars, undefined>>

Requests ==
  \E c \in Clients :
    \/ CreateParticipant(c) \/ DeleteParticipant(c)
    \/ \E kind \in Kinds : CreateObject(c, kind) \/ DeleteObject(c, kind)

-----------------------------------------------------------------------------
(***************************************************************************)
(* find_or_create_graph_manager, and the constructor as far as others can  *)
(* see it: its participant listens, its reader exists, its reader is       *)
(* stored, the cache has its on-change callback and the map the manager.   *)
(***************************************************************************)
\* A plausible bug: the first manager there is serves every domain.
ManagerOfAny(c) ==
  IF \E d \in Domains : managers[d] = "up"
  THEN CHOOSE d \in Domains : managers[d] = "up" ELSE DomainOf[c]

ManagerOf(c) == DomainOf[c]

Own == ManagerOf(xrce.client)
Build(phase) == managers' = [managers EXCEPT ![Own] = phase]
Continue(at) == xrce' = [xrce EXCEPT !.at = at]
CallbackStep == UNCHANGED <<main, installed, clientVars, undefined>>

\* A plausible bug: a manager is made without looking for one.
CreateGraphManager ==
  /\ xrce.at = "find"
  /\ Build("listening")
  /\ auxWriters' = [auxWriters EXCEPT ![Own] = {}]
  /\ Continue("create_datareader")
  /\ UNCHANGED unnoticed
  /\ CallbackStep

FindOrCreateGraphManager ==
  /\ xrce.at = "find"
  /\ IF managers[Own] = "up"
     THEN Continue(xrce.call) /\ UNCHANGED managers
     ELSE Continue("create_datareader") /\ Build("listening")
  /\ UNCHANGED <<auxWriters, unnoticed>>
  /\ CallbackStep

CreateDatareader ==
  /\ xrce.at = "create_datareader"
  /\ Build("receiving")
  /\ Continue("store_datareader")
  /\ UNCHANGED <<auxWriters, unnoticed>>
  /\ CallbackStep

StoreDatareader ==
  /\ xrce.at = "store_datareader"
  /\ Build("stored")
  /\ Continue("set_callback")
  /\ UNCHANGED <<auxWriters, unnoticed>>
  /\ CallbackStep

\* A plausible bug: the callback ends when it had to make the manager.
SetOnChangeCallbackOnly ==
  /\ xrce.at = "set_callback"
  /\ Build("up")
  /\ xrce' = Idle
  /\ UNCHANGED <<auxWriters, unnoticed>>
  /\ CallbackStep

SetOnChangeCallback ==
  /\ xrce.at = "set_callback"
  /\ Build("up")
  /\ Continue(xrce.call)
  /\ UNCHANGED <<auxWriters, unnoticed>>
  /\ CallbackStep

-----------------------------------------------------------------------------
(***************************************************************************)
(* The calls into the manager, each the end of its callback.               *)
(***************************************************************************)
Return(at) ==
  /\ xrce.at = at
  /\ xrce' = Idle
  /\ UNCHANGED <<main, installed, objects, managers>>

\* The cache changes and its callback is set: the publisher is told.
Notice(d) == unnoticed' = unnoticed \ {d}

\* A plausible bug: the cache waits for the announcement to come back.
AnnounceParticipant ==
  /\ Return("add_participant")
  /\ auxWriters' = [auxWriters EXCEPT ![Own] = @ \union {xrce.client}]
  /\ UNCHANGED <<life, unnoticed, undefined>>

AddParticipant ==
  /\ Return("add_participant")
  /\ auxWriters' = [auxWriters EXCEPT ![Own] = @ \union {xrce.client}]
  /\ Notice(Own)
  /\ UNCHANGED <<life, undefined>>

\* remove_participant and associate_entity use the participant's auxiliary
\* datawriter without asking whether there is one.
UseAuxWriter == undefined' = IF xrce.client \in auxWriters[Own] THEN undefined
                             ELSE "callback"

RemoveParticipant ==
  /\ Return("remove_participant")
  /\ UseAuxWriter
  /\ auxWriters' = [auxWriters EXCEPT ![Own] = @ \ {xrce.client}]
  /\ Notice(Own)
  /\ life' = [life EXCEPT ![xrce.client] = "gone"]

AssociateEntity ==
  /\ Return("associate_entity")
  /\ UseAuxWriter
  /\ Notice(Own)
  /\ UNCHANGED <<life, auxWriters>>

\* The cache changes if it knew the entity.
RemoveEntity ==
  /\ Return("remove_entity")
  /\ IF life[xrce.client] = "live" THEN Notice(Own) ELSE UNCHANGED unnoticed
  /\ UNCHANGED <<life, auxWriters, undefined>>

RunCallback ==
  \/ FindOrCreateGraphManager \/ CreateDatareader \/ StoreDatareader
  \/ SetOnChangeCallback
  \/ AddParticipant \/ RemoveParticipant \/ AssociateEntity \/ RemoveEntity

OutsideStep == UNCHANGED <<main, installed, xrce, clientVars, managers, auxWriters>>

\* A peer is discovered while the manager's cache has no on-change callback.
OnDiscoveryBeforeCallback(d) ==
  /\ managers[d] \in {"listening", "receiving", "stored"}
  /\ unnoticed' = unnoticed \union {d}
  /\ UNCHANGED undefined
  /\ OutsideStep

\* A peer is discovered when the publisher can be told.
OnDiscovery(d) ==
  /\ managers[d] = "up"
  /\ Notice(d)
  /\ UNCHANGED undefined
  /\ OutsideStep

\* A peer's sample reaches the reader: on_data_available uses
\* ros_discovery_datareader_, which is null until the reader is stored.
OnDataAvailable(d) ==
  /\ managers[d] = "receiving"
  /\ undefined' = "reader"
  /\ UNCHANGED unnoticed
  /\ OutsideStep

-----------------------------------------------------------------------------
Init ==
  /\ main = "create"
  /\ installed = 0
  /\ xrce = Idle
  /\ life = [c \in Clients |-> "none"]
  /\ objects = [c \in Clients |-> {}]
  /\ managers = [d \in Domains |-> "none"]
  /\ auxWriters = [d \in Domains |-> {}]
  /\ unnoticed = {}
  /\ undefined = "nobody"

\* Nothing is said of the program once its behaviour is undefined.
Next ==
  /\ undefined = "nobody"
  /\ \/ LaunchServer \/ InstallCallback \/ Run \/ ReturnFromMain
     \/ Requests
     \/ RunCallback
     \/ \E d \in Domains :
          OnDiscoveryBeforeCallback(d) \/ OnDiscovery(d) \/ OnDataAvailable(d)

\* The server's thread goes on with a callback it has started.
Fairness == WF_vars(undefined = "nobody" /\ RunCallback)

Spec == Init /\ [][Next]_vars /\ Fairness

-----------------------------------------------------------------------------
\* The client whose callback the server's thread is in, if it is in one.
InCallback == IF xrce = Idle THEN {} ELSE {xrce.client}

\* Every variable stays in its domain (Agent.hpp:47-48, graph_manager.hpp:287-314).
TypeOK ==
  /\ main \in {"create", "install", "failed", "run", "destroy",
               "hung", "aborted", "returned"}
  /\ installed \in 0..Len(Callbacks)
  /\ xrce \in {Idle} \union
       [at : {"find", "create_datareader", "store_datareader", "set_callback"}
               \union Calls,
        client : Clients, call : Calls]
  /\ life \in [Clients -> {"none", "live", "unreported", "gone", "forgotten"}]
  /\ objects \in [Clients -> SUBSET Kinds]
  /\ managers \in [Domains -> {"none", "listening", "receiving", "stored", "up"}]
  /\ auxWriters \in [Domains -> SUBSET Clients]
  /\ unnoticed \subseteq Domains
  /\ undefined \in {"nobody", "callback", "reader"}

\* A client whose participant was reported, and whose report is not being
\* handled, has its auxiliary datawriter in the manager of its domain, which is
\* in the map; no other manager has one for it, and no other client has one
\* (find_or_create_graph_manager, Agent.cpp:294-309).
Routed ==
  \A c \in Clients, d \in Domains :
    c \notin InCallback =>
      (c \in auxWriters[d] <=> life[c] \in {"live", "forgotten"} /\ DomainOf[c] = d)

\* Only the callbacks of a client that was served before the first callback was
\* installed find no auxiliary datawriter (Agent.cpp:35-52, graph_manager.cpp:345-352).
OnlyEarlyClients ==
  xrce.at \in {"associate_entity", "remove_participant"} =>
    \/ xrce.client \in auxWriters[DomainOf[xrce.client]]
    \/ life[xrce.client] = "unreported"

\* What the cache learned before it could tell the publisher, it has told by the
\* time a client's participant is added (graph_manager.cpp:130-137, 312): no
\* client waits for a graph with the peers discovered during the construction.
PeersNoticed == \A d \in unnoticed : auxWriters[d] = {}

\* A manager, once in the map, is never replaced: the auxiliary datawriters it
\* has stay until their participants are removed (Agent.cpp:297-308).
ManagersKept ==
  [][\A d \in Domains : managers[d] = "up" =>
       /\ managers'[d] = "up"
       /\ \A c \in auxWriters[d] \ auxWriters'[d] : life'[c] = "gone"]_vars

\* A client whose participant is reported gets its auxiliary datawriter, also
\* when the manager of its domain has to be made first, unless a sample reaches
\* the half-made reader (Agent.cpp:46-47).
ClientsServed ==
  \A c \in Clients :
    life[c] = "live" ~> (c \in auxWriters[DomainOf[c]] \/ undefined = "reader")

\* The comment of update_node_entities_info (graph_manager.hpp:269-271): graph
\* information is updated upon new data received in ros_discovery_info; new data
\* never finds a manager without its reader.
SamplesFindReader == undefined # "reader"
=============================================================================
