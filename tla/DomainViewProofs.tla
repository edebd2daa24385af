-------------------------- MODULE DomainViewProofs --------------------------
(***************************************************************************)
(* Proof that GraphManager implements DomainView, for any clients, peers,  *)
(* objects and samples.  It uses the inductive invariants of               *)
(* GraphManagerProofs and EndpointProofs twice: to show that each step is  *)
(* about one participant, and that a participant about which nothing is    *)
(* under way is shown as DomainView demands.                               *)
(***************************************************************************)
EXTENDS EndpointProofs

\* The nodes of a participant that announced none: it has none, but for the
\* client's own node that on_create_participant is about to announce.
Unannounced(p) ==
  Live(p) /\ announced[p] = NoSample /\ GC!Knows(cache, p)
    /\ ~(xrce.client = p /\ xrce.at = "first_write") =>
    cache.participants[p] = GC!NoEntries

\* The server's thread is in a callback for p.
Served(p) == xrce # Idle /\ xrce.client = p

\* What a step about p leaves alone: everything about the others.
LeavesOthers(p) ==
  /\ OnlyEntry(cache, cache', p)
  /\ \A q \in Participants \ {p} :
       /\ life'[q] = life[q] /\ discovery'[q] = discovery[q]
       /\ announced'[q] = announced[q] /\ outbox'[q] = outbox[q]
       /\ BeingApplied(q)' <=> BeingApplied(q)
  /\ \/ xrce' = xrce
     \/ xrce.client \in {p, NoOne} /\ xrce'.client \in {p, NoOne}

\* The same of the endpoints.
EndpointsAbout(p) ==
  /\ \A o \in Objects \ ObjectsOf(p) :
       /\ life'[o] = life[o]
       /\ \A e \in EndpointsOf(o) : e \in Known' <=> e \in Known
  /\ Busy(p)' \/ \A o \in ObjectsOf(p) : life'[o] = life[o]

\* A step about p: it has p busy, or adds nothing to what p is, has or said.
StepAbout(p) ==
  /\ LeavesOthers(p) /\ EndpointsAbout(p)
  /\ Busy(p)' \/ (Busy(p) /\ life'[p] = life[p] /\ announced'[p] = announced[p])
  /\ Unannounced(p) => Unannounced(p)'

-----------------------------------------------------------------------------
(***************************************************************************)
(* Each step is about one participant.                                     *)
(***************************************************************************)
LEMMA NonEmptyEvents ==
  ASSUME ObjectsAssumption, NEW o \in Objects, NEW status \in {"discovered", "removed"},
         NEW q \in Seq(Events)
  PROVE  q \o EventsOf(o, status) # <<>>
<1>1. /\ o.entities \in Seq(Entities) /\ o.entities # <<>>
      /\ EventsOf(o, status) \in Seq(Events)
  BY EntityEvents DEF ObjectsAssumption
<1>2. Len(o.entities) \in Nat /\ Len(o.entities) # 0 /\ DOMAIN o.entities = 1..Len(o.entities)
  BY <1>1, EmptySeq, LenProperties
<1>3. Len(EventsOf(o, status)) \in Nat /\ DOMAIN EventsOf(o, status) = 1..Len(EventsOf(o, status))
  BY <1>1, LenProperties
<1>4. DOMAIN EventsOf(o, status) = DOMAIN o.entities
  BY DEF EventsOf
<1>5. Len(EventsOf(o, status)) # 0
  BY <1>2, <1>3, <1>4
<1>6. Len(q \o EventsOf(o, status)) = Len(q) + Len(EventsOf(o, status)) /\ Len(q) \in Nat
  BY <1>1, ConcatProperties, LenProperties
<1> QED
  BY <1>3, <1>5, <1>6, EmptySeq

LEMMA NotIdle ==
  ASSUME DOMAIN xrce = {"at", "client", "object", "todo", "info"}, NEW at, at # "idle"
  PROVE  /\ [xrce EXCEPT !.at = at] # Idle
         /\ [xrce EXCEPT !.at = at].client = xrce.client
         /\ [xrce EXCEPT !.at = at].at = at
BY DEF Idle

\* A step of a callback for c.
LEMMA CallFacts ==
  ASSUME IInv, xrce.at \in Starts \union Ends \union Works
  PROVE  /\ xrce.client \in Participants /\ Served(xrce.client) /\ Busy(xrce.client)
         /\ life[xrce.client] = "live" /\ xrce.client # NoOne
         /\ DOMAIN xrce = {"at", "client", "object", "todo", "info"}
BY ObjectsAssumption DEF IInv, Types, XrceSteps, Served, Busy, Idle, Starts, Ends, Works,
   Participants

\* A step that is about no endpoint.
LEMMA NoEndpoint ==
  ASSUME NEW p, \A o \in Objects : life'[o] = life[o], Known' = Known
  PROVE  EndpointsAbout(p)
BY DEF EndpointsAbout, ObjectsOf

LEMMA AddParticipantAbout ==
  ASSUME IInv, AddParticipant
  PROVE  \E c \in Participants : StepAbout(c)
<1>1. PICK c \in Participants :
      /\ c = xrce.client /\ Busy(c) /\ CacheOK(cache)
      /\ xrce.at = "add_participant"
      /\ DOMAIN xrce = {"at", "client", "object", "todo", "info"}
  BY CallFacts DEF AddParticipant, Starts, IInv, Types
<1>2. /\ cache' = GC!AddParticipant(cache, c)
      /\ OnlyEntry(cache, cache', c)
      /\ xrce'.client \in {c, NoOne} /\ xrce'.at # "first_write"
      /\ UNCHANGED <<dds, auxWriters, samples>>
  BY <1>1, NotIdle, AddParticipantCall DEF AddParticipant, Continue, Idle
<1> WITNESS c \in Participants
<1>3. Unannounced(c) => Unannounced(c)'
  BY <1>1, <1>2 DEF Unannounced, GC!AddParticipant, GC!Knows, GC!Put, CacheOK, Live, dds,
     samples
<1>4. LeavesOthers(c)
  BY <1>1, <1>2 DEF LeavesOthers, dds, samples, BeingApplied
<1>9. EndpointsAbout(c)
  BY <1>1, <1>2, NoEndpoint, NodeCalls DEF dds
<1> QED
  BY <1>1, <1>2, <1>3, <1>4, <1>9 DEF StepAbout, dds, samples

LEMMA AddNodeAbout ==
  ASSUME IInv, AddNode
  PROVE  \E c \in Participants : StepAbout(c)
<1>1. PICK c \in Participants :
      /\ c = xrce.client /\ Busy(c) /\ CacheOK(cache) /\ GC!Knows(cache, c)
      /\ DOMAIN xrce = {"at", "client", "object", "todo", "info"}
  BY CallFacts DEF AddNode, Starts, IInv, Types, XrceSteps
<1>2. /\ cache' = GC!AddNode(cache, c, NodeOf[c])
      /\ xrce' = [xrce EXCEPT !.at = "first_write", !.info = cache'.participants[c]]
      /\ UNCHANGED <<dds, auxWriters, samples>>
  BY <1>1 DEF AddNode
<1>3. OnlyEntry(cache, cache', c)
  BY <1>1, <1>2, AddNodeCall
<1>4. xrce'.client = c /\ xrce'.at = "first_write"
  BY <1>1, <1>2
<1> WITNESS c \in Participants
<1>5. Unannounced(c)'
  BY <1>4 DEF Unannounced
<1>6. LeavesOthers(c)
  BY <1>1, <1>2, <1>3, <1>4 DEF LeavesOthers, dds, samples, BeingApplied
<1>9. EndpointsAbout(c)
  BY <1>1, <1>2, NoEndpoint, NodeCalls DEF dds
<1> QED
  BY <1>1, <1>2, <1>5, <1>6, <1>9 DEF StepAbout, dds, samples

LEMMA FirstWriteAbout ==
  ASSUME IInv, FirstWrite
  PROVE  \E c \in Participants : StepAbout(c)
<1>1. PICK c \in Participants : c = xrce.client
  BY CallFacts DEF FirstWrite, Starts
<1>2. /\ announced' = [announced EXCEPT ![c] = {xrce.info}]
      /\ outbox' = [outbox EXCEPT ![c] = {xrce.info}]
      /\ xrce' = Idle /\ UNCHANGED <<dds, cache, taken>>
      /\ DOMAIN announced = Participants /\ DOMAIN outbox = Participants
  BY <1>1 DEF FirstWrite, Write, IInv, Types
<1> WITNESS c \in Participants
<1>3. outbox'[c] # NoSample /\ announced'[c] # NoSample
  BY <1>2 DEF NoSample
<1>4. LeavesOthers(c)
  BY <1>1, <1>2 DEF LeavesOthers, dds, BeingApplied, OnlyEntry, Idle
<1>9. EndpointsAbout(c)
  BY <1>2, NoEndpoint DEF dds, Known
<1> QED
  BY <1>3, <1>4, <1>9 DEF StepAbout, Busy, Unannounced

LEMMA RemoveParticipantAbout ==
  ASSUME IInv, RemoveParticipant
  PROVE  \E c \in Participants : StepAbout(c)
<1>1. PICK c \in Participants :
      /\ c = xrce.client /\ Busy(c) /\ CacheOK(cache)
      /\ DOMAIN xrce = {"at", "client", "object", "todo", "info"}
  BY CallFacts DEF RemoveParticipant, Ends, IInv, Types
<1>2. /\ cache' = GC!RemoveParticipant(cache, c)
      /\ xrce' = [xrce EXCEPT !.at = "last_write"]
      /\ UNCHANGED <<dds, auxWriters, samples>>
  BY <1>1 DEF RemoveParticipant, Continue
<1>3. OnlyEntry(cache, cache', c) /\ ~GC!Knows(cache', c)
  BY <1>1, <1>2, RemoveParticipantCall
<1>4. xrce'.client = c
  BY <1>1, <1>2
<1> WITNESS c \in Participants
<1>5. Unannounced(c)'
  BY <1>3 DEF Unannounced
<1>6. LeavesOthers(c)
  BY <1>1, <1>2, <1>3, <1>4 DEF LeavesOthers, dds, samples, BeingApplied
<1>9. EndpointsAbout(c)
  BY <1>1, <1>2, NoEndpoint, NodeCalls DEF dds
<1> QED
  BY <1>1, <1>2, <1>5, <1>6, <1>9 DEF StepAbout, dds, samples

LEMMA LastWriteAbout ==
  ASSUME IInv, LastWrite
  PROVE  \E c \in Participants : StepAbout(c)
<1>1. PICK c \in Participants :
      /\ c = xrce.client /\ Busy(c) /\ xrce.at = "last_write"
      /\ DOMAIN announced = Participants /\ DOMAIN outbox = Participants
      /\ DOMAIN xrce = {"at", "client", "object", "todo", "info"}
  BY CallFacts DEF LastWrite, Ends, IInv, Types
<1>2. \/ Write(c, GC!NoEntries) /\ xrce' = [xrce EXCEPT !.at = "delete_datawriter"]
      \/ UNCHANGED samples /\ xrce' = [xrce EXCEPT !.at = "undefined"]
  BY <1>1 DEF LastWrite, Continue, Undefined
<1>3. UNCHANGED <<dds, cache>>
  BY DEF LastWrite
<1>4. xrce'.client = c /\ Busy(c)'
  BY <1>1, <1>2 DEF Busy, Idle
<1> WITNESS c \in Participants
<1>5. announced'[c] # NoSample \/ UNCHANGED samples
  BY <1>1, <1>2 DEF Write, NoSample
<1>6. Unannounced(c) => Unannounced(c)'
  BY <1>1, <1>3, <1>5 DEF Unannounced, Live, dds, samples
<1>7. LeavesOthers(c)
  BY <1>1, <1>2, <1>3, <1>4 DEF LeavesOthers, dds, samples, BeingApplied, Write, OnlyEntry
<1>9. EndpointsAbout(c)
  BY <1>3, NoEndpoint DEF dds, Known
<1> QED
  BY <1>4, <1>6, <1>7, <1>9 DEF StepAbout

LEMMA DeleteAuxiliaryAbout ==
  ASSUME IInv, DeleteAuxiliary
  PROVE  \E c \in Participants : StepAbout(c)
<1>1. PICK c \in Participants :
      /\ c = xrce.client /\ \A o \in Objects : o # c
      /\ DOMAIN outbox = Participants
      /\ discovery \in [Participants -> Seq(Events)]
      /\ life \in [Participants \union Objects -> {"none", "live", "gone"}]
  BY CallFacts, ObjectsAssumption DEF DeleteAuxiliary, Ends, IInv, Types
<1>2. /\ outbox' = [outbox EXCEPT ![c] = NoSample]
      /\ life' = [life EXCEPT ![c] = "gone"]
      /\ discovery' = [discovery EXCEPT ![c] = Append(@, Removed(c))]
      /\ xrce' = Idle
      /\ UNCHANGED <<cache, announced, taken>>
  BY <1>1 DEF DeleteAuxiliary
<1>3. Append(discovery[c], Removed(c)) # <<>>
  BY <1>1, EventFacts, AppendEvent
<1>4. discovery'[c] # <<>> /\ life'[c] = "gone"
  BY <1>1, <1>2, <1>3
<1> WITNESS c \in Participants
<1>5. LeavesOthers(c)
  BY <1>1, <1>2 DEF LeavesOthers, BeingApplied, OnlyEntry, Idle
<1>9. EndpointsAbout(c)
  BY <1>1, <1>2, NoEndpoint DEF Known
<1> QED
  BY <1>4, <1>5, <1>9 DEF StepAbout, Busy, Unannounced, Live

\* A callback begins: all it does is to note what it is about, or to add what
\* the server has created.
LEMMA StartsAbout ==
  ASSUME IInv, NEW c \in Clients, xrce = Idle, xrce'.client = c, xrce'.at # "idle",
         xrce'.at # "first_write",
         UNCHANGED <<cache, samples>>,
         \A q \in Participants \ {c} : life'[q] = life[q] /\ discovery'[q] = discovery[q],
         life'[c] # life[c] => ~GC!Knows(cache, c),
         \A o \in Objects \ ObjectsOf(c) : life'[o] = life[o]
  PROVE  \E p \in Participants : StepAbout(p)
<1>1. c \in Participants /\ Busy(c)'
  BY DEF Participants, Busy, Idle
<1>2. LeavesOthers(c)
  BY DEF LeavesOthers, samples, BeingApplied, OnlyEntry, Idle
<1>3. Unannounced(c) => Unannounced(c)'
  BY DEF Unannounced, Live, samples, Idle, GC!Knows
<1>4. EndpointsAbout(c)
  BY <1>1 DEF EndpointsAbout, Known
<1>5. StepAbout(c)
  BY <1>1, <1>2, <1>3, <1>4 DEF StepAbout
<1> QED
  BY <1>1, <1>5

LEMMA OnCreateParticipantAbout ==
  ASSUME IInv, NEW c \in Clients, OnCreateParticipant(c)
  PROVE  \E p \in Participants : StepAbout(p)
<1>1. ~GC!Knows(cache, c)
  BY DEF IInv, Forgotten, OnCreateParticipant, Participants
<1>2. \A q \in Participants \ {c} : life'[q] = life[q] /\ discovery'[q] = discovery[q]
  BY DEF OnCreateParticipant, IInv, Types
<1>3. /\ xrce = Idle /\ xrce'.client = c /\ xrce'.at = "add_participant"
      /\ UNCHANGED <<cache, samples>>
  BY DEF OnCreateParticipant, Idle
<1>4. \A o \in Objects : life'[o] = life[o]
  BY ObjectsAssumption DEF OnCreateParticipant, Participants, IInv, Types
<1> QED
  BY <1>1, <1>2, <1>3, <1>4, StartsAbout

LEMMA OnDeleteParticipantAbout ==
  ASSUME IInv, NEW c \in Clients, OnDeleteParticipant(c)
  PROVE  \E p \in Participants : StepAbout(p)
<1>1. /\ xrce = Idle /\ xrce'.client = c /\ xrce'.at = "remove_participant"
      /\ UNCHANGED <<cache, samples>> /\ life' = life /\ discovery' = discovery
  BY DEF OnDeleteParticipant, Idle, dds
<1> QED
  BY <1>1, StartsAbout

LEMMA CreateObjectAbout ==
  ASSUME IInv, NEW o \in Objects, NEW kind, CreateObject(o, kind)
  PROVE  \E p \in Participants : StepAbout(p)
<1>1. o.owner \in Clients /\ o.owner \in Participants /\ o \notin Participants
  BY ObjectsAssumption DEF CreateObject, Participants
<1>2. \A q \in Participants : life'[q] = life[q]
  BY <1>1 DEF CreateObject, IInv, Types
<1>3. \A q \in Participants \ {o.owner} : discovery'[q] = discovery[q]
  BY DEF CreateObject, IInv, Types
<1>4. /\ xrce = Idle /\ xrce'.client = o.owner /\ xrce'.at = "add_entity"
      /\ UNCHANGED <<cache, samples>>
  BY DEF CreateObject, Idle
<1>5. \A x \in Objects \ ObjectsOf(o.owner) : life'[x] = life[x]
  BY DEF CreateObject, ObjectsOf, IInv, Types
<1> QED
  BY <1>1, <1>2, <1>3, <1>4, <1>5, StartsAbout

LEMMA DeleteObjectAbout ==
  ASSUME IInv, NEW o \in Objects, NEW kind, DeleteObject(o, kind)
  PROVE  \E p \in Participants : StepAbout(p)
<1>1. /\ xrce = Idle /\ xrce'.client = o.owner /\ xrce'.at = "remove_entity"
      /\ UNCHANGED <<cache, samples>> /\ life' = life /\ discovery' = discovery
      /\ o.owner \in Clients
  BY DEF DeleteObject, Idle, dds
<1> QED
  BY <1>1, StartsAbout

LEMMA AddEntityAbout ==
  ASSUME IInv, EInv, AddEntity
  PROVE  \E p \in Participants : StepAbout(p)
<1>1. PICK c \in Participants :
      /\ c = xrce.client /\ Busy(c) /\ CacheOK(cache) /\ xrce.at = "add_entity"
      /\ Head(xrce.todo) \in Entities
      /\ DOMAIN xrce = {"at", "client", "object", "todo", "info"}
  BY CallFacts, TailOfTodo DEF AddEntity, Works, IInv, Types, XrceSteps
<1>2. /\ cache'.participants = cache.participants
      /\ xrce' = [xrce EXCEPT !.at = "associate_entity"]
      /\ UNCHANGED <<dds, samples>>
  BY <1>1, EntityCalls DEF AddEntity, Continue
<1>3. xrce'.client = c
  BY <1>1, <1>2
<1>6. PICK o \in Objects : o = xrce.object /\ o.owner = c /\ Head(xrce.todo) \in EndpointsOf(o)
  BY <1>1, WorkFacts
<1>7. Known' = Known \union {Head(xrce.todo)} /\ life' = life
  BY <1>1, KnownAfter, EndpointsAssumption DEF AddEntity, dds
<1> WITNESS c \in Participants
<1>4. Unannounced(c) => Unannounced(c)'
  BY <1>1, <1>2 DEF Unannounced, Live, dds, samples, GC!Knows
<1>5. LeavesOthers(c)
  BY <1>1, <1>2, <1>3 DEF LeavesOthers, dds, samples, BeingApplied, OnlyEntry
<1>8. EndpointsAbout(c)
  BY <1>6, <1>7, EndpointTypes, ObjectsAssumption, EndpointsAssumption
  DEF EndpointsAbout, ObjectsOf
<1> QED
  BY <1>1, <1>2, <1>4, <1>5, <1>8 DEF StepAbout, dds, samples

LEMMA AssociateEntityAbout ==
  ASSUME IInv, AssociateEntity
  PROVE  \E p \in Participants : StepAbout(p)
<1>1. PICK c \in Participants :
      /\ c = xrce.client /\ Busy(c) /\ CacheOK(cache) /\ life[c] = "live"
      /\ xrce.at = "associate_entity"
      /\ DOMAIN xrce = {"at", "client", "object", "todo", "info"}
  BY CallFacts DEF AssociateEntity, Works, IInv, Types
<1>2. /\ UNCHANGED <<dds, samples>>
      /\ xrce'.client = c
  BY <1>1 DEF AssociateEntity, Undefined, Continue
<1>3. \/ cache' = cache /\ xrce'.at = "undefined"
      \/ /\ GC!HasNode(cache, c, NodeOf[c])
         /\ cache' \in {GC!AssociateWriter(cache, Head(xrce.todo), c, NodeOf[c]),
                        GC!AssociateReader(cache, Head(xrce.todo), c, NodeOf[c])}
  BY <1>1 DEF AssociateEntity, Undefined, Continue
<1>4. OnlyEntry(cache, cache', c)
  BY <1>1, <1>3, AssociateCalls DEF OnlyEntry
<1> WITNESS c \in Participants
<1>5. Unannounced(c) => Unannounced(c)'
  <2>1. CASE cache' = cache
    BY <1>1, <1>2, <2>1 DEF Unannounced, Live, dds, samples
  <2>2. CASE GC!HasNode(cache, c, NodeOf[c])
    \* It has a node and so, with nothing announced, cannot be here.
    BY <1>1, <1>2, <2>2 DEF Unannounced, Live, dds, samples, GC!HasNode, GC!NoEntries
  <2> QED
    BY <1>3, <2>1, <2>2
<1>6. LeavesOthers(c)
  BY <1>1, <1>2, <1>4 DEF LeavesOthers, dds, samples, BeingApplied
<1>7. EndpointsAbout(c)
  BY <1>1, <1>2, <1>3, NoEndpoint, NodeCalls DEF dds
<1> QED
  BY <1>1, <1>2, <1>5, <1>6, <1>7 DEF StepAbout, dds, samples

LEMMA WriteInfoAbout ==
  ASSUME IInv, WriteInfo
  PROVE  \E p \in Participants : StepAbout(p)
<1>1. PICK c \in Participants :
      /\ c = xrce.client /\ Busy(c) /\ xrce.at = "write"
      /\ DOMAIN announced = Participants /\ DOMAIN outbox = Participants
      /\ DOMAIN xrce = {"at", "client", "object", "todo", "info"}
  BY CallFacts DEF WriteInfo, Works, IInv, Types
<1>2. /\ UNCHANGED <<dds, cache>>
      /\ \/ /\ Write(c, xrce.info)
            /\ \/ xrce' = Idle
               \/ xrce' = [xrce EXCEPT !.at = "add_entity", !.todo = Tail(@)]
         \/ UNCHANGED samples /\ xrce' = [xrce EXCEPT !.at = "undefined"]
  BY <1>1 DEF WriteInfo, Continue, Undefined
<1>3. \/ Write(c, xrce.info)
      \/ UNCHANGED samples /\ xrce'.client = c /\ xrce'.at = "undefined"
  BY <1>1, <1>2
<1>4. xrce'.client \in {c, NoOne}
  <2>1. Idle.client = NoOne
    BY DEF Idle
  <2> QED
    BY <1>1, <1>2, <2>1
<1>5. \/ outbox'[c] # NoSample /\ announced'[c] # NoSample
      \/ UNCHANGED samples /\ xrce'.client = c /\ xrce'.at = "undefined"
  BY <1>1, <1>3 DEF Write, NoSample
<1> WITNESS c \in Participants
<1>6. Unannounced(c) => Unannounced(c)'
  BY <1>1, <1>2, <1>5 DEF Unannounced, Live, dds, samples
<1>7. LeavesOthers(c)
  BY <1>1, <1>2, <1>3, <1>4 DEF LeavesOthers, dds, samples, BeingApplied, Write, OnlyEntry
<1>8. Busy(c)'
  BY <1>5 DEF Busy, Idle
<1>9. EndpointsAbout(c)
  BY <1>2, NoEndpoint DEF dds, Known
<1> QED
  BY <1>6, <1>7, <1>8, <1>9 DEF StepAbout

LEMMA RemoveEntityAbout ==
  ASSUME IInv, EInv, RemoveEntity
  PROVE  \E p \in Participants : StepAbout(p)
<1>1. PICK c \in Participants :
      /\ c = xrce.client /\ Busy(c) /\ CacheOK(cache) /\ xrce.at = "remove_entity"
      /\ xrce.object \in Objects /\ xrce.object \notin Participants
      /\ Head(xrce.todo) \in Entities
      /\ life \in [Participants \union Objects -> {"none", "live", "gone"}]
      /\ discovery \in [Participants -> Seq(Events)]
      /\ DOMAIN xrce = {"at", "client", "object", "todo", "info"}
  BY CallFacts, TailOfTodo, ObjectsAssumption
  DEF RemoveEntity, Works, IInv, Types, XrceSteps
<1>2. /\ cache'.participants = cache.participants
      /\ UNCHANGED samples
  BY <1>1, EntityCalls DEF RemoveEntity
<1>3. /\ xrce'.client \in {c, NoOne} /\ xrce'.at # "first_write"
      /\ \A q \in Participants : life'[q] = life[q]
      /\ \A q \in Participants \ {c} : discovery'[q] = discovery[q]
  <2>1. CASE Len(xrce.todo) > 1
    BY <1>1, <2>1 DEF RemoveEntity, dds
  <2>2. CASE ~(Len(xrce.todo) > 1)
    BY <1>1, <2>2 DEF RemoveEntity, Idle
  <2> QED
    BY <2>1, <2>2
<1>6. PICK o \in Objects :
      o = xrce.object /\ o.owner = c /\ Head(xrce.todo) \in EndpointsOf(o)
  BY <1>1, WorkFacts
<1>7. Known' = Known \ {Head(xrce.todo)}
  BY <1>1, KnownAfter, EndpointsAssumption DEF RemoveEntity
<1>8. /\ \A x \in Objects \ {o} : life'[x] = life[x]
      /\ life'[o] = life[o] \/ discovery'[c] # <<>>
  <2>1. discovery[c] \o EventsOf(o, "removed") # <<>>
    BY <1>1, NonEmptyEvents, ObjectsAssumption
  <2> QED
    BY <1>1, <1>6, <2>1 DEF RemoveEntity, dds
<1> WITNESS c \in Participants
<1>4. Unannounced(c) => Unannounced(c)'
  BY <1>1, <1>2, <1>3 DEF Unannounced, Live, samples, GC!Knows
<1>5. LeavesOthers(c)
  BY <1>1, <1>2, <1>3 DEF LeavesOthers, samples, BeingApplied, OnlyEntry
<1>9. EndpointsAbout(c)
  BY <1>6, <1>7, <1>8, EndpointTypes, ObjectsAssumption, EndpointsAssumption
  DEF EndpointsAbout, ObjectsOf, Busy
<1> QED
  BY <1>1, <1>2, <1>3, <1>4, <1>5, <1>9 DEF StepAbout, samples

\* A discovery event of c is reported.
LEMMA ReportFacts ==
  ASSUME IInv, NEW c \in Participants, NEW status, NEW ids, Report(c, status, ids)
  PROVE  /\ Busy(c)
         /\ life' = life /\ announced' = announced /\ taken' = taken /\ xrce' = xrce
         /\ \A q \in Participants \ {c} : discovery'[q] = discovery[q]
BY DEF IInv, Types, Report, Busy

LEMMA ListenAbout ==
  ASSUME IInv, EInv, NEW c \in Participants, Listen(c)
  PROVE  StepAbout(c)
<1>1. CacheOK(cache) /\ DOMAIN outbox = Participants
  BY DEF IInv, Types
<1>2. ASSUME Busy(c), life' = life, announced' = announced, taken' = taken, xrce' = xrce,
             \A q \in Participants \ {c} : discovery'[q] = discovery[q],
             outbox' \in {outbox, [outbox EXCEPT ![c] = NoSample]},
             OnlyEntry(cache, cache', c),
             GC!Knows(cache', c) =>
               \/ cache'.participants = cache.participants
               \/ cache'.participants[c] = GC!NoEntries,
             EndpointsAbout(c)
      PROVE  StepAbout(c)
  <2>1. LeavesOthers(c)
    BY <1>1, <1>2 DEF LeavesOthers, BeingApplied
  <2>2. Unannounced(c) => Unannounced(c)'
    BY <1>2 DEF Unannounced, Live, GC!Knows
  <2> QED
    BY <1>2, <2>1, <2>2 DEF StepAbout
<1>3. CASE OnParticipantDiscovered(c)
  <2>1. /\ OnlyEntry(cache, cache', c) /\ outbox' = outbox
        /\ cache' = cache \/ (cache' = GC!AddParticipant(cache, c))
    BY <1>1, <1>3, AddParticipantCall DEF OnParticipantDiscovered, OnlyEntry
  <2>2. GC!Knows(cache', c) =>
          \/ cache'.participants = cache.participants
          \/ cache'.participants[c] = GC!NoEntries
    BY <1>1, <2>1 DEF GC!AddParticipant, GC!Knows, GC!Put, CacheOK
  <2>3. EndpointsAbout(c)
    BY <1>1, <1>3, <2>1, NoEndpoint, NodeCalls DEF OnParticipantDiscovered, Report
  <2> QED
    BY <1>2, <1>3, <2>1, <2>2, <2>3, ReportFacts DEF OnParticipantDiscovered
<1>4. CASE OnParticipantRemoved(c)
  <2>1. OnlyEntry(cache, cache', c) /\ ~GC!Knows(cache', c)
    BY <1>1, <1>4, RemoveParticipantCall DEF OnParticipantRemoved
  <2>2. EndpointsAbout(c)
    BY <1>1, <1>4, NoEndpoint, NodeCalls DEF OnParticipantRemoved, Report
  <2> QED
    BY <1>2, <1>4, <2>1, <2>2, ReportFacts DEF OnParticipantRemoved
<1>5. CASE OnEntityDiscovered(c) \/ OnEntityRemoved(c)
  <2>1. cache'.participants = cache.participants /\ outbox' = outbox
    BY <1>1, <1>5, EntityCalls DEF OnEntityDiscovered, OnEntityRemoved, Report
  <2>2. OnlyEntry(cache, cache', c)
    BY <2>1 DEF OnlyEntry
  <2>3. PICK o \in ObjectsOf(c) : Event(c).id \in EndpointsOf(o)
    <3>1. /\ discovery[c] \in Seq(Events) /\ discovery[c] # <<>> /\ Event(c).id \in Entities
      BY <1>5 DEF OnEntityDiscovered, OnEntityRemoved, Report, IInv, Types
    <3>2. Event(c) = discovery[c][1] /\ 1 \in 1..Len(discovery[c])
      BY <3>1, TailOfSeq DEF Event
    <3> QED
      BY <3>1, <3>2 DEF EInv
  <2>4. Known' \in {Known \union {Event(c).id}, Known \ {Event(c).id}} /\ life' = life
    BY <1>1, <1>5, KnownAfter, EndpointsAssumption
    DEF OnEntityDiscovered, OnEntityRemoved, Report
  <2>5. EndpointsAbout(c)
    BY <2>3, <2>4, EndpointTypes, ObjectsAssumption, EndpointsAssumption
    DEF EndpointsAbout, ObjectsOf
  <2> QED
    BY <1>2, <1>5, <2>1, <2>2, <2>5, ReportFacts DEF OnEntityDiscovered, OnEntityRemoved
<1> QED
  BY <1>3, <1>4, <1>5 DEF Listen

LEMMA TakeSampleAbout ==
  ASSUME IInv, NEW c \in Participants, TakeSample(c)
  PROVE  StepAbout(c)
<1>1. /\ outbox[c] # NoSample /\ taken.from = NoOne /\ taken'.from = c
      /\ outbox' = [outbox EXCEPT ![c] = NoSample]
      /\ DOMAIN outbox = Participants
      /\ UNCHANGED <<dds, cache, announced, xrce>>
  BY DEF TakeSample, NoSample, NothingTaken, IInv, Types
<1>2. LeavesOthers(c)
  BY <1>1, ObjectsAssumption DEF LeavesOthers, dds, BeingApplied, OnlyEntry
<1>3. Unannounced(c) => Unannounced(c)'
  BY <1>1 DEF Unannounced, Live, dds
<1>4. EndpointsAbout(c)
  BY <1>1, NoEndpoint DEF dds, Known
<1> QED
  BY <1>1, <1>2, <1>3, <1>4 DEF StepAbout, Busy, dds

LEMMA UpdateAbout ==
  ASSUME IInv, UpdateNodeEntitiesInfo
  PROVE  \E p \in Participants : StepAbout(p)
<1>1. PICK c \in Participants : c = taken.from
  BY DEF UpdateNodeEntitiesInfo, IInv, Types
<1>2. /\ cache' = GC!UpdateParticipantEntities(cache, c, taken.nodes)
      /\ taken'.from = NoOne
      /\ UNCHANGED <<dds, announced, outbox, xrce>>
  BY <1>1 DEF UpdateNodeEntitiesInfo, NothingTaken
<1>3. OnlyEntry(cache, cache', c)
  BY <1>2, UpdateCall DEF IInv, Types
<1>4. announced[c] # NoSample
  BY <1>1 DEF IInv, Agreed, BeingApplied, NoSample
<1> WITNESS c \in Participants
<1>5. LeavesOthers(c)
  BY <1>1, <1>2, <1>3, ObjectsAssumption DEF LeavesOthers, dds, BeingApplied
<1>6. EndpointsAbout(c)
  <2>1. CacheOK(cache)
    BY DEF IInv, Types
  <2>2. Known' = Known
    BY <1>2, <2>1, NodeCalls
  <2> QED
    BY <1>2, <2>2, NoEndpoint DEF dds
<1> QED
  BY <1>1, <1>2, <1>4, <1>5, <1>6 DEF StepAbout, Busy, BeingApplied, Unannounced, dds

\* A step of a peer, or of what belongs to it, leaves the cache alone.
LEMMA PeerStepAbout ==
  ASSUME IInv, NEW q \in Participants, UNCHANGED <<cache, taken, xrce>>,
         \A p \in Participants \ {q} :
           /\ life'[p] = life[p] /\ discovery'[p] = discovery[p]
           /\ announced'[p] = announced[p] /\ outbox'[p] = outbox[p],
         discovery'[q] # <<>> \/ outbox'[q] # NoSample,
         \A o \in Objects \ ObjectsOf(q) : life'[o] = life[o],
         life'[q] = "live" /\ life[q] # "live" => ~GC!Knows(cache, q),
         announced'[q] = announced[q] \/ announced'[q] # NoSample
  PROVE  StepAbout(q)
<1>1. LeavesOthers(q)
  BY DEF LeavesOthers, BeingApplied, OnlyEntry
<1>2. Unannounced(q) => Unannounced(q)'
  BY DEF Unannounced, Live, GC!Knows
<1>3. EndpointsAbout(q)
  BY DEF EndpointsAbout, Busy, Known
<1> QED
  BY <1>1, <1>2, <1>3 DEF StepAbout, Busy

LEMMA PeerStepsAbout ==
  ASSUME IInv, PeerSteps
  PROVE  \E p \in Participants : StepAbout(p)
<1>1. /\ Peers \subseteq Participants
      /\ DOMAIN outbox = Participants /\ DOMAIN announced = Participants
      /\ life \in [Participants \union Objects -> {"none", "live", "gone"}]
      /\ discovery \in [Participants -> Seq(Events)]
      /\ \A o \in Objects : o \notin Participants
  BY ObjectsAssumption DEF Participants, IInv, Types
<1>2. ASSUME NEW q \in Peers, PeerAppears(q)
      PROVE  StepAbout(q)
  <2>1. Append(discovery[q], Discovered(q)) # <<>>
    BY <1>1, <1>2, EventFacts, AppendEvent
  <2>2. ~GC!Knows(cache, q)
    BY <1>1, <1>2 DEF IInv, Forgotten, PeerAppears
  <2> QED
    BY <1>1, <1>2, <2>1, <2>2, PeerStepAbout DEF PeerAppears, samples
<1>3. ASSUME NEW q \in Peers, PeerAnnounces(q)
      PROVE  StepAbout(q)
  <2>1. PICK nodes : Write(q, nodes)
    BY <1>3 DEF PeerAnnounces
  <2>2. outbox'[q] # NoSample /\ announced'[q] # NoSample
    BY <1>1, <2>1 DEF Write, NoSample
  <2> QED
    BY <1>1, <1>3, <2>1, <2>2, PeerStepAbout DEF PeerAnnounces, Write, dds
<1>4. ASSUME NEW q \in Peers, PeerLeaves(q)
      PROVE  StepAbout(q)
  <2>1. Append(discovery[q], Removed(q)) # <<>>
    BY <1>1, <1>4, EventFacts, AppendEvent
  <2> QED
    BY <1>1, <1>4, <2>1, PeerStepAbout DEF PeerLeaves, samples
<1>5. ASSUME NEW o \in Objects, PeerCreates(o) \/ PeerDeletes(o)
      PROVE  StepAbout(o.owner)
  <2>1. o.owner \in Participants /\ o \notin Participants
    BY <1>5, ObjectsAssumption DEF PeerCreates, PeerDeletes
  <2>2. PICK status \in {"discovered", "removed"} :
          discovery' = [discovery EXCEPT ![o.owner] = @ \o EventsOf(o, status)]
    BY <1>5 DEF PeerCreates, PeerDeletes
  <2>3. discovery[o.owner] \o EventsOf(o, status) # <<>>
    BY <1>1, <2>1, NonEmptyEvents, ObjectsAssumption
  <2>4. /\ \A p \in Participants : life'[p] = life[p]
        /\ \A x \in Objects \ ObjectsOf(o.owner) : life'[x] = life[x]
        /\ UNCHANGED <<cache, samples, xrce>>
    BY <1>1, <1>5, <2>1 DEF PeerCreates, PeerDeletes, ObjectsOf
  <2> QED
    BY <1>1, <2>1, <2>2, <2>3, <2>4, PeerStepAbout DEF samples
<1> QED
  BY <1>1, <1>2, <1>3, <1>4, <1>5, ObjectsAssumption DEF PeerSteps

LEMMA NextAbout == IInv /\ EInv /\ Next => \E p \in Participants : StepAbout(p)
<1> SUFFICES ASSUME IInv, EInv, Next PROVE \E p \in Participants : StepAbout(p)
  OBVIOUS
<1>1. CASE XrceStarts
  <2>1. ASSUME NEW p \in Clients, OnCreateParticipant(p) \/ OnDeleteParticipant(p)
        PROVE  \E q \in Participants : StepAbout(q)
    BY <2>1, OnCreateParticipantAbout, OnDeleteParticipantAbout
  <2>2. ASSUME NEW o \in Objects, NEW kind,
               CreateObject(o, kind) \/ DeleteObject(o, kind)
        PROVE  \E q \in Participants : StepAbout(q)
    BY <2>2, CreateObjectAbout, DeleteObjectAbout
  <2> QED
    BY <1>1, <2>1, <2>2 DEF XrceStarts, OnCreateDatawriter, OnDeleteDatawriter,
         OnCreateDatareader, OnDeleteDatareader, OnCreateRequester, OnDeleteRequester,
         OnCreateReplier, OnDeleteReplier
<1>2. CASE XrceCalls
  BY <1>2, AddParticipantAbout, AddNodeAbout, FirstWriteAbout, RemoveParticipantAbout,
     LastWriteAbout, DeleteAuxiliaryAbout, AddEntityAbout, AssociateEntityAbout,
     WriteInfoAbout, RemoveEntityAbout DEF XrceCalls
<1>3. ASSUME NEW p \in Participants, Listen(p) \/ TakeSample(p)
      PROVE  \E q \in Participants : StepAbout(q)
  BY <1>3, ListenAbout, TakeSampleAbout
<1>4. CASE UpdateNodeEntitiesInfo
  BY <1>4, UpdateAbout
<1>5. CASE PeerSteps
  BY <1>5, PeerStepsAbout
<1> QED
  BY <1>1, <1>2, <1>3, <1>4, <1>5 DEF Next

-----------------------------------------------------------------------------
(***************************************************************************)
(* The refinement.                                                         *)
(***************************************************************************)
VInv ==
  /\ IInv /\ EInv
  /\ \A p \in Participants : Unannounced(p)

\* The endpoints p has, and those shown of it.
Has(p) == UNION {EndpointsOf(o) : o \in {x \in ObjectsOf(p) : Live(x)}}
Seen(p) == Known \intersect UNION {EndpointsOf(o) : o \in ObjectsOf(p)}

\* A participant about which nothing is under way is shown as demanded.
Shown == \A p \in Participants : ~Busy(p) => View!Settled(p)

LEMMA InitVInv == Init => VInv
BY InitInv, InitE DEF Init, VInv, Unannounced, Live

LEMMA NextVInv == VInv /\ [Next]_vars => VInv'
<1> SUFFICES ASSUME VInv, [Next]_vars PROVE VInv'
  OBVIOUS
<1>1. IInv' /\ EInv'
  BY NextInv, NextE DEF VInv
<1>2. ASSUME NEW p \in Participants
      PROVE  Unannounced(p)'
  <2>1. CASE UNCHANGED vars
    BY <1>2, <2>1 DEF vars, dds, samples, VInv, Unannounced, Live
  <2>2. CASE Next
    <3>1. PICK c \in Participants : StepAbout(c)
      BY <2>2, NextAbout DEF VInv
    <3>2. CASE p = c
      BY <1>2, <3>1, <3>2 DEF StepAbout, VInv
    <3>3. CASE p # c
      BY <1>2, <3>1, <3>3, ObjectsAssumption DEF StepAbout, LeavesOthers, OnlyEntry,
         VInv, Unannounced, Live, GC!Knows
    <3> QED
      BY <3>2, <3>3
  <2> QED
    BY <2>1, <2>2
<1> QED
  BY <1>1, <1>2 DEF VInv

LEMMA VInvShown == VInv => Shown
<1> SUFFICES ASSUME VInv, NEW p \in Participants, ~Busy(p)
             PROVE  View!Settled(p)
  BY DEF Shown
<1>1. /\ discovery[p] = <<>> /\ outbox[p] = NoSample /\ ~BeingApplied(p)
      /\ ~Changing(p) /\ ~(xrce.client = p /\ xrce.at = "first_write")
  BY ObjectsAssumption DEF Busy, Changing, Idle
<1>2. /\ life[p] \in {"none", "live", "gone"}
      /\ ~Live(p) => ~GC!Knows(cache, p)
      /\ Live(p) /\ announced[p] # NoSample =>
           GC!Knows(cache, p) /\ announced[p] = {cache.participants[p]}
      /\ Live(p) /\ announced[p] = NoSample /\ GC!Knows(cache, p) =>
           cache.participants[p] = GC!NoEntries
  BY <1>1 DEF VInv, IInv, Types, Forgotten, Agreed, Unannounced, Live
<1>3. ASSUME NEW o \in ObjectsOf(p), NEW e \in EndpointsOf(o)
      PROVE  e \in Known <=> Live(o)
  <2>1. o \in Objects /\ o.owner = p /\ ~Mentions(discovery[p], e)
    BY <1>1, EmptySeq DEF ObjectsOf, Mentions
  <2>2. ~Removing(o)
    BY <2>1 DEF VInv, IInv, XrceSteps, Removing, Busy, Works, Idle
  <2>3. Endpoint(o, e, discovery[p]) /\ life[o] \in {"none", "live", "gone"}
    BY <2>1 DEF VInv, EInv, IInv, Types
  <2> QED
    BY <2>1, <2>2, <2>3 DEF Endpoint, Live
<1>4. Seen(p) = Has(p)
  BY <1>3 DEF Seen, Has
<1> QED
  BY <1>2, <1>4 DEF View!Settled, NoSample, Seen, Has, Known

LEMMA StepView ==
  ASSUME Shown', NEW p \in Participants, StepAbout(p)
  PROVE  View!Next
<1>1. View!OnlyAbout(p)
  <2>1. ASSUME NEW q \in Participants \ {p}
        PROVE  /\ Live(q)' <=> Live(q)
               /\ Served(q)' <=> Served(q)
               /\ Busy(q)' <=> Busy(q)
               /\ announced'[q] = announced[q]
               /\ GC!Knows(cache, q)' <=> GC!Knows(cache, q)
               /\ GC!Knows(cache, q) => cache'.participants[q] = cache.participants[q]
               /\ Has(q)' = Has(q) /\ Seen(q)' = Seen(q)
    <3>1. q \in Participants /\ q # p /\ q # NoOne
      BY <2>1, ObjectsAssumption
    <3>2. Served(q)' <=> Served(q)
      BY <3>1 DEF StepAbout, LeavesOthers, Served, Idle
    <3>3. Busy(q)' <=> Busy(q)
      BY <3>1, <3>2 DEF StepAbout, LeavesOthers, Busy, Served
    <3>4. \A o \in ObjectsOf(q) :
            /\ Live(o)' <=> Live(o)
            /\ \A e \in EndpointsOf(o) : e \in Known' <=> e \in Known
      BY <3>1 DEF StepAbout, EndpointsAbout, ObjectsOf, Live
    <3>5. Has(q)' = Has(q) /\ Seen(q)' = Seen(q)
      BY <3>4 DEF Has, Seen
    <3> QED
      BY <3>1, <3>2, <3>3, <3>5 DEF StepAbout, LeavesOthers, OnlyEntry, Live, GC!Knows
  <2> QED
    BY <2>1 DEF View!OnlyAbout, Has, Seen, Known
<1>2. CASE Busy(p)'
  BY <1>1, <1>2 DEF View!Next, View!Proceed
<1>3. CASE ~Busy(p)'
  <2>1. View!Settled(p)'
    BY <1>3 DEF Shown
  <2>2. Busy(p) /\ life'[p] = life[p] /\ announced'[p] = announced[p]
    BY <1>3 DEF StepAbout
  <2>3. Has(p)' = Has(p)
    BY <1>3 DEF StepAbout, EndpointsAbout, Has, Live
  <2>4. View!Settle(p)
    BY <1>1, <1>3, <2>1, <2>2, <2>3 DEF View!Settle, Live, Has
  <2> QED
    BY <2>4 DEF View!Next
<1> QED
  BY <1>2, <1>3

\* The bookkeeping implements DomainView, for any clients, peers, objects and
\* samples: of a participant about which no callback, event or sample is under
\* way the cache has what it announced last and the endpoints that exist, and
\* the callbacks, events and samples of others do not change that
\* (graph_manager.cpp:304-474, 551-563, 609-778).
THEOREM ImplementsView == Spec => ViewSpec
<1>1. Init => View!Init
  <2> SUFFICES ASSUME Init PROVE View!Init
    OBVIOUS
  <2>1. ASSUME NEW p \in Participants
        PROVE  ~Live(p) /\ ~Busy(p) /\ announced[p] = {} /\ ~GC!Knows(cache, p)
    BY <2>1, ObjectsAssumption DEF Init, Live, Busy, NoSample, GC!Knows, GC!EmptyCache,
       GC!NoEntries, BeingApplied, NothingTaken
  <2>2. ASSUME NEW p \in Participants
        PROVE  Has(p) = {} /\ Seen(p) = {}
    BY ObjectsAssumption DEF Init, Has, Seen, Known, Live, ObjectsOf, GC!EmptyCache,
       GC!NoEntries
  <2> QED
    BY <2>1, <2>2 DEF View!Init, View!Settled, Has, Seen, Known
<1>2. VInv /\ Shown' /\ [Next]_vars => [View!Next]_(View!vars)
  <2>1. ASSUME VInv, Shown', Next
        PROVE  View!Next
    BY <2>1, NextAbout, StepView DEF VInv
  <2>2. UNCHANGED vars => UNCHANGED View!vars
    BY DEF vars, dds, samples, View!vars, Live, Busy, BeingApplied
  <2> QED
    BY <2>1, <2>2
<1> QED
  BY <1>1, <1>2, InitVInv, NextVInv, VInvShown, PTL DEF Spec, ViewSpec, View!Spec
=============================================================================
