------------------------- MODULE GraphManagerProofs -------------------------
(***************************************************************************)
(* Proofs about GraphManager, for any clients, peers, objects and samples: *)
(* the node of a client stays in the graph, at rest the cache has the      *)
(* nodes that were announced last and nothing of a participant that is     *)
(* gone, and without a client named "/" no callback is undefined.          *)
(***************************************************************************)
EXTENDS GraphManager, SequenceTheorems, TLAPS

(***************************************************************************)
(* The inductive invariant.                                                *)
(***************************************************************************)
CacheOK(c) ==
  /\ {"participants", "writers", "readers"} \subseteq DOMAIN c
  /\ DOMAIN c.participants \subseteq Participants
  /\ DOMAIN c.writers \subseteq Writers
  /\ DOMAIN c.readers \subseteq Readers

Events == [status : {"discovered", "removed"}, id : Participants \union Entities]

Types ==
  /\ life \in [Participants \union Objects -> {"none", "live", "gone"}]
  /\ CacheOK(cache)
  /\ auxWriters \subseteq Clients \ Roots
  /\ DOMAIN announced = Participants /\ DOMAIN outbox = Participants
  /\ \A p \in Participants : \A a, b \in announced[p] : a = b
  /\ taken = NothingTaken \/ taken.from \in Participants
  /\ discovery \in [Participants -> Seq(Events)]
  /\ matched \subseteq Peers
  /\ DOMAIN xrce = {"at", "client", "object", "todo", "info"}
  /\ xrce.client \in Clients \union {NoOne}

\* The steps of the callbacks that create and delete a participant, and of
\* those for its objects.
Starts == {"add_participant", "add_node", "first_write"}
Ends == {"remove_participant", "last_write", "delete_datawriter"}
Works == {"add_entity", "associate_entity", "write", "remove_entity"}

Creating(p) == xrce.client = p /\ xrce.at \in Starts

\* What the server's thread knows at each of its steps.
XrceSteps ==
  /\ xrce.at \in {"idle", "undefined"} \union Starts \union Ends \union Works
  /\ xrce.at = "idle" => xrce = Idle
  /\ xrce.at \in Starts \union Ends \union Works =>
       xrce.client \in Clients /\ life[xrce.client] = "live"
  /\ xrce.at \in Starts => announced[xrce.client] = NoSample
  /\ xrce.at = "add_node" => GC!Knows(cache, xrce.client)
  /\ xrce.at \in {"add_node", "first_write"} => xrce.client \notin Roots
  /\ xrce.at = "first_write" =>
       /\ GC!HasNode(cache, xrce.client, NodeOf[xrce.client])
       /\ NodeOf[xrce.client] \in DOMAIN xrce.info
  /\ xrce.at = "write" => NodeOf[xrce.client] \in DOMAIN xrce.info
  /\ xrce.at \in Works =>
       /\ xrce.object \in Objects /\ xrce.object.owner = xrce.client
       /\ life[xrce.object] = "live"
       /\ xrce.todo \in Seq(Entities) /\ xrce.todo # <<>>
  /\ xrce.at \in Ends => \A o \in ObjectsOf(xrce.client) : ~Live(o)

\* Only a live participant has live objects.
Owners == \A o \in Objects : Live(o) => Live(o.owner)

\* The events of a participant: its own, its removal the last one.
OwnEvents(p) ==
  LET q == discovery[p] IN
  /\ \A i \in 1..Len(q) : q[i].id \in Participants => q[i].id = p
  /\ \A i \in 1..Len(q) : q[i] = Removed(p) => life[p] = "gone" /\ i = Len(q)
  /\ life[p] = "gone" /\ q # <<>> => q[Len(q)] = Removed(p)
  /\ life[p] = "none" => q = <<>>

\* Only a client that has its auxiliary datawriter sends samples.
Senders(p) ==
  /\ p \in auxWriters => life[p] = "live" /\ ~Creating(p)
  /\ p \notin auxWriters => outbox[p] = NoSample /\ ~BeingApplied(p)
  /\ p \notin Roots /\ Live(p) /\ p \notin auxWriters =>
       Creating(p) \/ xrce.at = "undefined"

\* Its node is in the cache, and in whatever may overwrite the cache.
NodeKept(p) ==
  /\ p \in auxWriters
       /\ ~(xrce.client = p /\ xrce.at \in {"last_write", "delete_datawriter"})
       => GC!HasNode(cache, p, NodeOf[p])
  /\ ~(xrce.client = p /\ xrce.at = "delete_datawriter") =>
       /\ \A nodes \in outbox[p] : NodeOf[p] \in DOMAIN nodes
       /\ BeingApplied(p) => NodeOf[p] \in DOMAIN taken.nodes

\* Nothing is left of a participant whose removal was reported.
Forgotten(p) ==
  /\ life[p] = "none" => announced[p] = NoSample
  /\ life[p] = "none" \/ (life[p] = "gone" /\ discovery[p] = <<>>) =>
       ~GC!Knows(cache, p) /\ outbox[p] = NoSample /\ ~BeingApplied(p)

\* Between a change of its nodes and its next sample.
Changing(p) ==
  xrce.client = p /\ xrce.at \in {"first_write", "write", "last_write", "undefined"}

\* The newest of cache, sample being handed over and sample to be delivered is
\* what was announced last.
Agreed(p) ==
  /\ outbox[p] # NoSample => outbox[p] = announced[p]
  /\ outbox[p] = NoSample /\ BeingApplied(p) => announced[p] = {taken.nodes}
  /\ Live(p) /\ announced[p] # NoSample /\ outbox[p] = NoSample
       /\ ~BeingApplied(p) /\ ~Changing(p) =>
       GC!Knows(cache, p) /\ announced[p] = {cache.participants[p]}

IInv ==
  /\ Types /\ XrceSteps /\ Owners
  /\ \A p \in Participants : OwnEvents(p) /\ Forgotten(p) /\ Agreed(p)
  /\ \A p \in Clients : Senders(p) /\ NodeKept(p)

-----------------------------------------------------------------------------
(***************************************************************************)
(* What the calls into the cache change: the participants it knows and the *)
(* names of their nodes.                                                   *)
(***************************************************************************)
LEMMA EntityCalls ==
  ASSUME NEW c, CacheOK(c), NEW e \in Entities
  PROVE  /\ CacheOK(AddEntityTo(c, e)) /\ CacheOK(RemoveEntityFrom(c, e))
         /\ AddEntityTo(c, e).participants = c.participants
         /\ RemoveEntityFrom(c, e).participants = c.participants
BY DEF CacheOK, AddEntityTo, RemoveEntityFrom, Entities, GC!AddWriter, GC!AddReader,
       GC!RemoveWriter, GC!RemoveReader, GC!Put, GC!Without, GC!Restrict

\* The cache d differs from c in the entry of p alone.
OnlyEntry(c, d, p) ==
  \A q \in Participants \ {p} :
    /\ q \in DOMAIN d.participants <=> q \in DOMAIN c.participants
    /\ q \in DOMAIN c.participants => d.participants[q] = c.participants[q]

LEMMA AddParticipantCall ==
  ASSUME NEW c, CacheOK(c), NEW p \in Participants
  PROVE  LET d == GC!AddParticipant(c, p) IN
         /\ CacheOK(d) /\ GC!Knows(d, p) /\ OnlyEntry(c, d, p)
         /\ GC!Knows(c, p) => d = c
BY DEF CacheOK, OnlyEntry, GC!AddParticipant, GC!Knows, GC!Put

LEMMA RemoveParticipantCall ==
  ASSUME NEW c, CacheOK(c), NEW p \in Participants
  PROVE  LET d == GC!RemoveParticipant(c, p) IN
         CacheOK(d) /\ ~GC!Knows(d, p) /\ OnlyEntry(c, d, p)
BY DEF CacheOK, OnlyEntry, GC!RemoveParticipant, GC!Knows, GC!Without, GC!Restrict

LEMMA UpdateCall ==
  ASSUME NEW c, CacheOK(c), NEW p \in Participants, NEW nodes
  PROVE  LET d == GC!UpdateParticipantEntities(c, p, nodes) IN
         /\ CacheOK(d) /\ GC!Knows(d, p) /\ OnlyEntry(c, d, p)
         /\ d.participants[p] = nodes
BY DEF CacheOK, OnlyEntry, GC!UpdateParticipantEntities, GC!Knows, GC!Put

LEMMA AddNodeCall ==
  ASSUME NEW c, CacheOK(c), NEW p \in Participants, NEW n, GC!Knows(c, p)
  PROVE  LET d == GC!AddNode(c, p, n) IN
         CacheOK(d) /\ GC!HasNode(d, p, n) /\ OnlyEntry(c, d, p)
BY DEF CacheOK, OnlyEntry, GC!AddNode, GC!HasNode, GC!Knows, GC!Put

LEMMA AssociateCalls ==
  ASSUME NEW c, CacheOK(c), NEW p \in Participants, NEW n, NEW e, GC!HasNode(c, p, n),
         NEW d \in {GC!AssociateWriter(c, e, p, n), GC!AssociateReader(c, e, p, n)}
  PROVE  CacheOK(d) /\ GC!HasNode(d, p, n) /\ OnlyEntry(c, d, p)
<1> DEFINE NewNode(r) == [c.participants[p] EXCEPT ![n] = r]
<1>1. \E r : d = [c EXCEPT !.participants = [@ EXCEPT ![p] = NewNode(r)]]
  <2>1. CASE d = GC!AssociateWriter(c, e, p, n)
    <3> WITNESS [c.participants[p][n] EXCEPT !.writers = @ \union {e}]
    <3> QED
      BY <2>1 DEF GC!AssociateWriter
  <2>2. CASE d = GC!AssociateReader(c, e, p, n)
    <3> WITNESS [c.participants[p][n] EXCEPT !.readers = @ \union {e}]
    <3> QED
      BY <2>2 DEF GC!AssociateReader
  <2> QED
    BY <2>1, <2>2
<1>2. PICK r : d = [c EXCEPT !.participants = [@ EXCEPT ![p] = NewNode(r)]]
  BY <1>1
<1> QED
  BY <1>2 DEF CacheOK, OnlyEntry, GC!HasNode, GC!Knows

-----------------------------------------------------------------------------
(***************************************************************************)
(* What happens to a queue of events.                                      *)
(***************************************************************************)
LEMMA EventFacts ==
  ASSUME NEW p \in Participants
  PROVE  /\ Discovered(p) \in Events /\ Removed(p) \in Events
         /\ Discovered(p).id = p /\ Removed(p).id = p
         /\ Discovered(p) # Removed(p)
BY DEF Discovered, Removed, Events

LEMMA EntityEvents ==
  ASSUME ObjectsAssumption, NEW o \in Objects, NEW status \in {"discovered", "removed"}
  PROVE  /\ EventsOf(o, status) \in Seq(Events)
         /\ \A i \in 1..Len(EventsOf(o, status)) :
              EventsOf(o, status)[i].id \notin Participants
<1>1. o.entities \in Seq(Entities)
  BY DEF ObjectsAssumption
<1>2. /\ DOMAIN o.entities = 1..Len(o.entities) /\ Len(o.entities) \in Nat
      /\ \A i \in 1..Len(o.entities) : o.entities[i] \in Entities
  BY <1>1
<1>3. EventsOf(o, status) \in [1..Len(o.entities) -> Events]
  BY <1>2 DEF EventsOf, Events
<1>4. /\ EventsOf(o, status) \in Seq(Events)
      /\ Len(EventsOf(o, status)) = Len(o.entities)
  BY <1>2, <1>3, LenProperties, SeqDef
<1> QED
  BY <1>2, <1>4 DEF EventsOf, ObjectsAssumption

\* Events of endpoints are appended.
LEMMA ConcatEvents ==
  ASSUME NEW q \in Seq(Events), NEW r \in Seq(Events),
         \A i \in 1..Len(r) : r[i].id \notin Participants,
         NEW p \in Participants
  PROVE  /\ q \o r \in Seq(Events)
         /\ \A i \in 1..Len(q \o r) : (q \o r)[i].id \in Participants =>
              i \in 1..Len(q) /\ (q \o r)[i] = q[i]
<1>1. /\ q \o r \in Seq(Events) /\ Len(q \o r) = Len(q) + Len(r)
      /\ \A i \in 1..Len(q \o r) :
           (q \o r)[i] = IF i <= Len(q) THEN q[i] ELSE r[i - Len(q)]
  BY ConcatProperties
<1> QED
  BY <1>1, LenProperties

\* The queue r is q with events of endpoints at its end.
Extends(r, q) ==
  /\ r \in Seq(Events) /\ Len(r) \in Nat /\ Len(q) \in Nat
  /\ \A i \in 1..Len(r) : r[i].id \in Participants => i \in 1..Len(q) /\ r[i] = q[i]

LEMMA ObjectEvents ==
  ASSUME ObjectsAssumption
  PROVE  \A o \in Objects, status \in {"discovered", "removed"}, q \in Seq(Events) :
           Extends(q \o EventsOf(o, status), q)
<1>1. SUFFICES ASSUME NEW o \in Objects, NEW status \in {"discovered", "removed"},
                      NEW q \in Seq(Events)
               PROVE  Extends(q \o EventsOf(o, status), q)
  OBVIOUS
<1>2. /\ EventsOf(o, status) \in Seq(Events)
      /\ \A i \in 1..Len(EventsOf(o, status)) :
           EventsOf(o, status)[i].id \notin Participants
  BY EntityEvents
<1>3. q \o EventsOf(o, status) \in Seq(Events)
  BY <1>2, ConcatProperties
<1>4. Len(q \o EventsOf(o, status)) \in Nat /\ Len(q) \in Nat
  BY <1>3, LenProperties
<1> QED
  BY <1>2, <1>3, <1>4, ConcatEvents DEF Extends

LEMMA AppendEvent ==
  ASSUME NEW q \in Seq(Events), NEW e \in Events
  PROVE  /\ Append(q, e) \in Seq(Events)
         /\ Len(Append(q, e)) = Len(q) + 1 /\ Append(q, e) # <<>>
         /\ Append(q, e)[Len(q) + 1] = e
         /\ \A i \in 1..Len(q) : Append(q, e)[i] = q[i]
BY AppendProperties, LenProperties

LEMMA FirstEvent ==
  ASSUME NEW e \in Events
  PROVE  /\ Append(<<>>, e) \in Seq(Events) /\ Len(Append(<<>>, e)) = 1
         /\ Append(<<>>, e) # <<>> /\ Append(<<>>, e)[1] = e
<1>1. <<>> \in Seq(Events) /\ Len(<<>>) = 0
  BY EmptySeq
<1> QED
  BY <1>1, AppendEvent

LEMMA TailOfSeq ==
  ASSUME NEW S, NEW q \in Seq(S), q # <<>>
  PROVE  /\ Head(q) = q[1] /\ Head(q) \in S /\ Len(q) \in Nat /\ Len(q) >= 1
         /\ Tail(q) \in Seq(S) /\ Len(Tail(q)) = Len(q) - 1
         /\ \A i \in 1..Len(Tail(q)) : Tail(q)[i] = q[i + 1] /\ i + 1 \in 1..Len(q)
         /\ Tail(q) = <<>> <=> Len(q) = 1
<1>1. /\ Tail(q) \in Seq(S) /\ Len(Tail(q)) = Len(q) - 1 /\ Head(q) \in S
      /\ \A i \in 1..Len(Tail(q)) : Tail(q)[i] = q[i + 1]
  BY HeadTailProperties
<1>2. Len(q) \in Nat /\ Len(q) >= 1 /\ Head(q) = q[1]
  BY EmptySeq, LenProperties
<1>3. Tail(q) = <<>> <=> Len(Tail(q)) = 0
  BY <1>1, EmptySeq
<1> QED
  BY <1>1, <1>2, <1>3

LEMMA TailOfTodo ==
  \A q \in Seq(Entities) :
    q # <<>> => /\ Head(q) \in Entities /\ Tail(q) \in Seq(Entities)
                /\ Len(q) > 1 => Tail(q) # <<>>
                /\ Len(q) # 1 => Tail(q) # <<>>
<1> TAKE q \in Seq(Entities)
<1> HAVE q # <<>>
<1>1. /\ Head(q) \in Entities /\ Tail(q) \in Seq(Entities) /\ Len(q) \in Nat
      /\ Tail(q) = <<>> => Len(q) = 1
  BY TailOfSeq
<1>2. ~(1 > 1)
  OBVIOUS
<1> QED
  BY <1>1, <1>2, Zenon

-----------------------------------------------------------------------------
(***************************************************************************)
(* The callbacks for participants.                                         *)
(***************************************************************************)
LEMMA AddParticipantInv ==
  ASSUME IInv, AddParticipant
  PROVE  IInv'
<1> USE ObjectsAssumption DEF IInv, AddParticipant, NoSample, dds, samples
<1> DEFINE c == xrce.client
<1>1. /\ c \in Clients /\ c \in Participants /\ life[c] = "live"
      /\ announced[c] = NoSample
  BY DEF XrceSteps, Starts, Participants
<1>2. /\ cache' = GC!AddParticipant(cache, c)
      /\ CacheOK(cache') /\ GC!Knows(cache', c) /\ OnlyEntry(cache, cache', c)
      /\ GC!Knows(cache, c) => cache' = cache
  BY <1>1, AddParticipantCall DEF Types
<1>3. \/ c \in Roots /\ xrce' = Idle
      \/ c \notin Roots /\ xrce' = [xrce EXCEPT !.at = "add_node"]
  BY DEF Continue
<1>4. Types'
  BY <1>2, <1>3 DEF Types, Idle
<1>5. XrceSteps'
  BY <1>1, <1>2, <1>3 DEF XrceSteps, Types, Idle, Starts, Ends, Works, Live, ObjectsOf
<1>6. Owners'
  BY DEF Owners, Live
<1>7. ASSUME NEW p \in Participants
      PROVE  OwnEvents(p)' /\ Forgotten(p)' /\ Agreed(p)'
  <2>1. OwnEvents(p)'
    BY DEF OwnEvents
  <2>2. Forgotten(p)'
    BY <1>1, <1>2 DEF Forgotten, OnlyEntry, GC!Knows, BeingApplied
  <2>3. Agreed(p)'
    BY <1>1, <1>2, <1>3 DEF Agreed, OnlyEntry, GC!Knows, BeingApplied, Changing, Live, Types, Idle
  <2> QED
    BY <2>1, <2>2, <2>3
<1>8. ASSUME NEW p \in Clients
      PROVE  Senders(p)' /\ NodeKept(p)'
  <2>1. Senders(p)'
    BY <1>1, <1>3 DEF Senders, Creating, Starts, BeingApplied, Live, Types, Idle
  <2>2. NodeKept(p)'
    BY <1>1, <1>2, <1>3 DEF NodeKept, Senders, Creating, Starts, OnlyEntry, GC!HasNode, GC!Knows,
           BeingApplied, Types, Idle, Participants
  <2> QED
    BY <2>1, <2>2
<1> QED
  BY <1>4, <1>5, <1>6, <1>7, <1>8

LEMMA AddNodeInv ==
  ASSUME IInv, AddNode
  PROVE  IInv'
<1> USE ObjectsAssumption DEF IInv, AddNode, NoSample, dds, samples
<1> DEFINE c == xrce.client
<1>1. /\ c \in Clients /\ c \in Participants /\ life[c] = "live" /\ c \notin Roots
      /\ announced[c] = NoSample /\ GC!Knows(cache, c)
  BY DEF XrceSteps, Starts, Ends, Works, Participants
<1>2. /\ cache' = GC!AddNode(cache, c, NodeOf[c])
      /\ CacheOK(cache') /\ GC!HasNode(cache', c, NodeOf[c])
      /\ OnlyEntry(cache, cache', c)
  BY <1>1, AddNodeCall DEF Types
<1>3. xrce' = [xrce EXCEPT !.at = "first_write", !.info = cache'.participants[c]]
  BY <1>1
<1>4. Types'
  BY <1>1, <1>2, <1>3 DEF Types, Idle
<1>5. XrceSteps'
  BY <1>1, <1>2, <1>3 DEF XrceSteps, Types, Idle, Starts, Ends, Works, Live,
       ObjectsOf, GC!HasNode, GC!Knows
<1>6. Owners'
  BY DEF Owners, Live, Types
<1>7. ASSUME NEW p \in Participants
      PROVE  OwnEvents(p)' /\ Forgotten(p)' /\ Agreed(p)'
  <2>1. OwnEvents(p)'
    BY <1>7 DEF OwnEvents
  <2>2. Forgotten(p)'
    BY <1>7, <1>1, <1>2, <1>3 DEF Forgotten, OnlyEntry, GC!Knows, BeingApplied,
         Types
  <2>3. Agreed(p)'
    BY <1>7, <1>1, <1>2, <1>3 DEF Agreed, OnlyEntry, GC!Knows, BeingApplied,
         Changing, Live, Types, Idle
  <2> QED
    BY <2>1, <2>2, <2>3
<1>8. ASSUME NEW p \in Clients
      PROVE  Senders(p)' /\ NodeKept(p)'
  <2>1. Senders(p)'
    BY <1>8, <1>1, <1>2, <1>3 DEF Senders, Creating, Starts, BeingApplied, Live,
         Types, Idle, Participants
  <2>2. NodeKept(p)'
    BY <1>8, <1>1, <1>2, <1>3 DEF NodeKept, Senders, Creating, Starts, OnlyEntry,
         GC!HasNode, GC!Knows, BeingApplied, Types, Idle, Participants
  <2> QED
    BY <2>1, <2>2
<1> QED
  BY <1>4, <1>5, <1>6, <1>7, <1>8

LEMMA FirstWriteInv ==
  ASSUME IInv, FirstWrite
  PROVE  IInv'
<1> USE ObjectsAssumption DEF IInv, FirstWrite, Write, NoSample, dds, samples
<1> DEFINE c == xrce.client
<1>1. /\ c \in Clients /\ c \in Participants /\ life[c] = "live" /\ c \notin Roots
      /\ announced[c] = NoSample
      /\ GC!HasNode(cache, c, NodeOf[c]) /\ NodeOf[c] \in DOMAIN xrce.info
  BY DEF XrceSteps, Starts, Ends, Works, Participants
<1>2. /\ announced'[c] = {xrce.info} /\ outbox'[c] = {xrce.info}
      /\ \A q \in Participants \ {c} :
           announced'[q] = announced[q] /\ outbox'[q] = outbox[q]
      /\ DOMAIN announced' = Participants /\ DOMAIN outbox' = Participants
  BY <1>1 DEF Types
<1>3. c \notin auxWriters /\ ~BeingApplied(c)
  BY <1>1 DEF Senders, Creating, Starts
<1>4. Types'
  BY <1>1, <1>2, <1>3 DEF Types, Idle
<1>5. XrceSteps'
  BY <1>1, <1>2, <1>3 DEF XrceSteps, Types, Idle, Starts, Ends, Works, Live,
       ObjectsOf
<1>6. Owners'
  BY DEF Owners, Live, Types
<1>7. ASSUME NEW p \in Participants
      PROVE  OwnEvents(p)' /\ Forgotten(p)' /\ Agreed(p)'
  <2>1. OwnEvents(p)'
    BY <1>7 DEF OwnEvents
  <2>2. Forgotten(p)'
    BY <1>7, <1>1, <1>2, <1>3 DEF Forgotten, OnlyEntry, GC!Knows, BeingApplied,
         Types
  <2>3. Agreed(p)'
    BY <1>7, <1>1, <1>2, <1>3 DEF Agreed, OnlyEntry, GC!Knows, BeingApplied,
         Changing, Live, Types, Idle
  <2> QED
    BY <2>1, <2>2, <2>3
<1>8. ASSUME NEW p \in Clients
      PROVE  Senders(p)' /\ NodeKept(p)'
  <2>1. Senders(p)'
    BY <1>8, <1>1, <1>2, <1>3 DEF Senders, Creating, Starts, BeingApplied, Live,
         Types, Idle, Participants
  <2>2. NodeKept(p)'
    BY <1>8, <1>1, <1>2, <1>3 DEF NodeKept, Senders, Creating, Starts, OnlyEntry,
         GC!HasNode, GC!Knows, BeingApplied, Types, Idle, Participants
  <2> QED
    BY <2>1, <2>2
<1> QED
  BY <1>4, <1>5, <1>6, <1>7, <1>8

LEMMA OnDeleteParticipantInv ==
  ASSUME IInv, NEW c \in Clients, OnDeleteParticipant(c)
  PROVE  IInv'
<1> USE ObjectsAssumption DEF IInv, OnDeleteParticipant, NoSample, dds, samples
<1>1. /\ xrce.at = "idle" /\ c \in Participants /\ life[c] = "live"
      /\ \A o \in ObjectsOf(c) : ~Live(o)
  BY DEF Idle, Participants, Live
<1>2. Types'
  BY <1>1 DEF Types, Idle
<1>3. XrceSteps'
  BY <1>1 DEF XrceSteps, Types, Idle, Starts, Ends, Works, Live, ObjectsOf
<1>4. Owners'
  BY DEF Owners, Live, Types
<1>5. ASSUME NEW p \in Participants
      PROVE  OwnEvents(p)' /\ Forgotten(p)' /\ Agreed(p)'
  <2>1. OwnEvents(p)'
    BY <1>5 DEF OwnEvents
  <2>2. Forgotten(p)'
    BY <1>5, <1>1 DEF Forgotten, OnlyEntry, GC!Knows, BeingApplied, Types
  <2>3. Agreed(p)'
    BY <1>5, <1>1 DEF Agreed, OnlyEntry, GC!Knows, BeingApplied, Changing, Live,
         Types, Idle
  <2> QED
    BY <2>1, <2>2, <2>3
<1>6. ASSUME NEW p \in Clients
      PROVE  Senders(p)' /\ NodeKept(p)'
  <2>1. Senders(p)'
    BY <1>6, <1>1 DEF Senders, Creating, Starts, BeingApplied, Live, Types, Idle,
         Participants
  <2>2. NodeKept(p)'
    BY <1>6, <1>1 DEF NodeKept, Senders, Creating, Starts, OnlyEntry, GC!HasNode,
         GC!Knows, BeingApplied, Types, Idle, Participants
  <2> QED
    BY <2>1, <2>2
<1> QED
  BY <1>2, <1>3, <1>4, <1>5, <1>6

LEMMA RemoveParticipantInv ==
  ASSUME IInv, RemoveParticipant
  PROVE  IInv'
<1> USE ObjectsAssumption DEF IInv, RemoveParticipant, Continue, NoSample, dds, samples
<1> DEFINE c == xrce.client
<1>1. /\ c \in Clients /\ c \in Participants /\ life[c] = "live"
      /\ \A o \in ObjectsOf(c) : ~Live(o)
  BY DEF XrceSteps, Starts, Ends, Works, Participants
<1>2. CacheOK(cache') /\ ~GC!Knows(cache', c) /\ OnlyEntry(cache, cache', c)
  BY <1>1, RemoveParticipantCall DEF Types
<1>3. Types'
  BY <1>1, <1>2 DEF Types, Idle
<1>4. XrceSteps'
  BY <1>1, <1>2 DEF XrceSteps, Types, Idle, Starts, Ends, Works, Live, ObjectsOf
<1>5. Owners'
  BY DEF Owners, Live, Types
<1>6. ASSUME NEW p \in Participants
      PROVE  OwnEvents(p)' /\ Forgotten(p)' /\ Agreed(p)'
  <2>1. OwnEvents(p)'
    BY <1>6 DEF OwnEvents
  <2>2. Forgotten(p)'
    BY <1>6, <1>1, <1>2 DEF Forgotten, OnlyEntry, GC!Knows, BeingApplied, Types
  <2>3. Agreed(p)'
    BY <1>6, <1>1, <1>2 DEF Agreed, OnlyEntry, GC!Knows, BeingApplied, Changing,
         Live, Types, Idle
  <2> QED
    BY <2>1, <2>2, <2>3
<1>7. ASSUME NEW p \in Clients
      PROVE  Senders(p)' /\ NodeKept(p)'
  <2>1. Senders(p)'
    BY <1>7, <1>1, <1>2 DEF Senders, Creating, Starts, BeingApplied, Live, Types,
         Idle, Participants
  <2>2. NodeKept(p)'
    BY <1>7, <1>1, <1>2 DEF NodeKept, Senders, Creating, Starts, OnlyEntry,
         GC!HasNode, GC!Knows, BeingApplied, Types, Idle, Participants
  <2> QED
    BY <2>1, <2>2
<1> QED
  BY <1>3, <1>4, <1>5, <1>6, <1>7

LEMMA LastWriteInv ==
  ASSUME IInv, LastWrite
  PROVE  IInv'
<1>1. PICK c \in Clients :
      /\ c = xrce.client /\ c \in Participants /\ life[c] = "live"
      /\ \A o \in ObjectsOf(c) : ~Live(o)
  BY DEF XrceSteps, Starts, Ends, Works, Participants, LastWrite, IInv
<1>2. /\ xrce.at = "last_write"
      /\ UNCHANGED <<life, discovery, matched, cache, auxWriters, taken>>
  BY DEF LastWrite, Write, dds, samples
<1>3. /\ DOMAIN xrce = {"at", "client", "object", "todo", "info"}
      /\ DOMAIN announced = Participants /\ DOMAIN outbox = Participants
  BY DEF IInv, Types
<1>4. \/ /\ c \in auxWriters /\ xrce' = [xrce EXCEPT !.at = "delete_datawriter"]
         /\ announced' = [announced EXCEPT ![c] = {GC!NoEntries}]
         /\ outbox' = [outbox EXCEPT ![c] = {GC!NoEntries}]
      \/ /\ c \notin auxWriters /\ UNCHANGED samples
         /\ xrce' = [xrce EXCEPT !.at = "undefined"]
  BY <1>1 DEF LastWrite, Write, Continue, Undefined
<1>5. /\ xrce'.client = c /\ xrce'.at \in {"delete_datawriter", "undefined"}
      /\ DOMAIN xrce' = DOMAIN xrce
  BY <1>1, <1>3, <1>4
<1>6. /\ DOMAIN announced' = Participants /\ DOMAIN outbox' = Participants
      /\ \A q \in Participants \ {c} :
           announced'[q] = announced[q] /\ outbox'[q] = outbox[q]
  BY <1>1, <1>3, <1>4 DEF samples
<1>7. \/ /\ c \in auxWriters /\ xrce'.at = "delete_datawriter"
         /\ announced'[c] = {GC!NoEntries} /\ outbox'[c] = {GC!NoEntries}
      \/ c \notin auxWriters /\ UNCHANGED samples /\ xrce'.at = "undefined"
  <2>1. CASE c \notin auxWriters
    BY <1>3, <1>4, <2>1
  <2>2. CASE c \in auxWriters
    BY <1>1, <1>3, <1>4, <2>2
  <2> QED
    BY <2>1, <2>2
<1>8. \A q \in Participants \ {c} : ~Changing(q) /\ ~Changing(q)'
  BY <1>1, <1>5 DEF Changing
<1>9. \/ outbox'[c] # NoSample /\ announced'[c] = outbox'[c]
      \/ Changing(c)' /\ UNCHANGED samples
  BY <1>5, <1>7 DEF Changing, NoSample
<1> USE ObjectsAssumption DEF IInv, vars, NoSample, dds, samples
<1>10. Types'
  BY <1>1, <1>2, <1>5, <1>6, <1>7 DEF Types, Idle
<1>11. XrceSteps'
  BY <1>1, <1>2, <1>5, <1>6, <1>7 DEF XrceSteps, Types, Idle, Starts, Ends, Works,
       Live, ObjectsOf
<1>12. Owners'
  BY <1>1, <1>2, <1>5, <1>6, <1>7 DEF Owners, Live, Types
<1>13. ASSUME NEW p \in Participants
      PROVE  OwnEvents(p)' /\ Forgotten(p)' /\ Agreed(p)'
  <2>1. OwnEvents(p)'
    BY <1>13, <1>1, <1>2, <1>5, <1>6, <1>7 DEF OwnEvents
  <2>2. Forgotten(p)'
    BY <1>13, <1>1, <1>2, <1>5, <1>6, <1>7 DEF Forgotten, OnlyEntry, GC!Knows,
         BeingApplied, Types
  <2>3. Agreed(p)'
    <3>1. CASE p = c
      BY <1>13, <3>1, <1>1, <1>2, <1>9 DEF Agreed, Live, GC!Knows, BeingApplied
    <3>2. CASE p # c
      BY <1>13, <3>2, <1>1, <1>2, <1>6, <1>8 DEF Agreed, Live, GC!Knows,
           BeingApplied
    <3> QED
      BY <3>1, <3>2
  <2> QED
    BY <2>1, <2>2, <2>3
<1>14. ASSUME NEW p \in Clients
      PROVE  Senders(p)' /\ NodeKept(p)'
  <2>1. Senders(p)'
    BY <1>14, <1>1, <1>2, <1>5, <1>6, <1>7 DEF Senders, Creating, Starts,
         BeingApplied, Live, Types, Idle, Participants
  <2>2. NodeKept(p)'
    BY <1>14, <1>1, <1>2, <1>5, <1>6, <1>7 DEF NodeKept, Senders, Creating,
         Starts, OnlyEntry, GC!HasNode, GC!Knows, BeingApplied, Types, Idle,
              Participants
  <2> QED
    BY <2>1, <2>2
<1> QED
  BY <1>10, <1>11, <1>12, <1>13, <1>14

LEMMA DeleteAuxiliaryInv ==
  ASSUME IInv, DeleteAuxiliary
  PROVE  IInv'
<1> USE ObjectsAssumption DEF IInv, DeleteAuxiliary, NoSample, dds, samples
<1> DEFINE c == xrce.client
<1>1. /\ c \in Clients /\ c \in Participants /\ c \notin Objects
      /\ life[c] = "live" /\ \A o \in Objects : o.owner = c => life[o] # "live"
  BY DEF XrceSteps, Ends, Participants, ObjectsAssumption, ObjectsOf, Live
<1>2. /\ life'[c] = "gone"
      /\ \A x \in Participants \union Objects : x # c => life'[x] = life[x]
      /\ outbox'[c] = NoSample /\ DOMAIN outbox' = Participants
      /\ \A q \in Participants \ {c} : outbox'[q] = outbox[q]
      /\ \A q \in Participants \ {c} : discovery'[q] = discovery[q]
      /\ discovery'[c] = Append(discovery[c], Removed(c))
      /\ discovery' \in [Participants -> Seq(Events)] /\ life' \in [Participants \union Objects -> {"none", "live", "gone"}]
  BY <1>1, EventFacts, AppendEvent DEF Types
<1>3. /\ Len(discovery'[c]) = Len(discovery[c]) + 1 /\ discovery'[c] # <<>>
      /\ discovery'[c][Len(discovery[c]) + 1] = Removed(c)
      /\ \A i \in 1..Len(discovery[c]) : discovery'[c][i] = discovery[c][i]
      /\ Len(discovery[c]) \in Nat /\ Removed(c).id = c
  BY <1>1, <1>2, EventFacts, AppendEvent, LenProperties DEF Types
<1>4. Types'
  BY <1>1, <1>2, <1>3 DEF Types, Idle
<1>5. XrceSteps'
  BY <1>1, <1>2, <1>3 DEF XrceSteps, Types, Idle, Starts, Ends, Works, Live,
       ObjectsOf
<1>6. Owners'
  BY <1>1, <1>2, <1>3 DEF Owners, Live, Types, ObjectsAssumption
<1>7. ASSUME NEW p \in Participants
      PROVE  OwnEvents(p)' /\ Forgotten(p)' /\ Agreed(p)'
  <2>1. OwnEvents(p)'
    <3>1. CASE p = c
      BY <1>7, <3>1, <1>1, <1>2, <1>3 DEF OwnEvents
    <3>2. CASE p # c
      BY <1>7, <3>2, <1>1, <1>2, <1>3 DEF OwnEvents
    <3> QED
      BY <3>1, <3>2
  <2>2. Forgotten(p)'
    BY <1>7, <1>1, <1>2, <1>3 DEF Forgotten, OnlyEntry, GC!Knows, BeingApplied,
         Types
  <2>3. Agreed(p)'
    BY <1>7, <1>1, <1>2, <1>3 DEF Agreed, OnlyEntry, GC!Knows, BeingApplied,
         Changing, Live, Types, Idle
  <2> QED
    BY <2>1, <2>2, <2>3
<1>8. ASSUME NEW p \in Clients
      PROVE  Senders(p)' /\ NodeKept(p)'
  <2>1. Senders(p)'
    BY <1>8, <1>1, <1>2, <1>3 DEF Senders, Creating, Starts, BeingApplied, Live,
         Types, Idle, Participants
  <2>2. NodeKept(p)'
    BY <1>8, <1>1, <1>2, <1>3 DEF NodeKept, Senders, Creating, Starts, OnlyEntry,
         GC!HasNode, GC!Knows, BeingApplied, Types, Idle, Participants
  <2> QED
    BY <2>1, <2>2
<1> QED
  BY <1>4, <1>5, <1>6, <1>7, <1>8

LEMMA OnCreateParticipantInv ==
  ASSUME IInv, NEW c \in Clients, OnCreateParticipant(c)
  PROVE  IInv'
<1> USE ObjectsAssumption DEF IInv, OnCreateParticipant, NoSample, dds, samples
<1>1. /\ c \in Participants /\ life[c] = "none" /\ c \notin Objects
      /\ announced[c] = NoSample /\ xrce.at = "idle"
      /\ outbox[c] = NoSample /\ ~BeingApplied(c) /\ ~GC!Knows(cache, c)
  BY DEF Participants, Forgotten, Idle, ObjectsAssumption
<1>2. /\ life'[c] = "live"
      /\ \A x \in Participants \union Objects : x # c => life'[x] = life[x]
      /\ \A q \in Participants \ {c} : discovery'[q] = discovery[q]
      /\ discovery'[c] = Append(<<>>, Discovered(c))
      /\ discovery' \in [Participants -> Seq(Events)]
      /\ life' \in [Participants \union Objects -> {"none", "live", "gone"}]
  BY <1>1, EventFacts, AppendEvent DEF Types, OwnEvents
<1>3. /\ Len(discovery'[c]) = 1 /\ discovery'[c] # <<>> /\ discovery'[c][1] = Discovered(c)
      /\ Discovered(c).id = c /\ Discovered(c) # Removed(c)
      /\ \A x \in Participants : Removed(x).id = x
  BY <1>1, <1>2, EventFacts, FirstEvent
<1>4. Types'
  BY <1>1, <1>2, <1>3 DEF Types, Idle
<1>5. XrceSteps'
  BY <1>1, <1>2, <1>3 DEF XrceSteps, Types, Idle, Starts, Ends, Works, Live,
       ObjectsOf
<1>6. Owners'
  BY <1>1, <1>2, <1>3 DEF Owners, Live, Types, ObjectsAssumption
<1>7. ASSUME NEW p \in Participants
      PROVE  OwnEvents(p)' /\ Forgotten(p)' /\ Agreed(p)'
  <2>1. OwnEvents(p)'
    <3>1. CASE p = c
      BY <1>7, <3>1, <1>1, <1>2, <1>3 DEF OwnEvents
    <3>2. CASE p # c
      BY <1>7, <3>2, <1>1, <1>2, <1>3 DEF OwnEvents
    <3> QED
      BY <3>1, <3>2
  <2>2. Forgotten(p)'
    <3>1. CASE p = c
      BY <1>7, <3>1, <1>1, <1>2, <1>3 DEF Forgotten, OnlyEntry, GC!Knows,
           BeingApplied, Types
    <3>2. CASE p # c
      BY <1>7, <3>2, <1>1, <1>2, <1>3 DEF Forgotten, OnlyEntry, GC!Knows,
           BeingApplied, Types
    <3> QED
      BY <3>1, <3>2
  <2>3. Agreed(p)'
    BY <1>7, <1>1, <1>2, <1>3 DEF Agreed, OnlyEntry, GC!Knows, BeingApplied,
         Changing, Live, Types, Idle
  <2> QED
    BY <2>1, <2>2, <2>3
<1>8. ASSUME NEW p \in Clients
      PROVE  Senders(p)' /\ NodeKept(p)'
  <2>1. Senders(p)'
    BY <1>8, <1>1, <1>2, <1>3 DEF Senders, Creating, Starts, BeingApplied, Live,
         Types, Idle, Participants
  <2>2. NodeKept(p)'
    BY <1>8, <1>1, <1>2, <1>3 DEF NodeKept, Senders, Creating, Starts, OnlyEntry,
         GC!HasNode, GC!Knows, BeingApplied, Types, Idle, Participants
  <2> QED
    BY <2>1, <2>2
<1> QED
  BY <1>4, <1>5, <1>6, <1>7, <1>8

LEMMA PeerAppearsInv ==
  ASSUME IInv, NEW c \in Peers, PeerAppears(c)
  PROVE  IInv'
<1> USE ObjectsAssumption DEF IInv, PeerAppears, NoSample, dds, samples
<1>1. /\ c \in Participants /\ life[c] = "none" /\ c \notin Objects /\ c \notin Clients
      /\ announced[c] = NoSample
      /\ outbox[c] = NoSample /\ ~BeingApplied(c) /\ ~GC!Knows(cache, c)
  BY DEF Participants, Forgotten, ObjectsAssumption
<1>2. /\ life'[c] = "live"
      /\ \A x \in Participants \union Objects : x # c => life'[x] = life[x]
      /\ \A q \in Participants \ {c} : discovery'[q] = discovery[q]
      /\ discovery'[c] = Append(<<>>, Discovered(c))
      /\ discovery' \in [Participants -> Seq(Events)]
      /\ life' \in [Participants \union Objects -> {"none", "live", "gone"}]
  BY <1>1, EventFacts, AppendEvent DEF Types, OwnEvents
<1>3. /\ Len(discovery'[c]) = 1 /\ discovery'[c] # <<>> /\ discovery'[c][1] = Discovered(c)
      /\ Discovered(c).id = c /\ Discovered(c) # Removed(c)
      /\ \A x \in Participants : Removed(x).id = x
  BY <1>1, <1>2, EventFacts, FirstEvent
<1>4. Types'
  BY <1>1, <1>2, <1>3 DEF Types, Idle
<1>5. XrceSteps'
  BY <1>1, <1>2, <1>3 DEF XrceSteps, Types, Idle, Starts, Ends, Works, Live,
       ObjectsOf
<1>6. Owners'
  BY <1>1, <1>2, <1>3 DEF Owners, Live, Types, ObjectsAssumption
<1>7. ASSUME NEW p \in Participants
      PROVE  OwnEvents(p)' /\ Forgotten(p)' /\ Agreed(p)'
  <2>1. OwnEvents(p)'
    <3>1. CASE p = c
      BY <1>7, <3>1, <1>1, <1>2, <1>3 DEF OwnEvents
    <3>2. CASE p # c
      BY <1>7, <3>2, <1>1, <1>2, <1>3 DEF OwnEvents
    <3> QED
      BY <3>1, <3>2
  <2>2. Forgotten(p)'
    <3>1. CASE p = c
      BY <1>7, <3>1, <1>1, <1>2, <1>3 DEF Forgotten, OnlyEntry, GC!Knows,
           BeingApplied, Types
    <3>2. CASE p # c
      BY <1>7, <3>2, <1>1, <1>2, <1>3 DEF Forgotten, OnlyEntry, GC!Knows,
           BeingApplied, Types
    <3> QED
      BY <3>1, <3>2
  <2>3. Agreed(p)'
    BY <1>7, <1>1, <1>2, <1>3 DEF Agreed, OnlyEntry, GC!Knows, BeingApplied,
         Changing, Live, Types, Idle
  <2> QED
    BY <2>1, <2>2, <2>3
<1>8. ASSUME NEW p \in Clients
      PROVE  Senders(p)' /\ NodeKept(p)'
  <2>1. Senders(p)'
    BY <1>8, <1>1, <1>2, <1>3 DEF Senders, Creating, Starts, BeingApplied, Live,
         Types, Idle, Participants
  <2>2. NodeKept(p)'
    BY <1>8, <1>1, <1>2, <1>3 DEF NodeKept, Senders, Creating, Starts, OnlyEntry,
         GC!HasNode, GC!Knows, BeingApplied, Types, Idle, Participants
  <2> QED
    BY <2>1, <2>2
<1> QED
  BY <1>4, <1>5, <1>6, <1>7, <1>8

LEMMA PeerLeavesInv ==
  ASSUME IInv, NEW c \in Peers, PeerLeaves(c)
  PROVE  IInv'
<1> USE ObjectsAssumption DEF IInv, PeerLeaves, NoSample, dds, samples
<1>1. /\ c \in Participants /\ c \notin Objects /\ c \notin Clients
      /\ life[c] = "live" /\ \A o \in Objects : o.owner = c => life[o] # "live"
  BY DEF Participants, ObjectsAssumption, ObjectsOf, Live
<1>2. /\ life'[c] = "gone"
      /\ \A x \in Participants \union Objects : x # c => life'[x] = life[x]
      /\ \A q \in Participants \ {c} : discovery'[q] = discovery[q]
      /\ discovery'[c] = Append(discovery[c], Removed(c))
      /\ discovery' \in [Participants -> Seq(Events)]
      /\ life' \in [Participants \union Objects -> {"none", "live", "gone"}]
  BY <1>1, EventFacts, AppendEvent DEF Types
<1>3. /\ Len(discovery'[c]) = Len(discovery[c]) + 1 /\ discovery'[c] # <<>>
      /\ discovery'[c][Len(discovery[c]) + 1] = Removed(c)
      /\ \A i \in 1..Len(discovery[c]) : discovery'[c][i] = discovery[c][i]
      /\ Len(discovery[c]) \in Nat /\ Removed(c).id = c
  BY <1>1, <1>2, EventFacts, AppendEvent, LenProperties DEF Types
<1>4. Types'
  BY <1>1, <1>2, <1>3 DEF Types, Idle
<1>5. XrceSteps'
  BY <1>1, <1>2, <1>3 DEF XrceSteps, Types, Idle, Starts, Ends, Works, Live,
       ObjectsOf, Participants
<1>6. Owners'
  BY <1>1, <1>2, <1>3 DEF Owners, Live, Types, ObjectsAssumption
<1>7. ASSUME NEW p \in Participants
      PROVE  OwnEvents(p)' /\ Forgotten(p)' /\ Agreed(p)'
  <2>1. OwnEvents(p)'
    <3>1. CASE p = c
      BY <1>7, <3>1, <1>1, <1>2, <1>3 DEF OwnEvents
    <3>2. CASE p # c
      BY <1>7, <3>2, <1>1, <1>2, <1>3 DEF OwnEvents
    <3> QED
      BY <3>1, <3>2
  <2>2. Forgotten(p)'
    BY <1>7, <1>1, <1>2, <1>3 DEF Forgotten, OnlyEntry, GC!Knows, BeingApplied,
         Types
  <2>3. Agreed(p)'
    BY <1>7, <1>1, <1>2, <1>3 DEF Agreed, OnlyEntry, GC!Knows, BeingApplied,
         Changing, Live, Types, Idle
  <2> QED
    BY <2>1, <2>2, <2>3
<1>8. ASSUME NEW p \in Clients
      PROVE  Senders(p)' /\ NodeKept(p)'
  <2>1. Senders(p)'
    BY <1>8, <1>1, <1>2, <1>3 DEF Senders, Creating, Starts, BeingApplied, Live,
         Types, Idle, Participants
  <2>2. NodeKept(p)'
    BY <1>8, <1>1, <1>2, <1>3 DEF NodeKept, Senders, Creating, Starts, OnlyEntry,
         GC!HasNode, GC!Knows, BeingApplied, Types, Idle, Participants
  <2> QED
    BY <2>1, <2>2
<1> QED
  BY <1>4, <1>5, <1>6, <1>7, <1>8

LEMMA PeerAnnouncesInv ==
  ASSUME IInv, NEW c \in Peers, PeerAnnounces(c)
  PROVE  IInv'
<1> USE ObjectsAssumption DEF IInv, vars, NoSample, dds, samples
<1>1. c \in Participants /\ c \notin Clients /\ life[c] = "live"
  BY DEF Participants, ObjectsAssumption, Live, PeerAnnounces
<1>2. /\ outbox'[c] # NoSample /\ announced'[c] = outbox'[c]
      /\ \A a, b \in announced'[c] : a = b
      /\ \A q \in Participants \ {c} :
           announced'[q] = announced[q] /\ outbox'[q] = outbox[q]
      /\ DOMAIN announced' = Participants /\ DOMAIN outbox' = Participants
      /\ UNCHANGED <<life, discovery, matched, cache, auxWriters, taken, xrce>>
  BY <1>1 DEF Types, PeerAnnounces, Write
<1>3. Types'
  BY <1>1, <1>2 DEF Types, Idle
<1>4. XrceSteps'
  BY <1>1, <1>2 DEF XrceSteps, Types, Idle, Starts, Ends, Works, Live, ObjectsOf,
       Participants
<1>5. Owners'
  BY <1>1, <1>2 DEF Owners, Live, Types
<1>6. ASSUME NEW p \in Participants
      PROVE  OwnEvents(p)' /\ Forgotten(p)' /\ Agreed(p)'
  <2>1. OwnEvents(p)'
    BY <1>6, <1>1, <1>2 DEF OwnEvents
  <2>2. Forgotten(p)'
    BY <1>6, <1>1, <1>2 DEF Forgotten, OnlyEntry, GC!Knows, BeingApplied, Types
  <2>3. Agreed(p)'
    <3>1. CASE p = c
      BY <1>6, <3>1, <1>1, <1>2 DEF Agreed, Live, GC!Knows, BeingApplied, Changing
    <3>2. CASE p # c
      BY <1>6, <3>2, <1>1, <1>2 DEF Agreed, Live, GC!Knows, BeingApplied, Changing
    <3> QED
      BY <3>1, <3>2
  <2> QED
    BY <2>1, <2>2, <2>3
<1>7. ASSUME NEW p \in Clients
      PROVE  Senders(p)' /\ NodeKept(p)'
  <2>1. Senders(p)'
    BY <1>7, <1>1, <1>2 DEF Senders, Creating, Starts, BeingApplied, Live, Types,
         Idle, Participants
  <2>2. NodeKept(p)'
    BY <1>7, <1>1, <1>2 DEF NodeKept, Senders, Creating, Starts, OnlyEntry,
         GC!HasNode, GC!Knows, BeingApplied, Types, Idle, Participants
  <2> QED
    BY <2>1, <2>2
<1> QED
  BY <1>3, <1>4, <1>5, <1>6, <1>7

LEMMA CreateObjectInv ==
  ASSUME IInv, NEW o \in Objects, NEW kind, CreateObject(o, kind)
  PROVE  IInv'
<1> USE ObjectsAssumption DEF IInv, CreateObject, NoSample, dds, samples
<1> DEFINE c == o.owner
<1>1. /\ c \in Participants /\ o \notin Participants /\ life[c] = "live"
      /\ o.entities \in Seq(Entities) /\ o.entities # <<>>
      /\ c \in Clients /\ xrce.at = "idle"
  BY DEF Participants, ObjectsAssumption, Live, Idle
<1>2. /\ discovery \in [Participants -> Seq(Events)] /\ discovery[c] \in Seq(Events)
      /\ life \in [Participants \union Objects -> {"none", "live", "gone"}]
  BY <1>1 DEF Types
<1>3. Extends(discovery[c] \o EventsOf(o, "discovered"), discovery[c])
  BY <1>1, <1>2, ObjectEvents
<1>4. /\ life'[o] = "live"
      /\ \A x \in Participants \union Objects : x # o => life'[x] = life[x]
  BY <1>1, <1>2
<1>5. /\ \A q \in Participants \ {c} : discovery'[q] = discovery[q]
      /\ discovery'[c] = discovery[c] \o EventsOf(o, "discovered")
  BY <1>1, <1>2
<1>6. /\ discovery' \in [Participants -> Seq(Events)]
      /\ life' \in [Participants \union Objects -> {"none", "live", "gone"}]
  BY <1>1, <1>2, <1>3 DEF Extends
<1>7. /\ Len(discovery[c]) \in Nat /\ Len(discovery'[c]) \in Nat /\ Removed(c).id = c
      /\ \A i \in 1..Len(discovery'[c]) : discovery'[c][i].id \in Participants =>
           i \in 1..Len(discovery[c]) /\ discovery'[c][i] = discovery[c][i]
  BY <1>1, <1>3, <1>5, EventFacts DEF Extends
<1>8. xrce' = [Idle EXCEPT !.at = "add_entity", !.client = c,
                            !.object = o, !.todo = o.entities]
  OBVIOUS
<1>9. Types'
  BY <1>1, <1>2, <1>3, <1>4, <1>5, <1>6, <1>7, <1>8 DEF Types, Idle
<1>10. XrceSteps'
  BY <1>1, <1>2, <1>3, <1>4, <1>5, <1>6, <1>7, <1>8 DEF XrceSteps, Types, Idle,
       Starts, Ends, Works, Live, ObjectsOf, ObjectsAssumption, Participants
<1>11. Owners'
  BY <1>1, <1>2, <1>3, <1>4, <1>5, <1>6, <1>7, <1>8 DEF Owners, Live, Types,
       ObjectsAssumption
<1>12. ASSUME NEW p \in Participants
      PROVE  OwnEvents(p)' /\ Forgotten(p)' /\ Agreed(p)'
  <2>1. OwnEvents(p)'
    <3>1. CASE p = c
      BY <1>12, <3>1, <1>1, <1>2, <1>3, <1>4, <1>5, <1>6, <1>7, <1>8 DEF OwnEvents
    <3>2. CASE p # c
      BY <1>12, <3>2, <1>1, <1>2, <1>3, <1>4, <1>5, <1>6, <1>7, <1>8 DEF OwnEvents
    <3> QED
      BY <3>1, <3>2
  <2>2. Forgotten(p)'
    BY <1>12, <1>1, <1>2, <1>3, <1>4, <1>5, <1>6, <1>7, <1>8 DEF Forgotten,
         OnlyEntry, GC!Knows, BeingApplied, Types
  <2>3. Agreed(p)'
    BY <1>12, <1>1, <1>2, <1>3, <1>4, <1>5, <1>6, <1>7, <1>8 DEF Agreed,
         OnlyEntry, GC!Knows, BeingApplied, Changing, Live, Types, Idle
  <2> QED
    BY <2>1, <2>2, <2>3
<1>13. ASSUME NEW p \in Clients
      PROVE  Senders(p)' /\ NodeKept(p)'
  <2>1. Senders(p)'
    BY <1>13, <1>1, <1>2, <1>3, <1>4, <1>5, <1>6, <1>7, <1>8 DEF Senders,
         Creating, Starts, BeingApplied, Live, Types, Idle, Participants
  <2>2. NodeKept(p)'
    BY <1>13, <1>1, <1>2, <1>3, <1>4, <1>5, <1>6, <1>7, <1>8 DEF NodeKept,
         Senders, Creating, Starts, OnlyEntry, GC!HasNode, GC!Knows, BeingApplied,
              Types, Idle, Participants
  <2> QED
    BY <2>1, <2>2
<1> QED
  BY <1>9, <1>10, <1>11, <1>12, <1>13

LEMMA PeerCreatesInv ==
  ASSUME IInv, NEW o \in Objects, PeerCreates(o)
  PROVE  IInv'
<1> USE ObjectsAssumption DEF IInv, PeerCreates, NoSample, dds, samples
<1> DEFINE c == o.owner
<1>1. /\ c \in Participants /\ o \notin Participants /\ life[c] = "live"
      /\ o.entities \in Seq(Entities) /\ o.entities # <<>>
      /\ c \in Peers /\ c \notin Clients
  BY DEF Participants, ObjectsAssumption, Live
<1>2. /\ discovery \in [Participants -> Seq(Events)] /\ discovery[c] \in Seq(Events)
      /\ life \in [Participants \union Objects -> {"none", "live", "gone"}]
  BY <1>1 DEF Types
<1>3. Extends(discovery[c] \o EventsOf(o, "discovered"), discovery[c])
  BY <1>1, <1>2, ObjectEvents
<1>4. /\ life'[o] = "live"
      /\ \A x \in Participants \union Objects : x # o => life'[x] = life[x]
  BY <1>1, <1>2
<1>5. /\ \A q \in Participants \ {c} : discovery'[q] = discovery[q]
      /\ discovery'[c] = discovery[c] \o EventsOf(o, "discovered")
  BY <1>1, <1>2
<1>6. /\ discovery' \in [Participants -> Seq(Events)]
      /\ life' \in [Participants \union Objects -> {"none", "live", "gone"}]
  BY <1>1, <1>2, <1>3 DEF Extends
<1>7. /\ Len(discovery[c]) \in Nat /\ Len(discovery'[c]) \in Nat /\ Removed(c).id = c
      /\ \A i \in 1..Len(discovery'[c]) : discovery'[c][i].id \in Participants =>
           i \in 1..Len(discovery[c]) /\ discovery'[c][i] = discovery[c][i]
  BY <1>1, <1>3, <1>5, EventFacts DEF Extends
<1>8. Types'
  BY <1>1, <1>2, <1>3, <1>4, <1>5, <1>6, <1>7 DEF Types, Idle
<1>9. XrceSteps'
  BY <1>1, <1>2, <1>3, <1>4, <1>5, <1>6, <1>7 DEF XrceSteps, Types, Idle, Starts,
       Ends, Works, Live, ObjectsOf, ObjectsAssumption, Participants
<1>10. Owners'
  BY <1>1, <1>2, <1>3, <1>4, <1>5, <1>6, <1>7 DEF Owners, Live, Types,
       ObjectsAssumption
<1>11. ASSUME NEW p \in Participants
      PROVE  OwnEvents(p)' /\ Forgotten(p)' /\ Agreed(p)'
  <2>1. OwnEvents(p)'
    <3>1. CASE p = c
      BY <1>11, <3>1, <1>1, <1>2, <1>3, <1>4, <1>5, <1>6, <1>7 DEF OwnEvents
    <3>2. CASE p # c
      BY <1>11, <3>2, <1>1, <1>2, <1>3, <1>4, <1>5, <1>6, <1>7 DEF OwnEvents
    <3> QED
      BY <3>1, <3>2
  <2>2. Forgotten(p)'
    BY <1>11, <1>1, <1>2, <1>3, <1>4, <1>5, <1>6, <1>7 DEF Forgotten, OnlyEntry,
         GC!Knows, BeingApplied, Types
  <2>3. Agreed(p)'
    BY <1>11, <1>1, <1>2, <1>3, <1>4, <1>5, <1>6, <1>7 DEF Agreed, OnlyEntry,
         GC!Knows, BeingApplied, Changing, Live, Types, Idle
  <2> QED
    BY <2>1, <2>2, <2>3
<1>12. ASSUME NEW p \in Clients
      PROVE  Senders(p)' /\ NodeKept(p)'
  <2>1. Senders(p)'
    BY <1>12, <1>1, <1>2, <1>3, <1>4, <1>5, <1>6, <1>7 DEF Senders, Creating,
         Starts, BeingApplied, Live, Types, Idle, Participants
  <2>2. NodeKept(p)'
    BY <1>12, <1>1, <1>2, <1>3, <1>4, <1>5, <1>6, <1>7 DEF NodeKept, Senders,
         Creating, Starts, OnlyEntry, GC!HasNode, GC!Knows, BeingApplied, Types,
              Idle, Participants
  <2> QED
    BY <2>1, <2>2
<1> QED
  BY <1>8, <1>9, <1>10, <1>11, <1>12

LEMMA PeerDeletesInv ==
  ASSUME IInv, NEW o \in Objects, PeerDeletes(o)
  PROVE  IInv'
<1> USE ObjectsAssumption DEF IInv, PeerDeletes, NoSample, dds, samples
<1> DEFINE c == o.owner
<1>1. /\ c \in Participants /\ o \notin Participants /\ life[c] = "live"
      /\ o.entities \in Seq(Entities) /\ o.entities # <<>>
      /\ c \in Peers /\ c \notin Clients
  BY DEF Participants, ObjectsAssumption, Live, Owners
<1>2. /\ discovery \in [Participants -> Seq(Events)] /\ discovery[c] \in Seq(Events)
      /\ life \in [Participants \union Objects -> {"none", "live", "gone"}]
  BY <1>1 DEF Types
<1>3. Extends(discovery[c] \o EventsOf(o, "removed"), discovery[c])
  BY <1>1, <1>2, ObjectEvents
<1>4. /\ life'[o] = "gone"
      /\ \A x \in Participants \union Objects : x # o => life'[x] = life[x]
  BY <1>1, <1>2
<1>5. /\ \A q \in Participants \ {c} : discovery'[q] = discovery[q]
      /\ discovery'[c] = discovery[c] \o EventsOf(o, "removed")
  BY <1>1, <1>2
<1>6. /\ discovery' \in [Participants -> Seq(Events)]
      /\ life' \in [Participants \union Objects -> {"none", "live", "gone"}]
  BY <1>1, <1>2, <1>3 DEF Extends
<1>7. /\ Len(discovery[c]) \in Nat /\ Len(discovery'[c]) \in Nat /\ Removed(c).id = c
      /\ \A i \in 1..Len(discovery'[c]) : discovery'[c][i].id \in Participants =>
           i \in 1..Len(discovery[c]) /\ discovery'[c][i] = discovery[c][i]
  BY <1>1, <1>3, <1>5, EventFacts DEF Extends
<1>8. Types'
  BY <1>1, <1>2, <1>3, <1>4, <1>5, <1>6, <1>7 DEF Types, Idle
<1>9. XrceSteps'
  BY <1>1, <1>2, <1>3, <1>4, <1>5, <1>6, <1>7 DEF XrceSteps, Types, Idle, Starts,
       Ends, Works, Live, ObjectsOf, ObjectsAssumption, Participants
<1>10. Owners'
  BY <1>1, <1>2, <1>3, <1>4, <1>5, <1>6, <1>7 DEF Owners, Live, Types,
       ObjectsAssumption
<1>11. ASSUME NEW p \in Participants
      PROVE  OwnEvents(p)' /\ Forgotten(p)' /\ Agreed(p)'
  <2>1. OwnEvents(p)'
    <3>1. CASE p = c
      BY <1>11, <3>1, <1>1, <1>2, <1>3, <1>4, <1>5, <1>6, <1>7 DEF OwnEvents
    <3>2. CASE p # c
      BY <1>11, <3>2, <1>1, <1>2, <1>3, <1>4, <1>5, <1>6, <1>7 DEF OwnEvents
    <3> QED
      BY <3>1, <3>2
  <2>2. Forgotten(p)'
    BY <1>11, <1>1, <1>2, <1>3, <1>4, <1>5, <1>6, <1>7 DEF Forgotten, OnlyEntry,
         GC!Knows, BeingApplied, Types
  <2>3. Agreed(p)'
    BY <1>11, <1>1, <1>2, <1>3, <1>4, <1>5, <1>6, <1>7 DEF Agreed, OnlyEntry,
         GC!Knows, BeingApplied, Changing, Live, Types, Idle
  <2> QED
    BY <2>1, <2>2, <2>3
<1>12. ASSUME NEW p \in Clients
      PROVE  Senders(p)' /\ NodeKept(p)'
  <2>1. Senders(p)'
    BY <1>12, <1>1, <1>2, <1>3, <1>4, <1>5, <1>6, <1>7 DEF Senders, Creating,
         Starts, BeingApplied, Live, Types, Idle, Participants
  <2>2. NodeKept(p)'
    BY <1>12, <1>1, <1>2, <1>3, <1>4, <1>5, <1>6, <1>7 DEF NodeKept, Senders,
         Creating, Starts, OnlyEntry, GC!HasNode, GC!Knows, BeingApplied, Types,
              Idle, Participants
  <2> QED
    BY <2>1, <2>2
<1> QED
  BY <1>8, <1>9, <1>10, <1>11, <1>12

LEMMA DeleteObjectInv ==
  ASSUME IInv, NEW o \in Objects, NEW kind, DeleteObject(o, kind)
  PROVE  IInv'
<1> USE ObjectsAssumption DEF IInv, DeleteObject, NoSample, dds, samples
<1>1. /\ o.owner \in Clients /\ life[o.owner] = "live" /\ xrce.at = "idle"
      /\ o.entities \in Seq(Entities) /\ o.entities # <<>>
  BY DEF ObjectsAssumption, Live, Idle, Owners
<1>2. Types'
  BY <1>1 DEF Types, Idle
<1>3. XrceSteps'
  BY <1>1 DEF XrceSteps, Types, Idle, Starts, Ends, Works, Live, ObjectsOf
<1>4. Owners'
  BY DEF Owners, Live, Types
<1>5. ASSUME NEW p \in Participants
      PROVE  OwnEvents(p)' /\ Forgotten(p)' /\ Agreed(p)'
  <2>1. OwnEvents(p)'
    BY <1>5 DEF OwnEvents
  <2>2. Forgotten(p)'
    BY <1>5, <1>1 DEF Forgotten, OnlyEntry, GC!Knows, BeingApplied, Types
  <2>3. Agreed(p)'
    BY <1>5, <1>1 DEF Agreed, OnlyEntry, GC!Knows, BeingApplied, Changing, Live,
         Types, Idle
  <2> QED
    BY <2>1, <2>2, <2>3
<1>6. ASSUME NEW p \in Clients
      PROVE  Senders(p)' /\ NodeKept(p)'
  <2>1. Senders(p)'
    BY <1>6, <1>1 DEF Senders, Creating, Starts, BeingApplied, Live, Types, Idle,
         Participants
  <2>2. NodeKept(p)'
    BY <1>6, <1>1 DEF NodeKept, Senders, Creating, Starts, OnlyEntry, GC!HasNode,
         GC!Knows, BeingApplied, Types, Idle, Participants
  <2> QED
    BY <2>1, <2>2
<1> QED
  BY <1>2, <1>3, <1>4, <1>5, <1>6

LEMMA AddEntityInv ==
  ASSUME IInv, AddEntity
  PROVE  IInv'
<1> USE ObjectsAssumption DEF IInv, AddEntity, Continue, NoSample, dds, samples
<1> DEFINE c == xrce.client
<1>1. /\ c \in Clients /\ c \in Participants /\ life[c] = "live"
      /\ xrce.todo \in Seq(Entities) /\ xrce.todo # <<>> /\ Head(xrce.todo) \in Entities
  BY TailOfTodo DEF XrceSteps, Starts, Ends, Works, Participants
<1>2. CacheOK(cache') /\ cache'.participants = cache.participants
  BY <1>1, EntityCalls DEF Types
<1>3. Types'
  BY <1>1, <1>2 DEF Types, Idle
<1>4. XrceSteps'
  BY <1>1, <1>2 DEF XrceSteps, Types, Idle, Starts, Ends, Works, Live, ObjectsOf
<1>5. Owners'
  BY DEF Owners, Live, Types
<1>6. ASSUME NEW p \in Participants
      PROVE  OwnEvents(p)' /\ Forgotten(p)' /\ Agreed(p)'
  <2>1. OwnEvents(p)'
    BY <1>6 DEF OwnEvents
  <2>2. Forgotten(p)'
    BY <1>6, <1>1, <1>2 DEF Forgotten, OnlyEntry, GC!Knows, BeingApplied, Types
  <2>3. Agreed(p)'
    BY <1>6, <1>1, <1>2 DEF Agreed, OnlyEntry, GC!Knows, BeingApplied, Changing,
         Live, Types, Idle
  <2> QED
    BY <2>1, <2>2, <2>3
<1>7. ASSUME NEW p \in Clients
      PROVE  Senders(p)' /\ NodeKept(p)'
  <2>1. Senders(p)'
    BY <1>7, <1>1, <1>2 DEF Senders, Creating, Starts, BeingApplied, Live, Types,
         Idle, Participants
  <2>2. NodeKept(p)'
    BY <1>7, <1>1, <1>2 DEF NodeKept, Senders, Creating, Starts, OnlyEntry,
         GC!HasNode, GC!Knows, BeingApplied, Types, Idle, Participants
  <2> QED
    BY <2>1, <2>2
<1> QED
  BY <1>3, <1>4, <1>5, <1>6, <1>7

LEMMA AssociateEntityInv ==
  ASSUME IInv, AssociateEntity
  PROVE  IInv'
<1> DEFINE c == xrce.client
<1>1. /\ c \in Clients /\ c \in Participants /\ life[c] = "live"
  BY DEF XrceSteps, Starts, Ends, Works, Participants, AssociateEntity, IInv
<1>2. /\ DOMAIN xrce = {"at", "client", "object", "todo", "info"} /\ CacheOK(cache)
  BY DEF IInv, Types
<1>3. /\ xrce.at = "associate_entity"
      /\ UNCHANGED <<life, discovery, matched, auxWriters, announced, outbox, taken>>
  BY DEF AssociateEntity, dds, samples
<1>4. \/ /\ cache' = cache /\ xrce' = [xrce EXCEPT !.at = "undefined"]
      \/ /\ GC!HasNode(cache, c, NodeOf[c])
         /\ \E e : cache' \in {GC!AssociateWriter(cache, e, c, NodeOf[c]),
                             GC!AssociateReader(cache, e, c, NodeOf[c])}
         /\ xrce' = [xrce EXCEPT !.at = "write", !.info = cache'.participants[c]]
  BY DEF AssociateEntity, Undefined, Continue
<1>5. \/ cache' = cache /\ xrce'.at = "undefined"
      \/ /\ CacheOK(cache') /\ GC!HasNode(cache', c, NodeOf[c]) /\ OnlyEntry(cache, cache', c)
         /\ xrce'.at = "write" /\ xrce'.info = cache'.participants[c]
  <2>1. CASE cache' = cache /\ xrce' = [xrce EXCEPT !.at = "undefined"]
    BY <1>2, <2>1
  <2>2. CASE xrce' = [xrce EXCEPT !.at = "write", !.info = cache'.participants[c]]
    <3>1. xrce'.at = "write" /\ xrce'.info = cache'.participants[c]
      BY <1>2, <2>2
    <3> QED
      BY <1>1, <1>2, <1>4, <3>1, AssociateCalls
  <2> QED
    BY <1>4, <2>1, <2>2
<1>6. /\ xrce'.client = c /\ xrce'.object = xrce.object /\ xrce'.todo = xrce.todo
      /\ DOMAIN xrce' = DOMAIN xrce
  BY <1>2, <1>4
<1> USE ObjectsAssumption DEF IInv, vars, NoSample, dds, samples
<1>7. Types'
  BY <1>1, <1>3, <1>5, <1>6 DEF Types, Idle
<1>8. XrceSteps'
  BY <1>1, <1>3, <1>5, <1>6 DEF XrceSteps, Types, Idle, Starts, Ends, Works, Live,
       ObjectsOf, GC!HasNode, GC!Knows
<1>9. Owners'
  BY <1>1, <1>3, <1>5, <1>6 DEF Owners, Live, Types
<1>10. ASSUME NEW p \in Participants
      PROVE  OwnEvents(p)' /\ Forgotten(p)' /\ Agreed(p)'
  <2>1. OwnEvents(p)'
    BY <1>10, <1>1, <1>3, <1>5, <1>6 DEF OwnEvents
  <2>2. Forgotten(p)'
    BY <1>10, <1>1, <1>3, <1>5, <1>6 DEF Forgotten, OnlyEntry, GC!Knows,
         BeingApplied, Types
  <2>3. Agreed(p)'
    BY <1>10, <1>1, <1>3, <1>5, <1>6 DEF Agreed, OnlyEntry, GC!Knows,
         BeingApplied, Changing, Live, Types, Idle
  <2> QED
    BY <2>1, <2>2, <2>3
<1>11. ASSUME NEW p \in Clients
      PROVE  Senders(p)' /\ NodeKept(p)'
  <2>1. Senders(p)'
    BY <1>11, <1>1, <1>3, <1>5, <1>6 DEF Senders, Creating, Starts, BeingApplied,
         Live, Types, Idle, Participants
  <2>2. NodeKept(p)'
    BY <1>11, <1>1, <1>3, <1>5, <1>6 DEF NodeKept, Senders, Creating, Starts,
         OnlyEntry, GC!HasNode, GC!Knows, BeingApplied, Types, Idle, Participants
  <2> QED
    BY <2>1, <2>2
<1> QED
  BY <1>7, <1>8, <1>9, <1>10, <1>11

LEMMA WriteInfoInv ==
  ASSUME IInv, WriteInfo
  PROVE  IInv'
<1>1. PICK c \in Clients :
      /\ c = xrce.client /\ c \in Participants /\ life[c] = "live"
      /\ xrce.todo \in Seq(Entities) /\ xrce.todo # <<>>
      /\ NodeOf[c] \in DOMAIN xrce.info
  BY DEF XrceSteps, Starts, Ends, Works, Participants, WriteInfo, IInv
<1>2. /\ Tail(xrce.todo) \in Seq(Entities)
      /\ Len(xrce.todo) # 1 => Tail(xrce.todo) # <<>>
  BY <1>1, TailOfTodo
<1>3. /\ DOMAIN xrce = {"at", "client", "object", "todo", "info"}
      /\ DOMAIN announced = Participants /\ DOMAIN outbox = Participants
  BY DEF IInv, Types
<1>4. xrce.at = "write" /\ UNCHANGED <<life, discovery, matched, cache, auxWriters, taken>>
  BY DEF WriteInfo, Write, dds, samples
<1>5. \/ /\ c \notin auxWriters /\ UNCHANGED samples
         /\ xrce' = [xrce EXCEPT !.at = "undefined"]
      \/ /\ c \in auxWriters
         /\ announced' = [announced EXCEPT ![c] = {xrce.info}]
         /\ outbox' = [outbox EXCEPT ![c] = {xrce.info}]
         /\ \/ xrce' = Idle
            \/ /\ Len(xrce.todo) # 1
               /\ xrce' = [xrce EXCEPT !.at = "add_entity", !.todo = Tail(@)]
  BY <1>1 DEF WriteInfo, Write, Undefined, Continue
<1>6. /\ DOMAIN announced' = Participants /\ DOMAIN outbox' = Participants
      /\ \A q \in Participants \ {c} :
           announced'[q] = announced[q] /\ outbox'[q] = outbox[q]
  BY <1>1, <1>3, <1>5 DEF samples
<1>7. \/ xrce' = Idle
      \/ /\ xrce'.client = c /\ xrce'.object = xrce.object /\ DOMAIN xrce' = DOMAIN xrce
         /\ xrce'.at \in {"undefined", "add_entity"}
         /\ xrce'.todo \in Seq(Entities) /\ xrce'.todo # <<>>
  BY <1>1, <1>2, <1>3, <1>5
<1>8. \/ /\ c \notin auxWriters /\ UNCHANGED samples
         /\ xrce'.at = "undefined" /\ xrce'.client = c
      \/ /\ c \in auxWriters /\ announced'[c] = {xrce.info} /\ outbox'[c] = {xrce.info}
         /\ xrce'.at \in {"idle", "add_entity"}
  <2>1. CASE c \notin auxWriters
    BY <1>1, <1>3, <1>5, <2>1
  <2>2. CASE c \in auxWriters
    <3>1. announced'[c] = {xrce.info} /\ outbox'[c] = {xrce.info}
      BY <1>1, <1>3, <1>5, <2>2
    <3>2. xrce'.at \in {"idle", "add_entity"}
      <4>1. CASE xrce' = Idle
        BY <4>1 DEF Idle
      <4>2. CASE xrce' = [xrce EXCEPT !.at = "add_entity", !.todo = Tail(@)]
        BY <1>3, <4>2
      <4> QED
        BY <1>5, <2>2, <4>1, <4>2
    <3> QED
      BY <2>2, <3>1, <3>2
  <2> QED
    BY <2>1, <2>2
<1>9. \A q \in Participants \ {c} : ~Changing(q) /\ ~Changing(q)'
  BY <1>1, <1>7, ObjectsAssumption DEF Changing, Idle
<1>10. \/ outbox'[c] # NoSample /\ announced'[c] = outbox'[c]
       \/ Changing(c)' /\ UNCHANGED samples
  <2>1. CASE c \notin auxWriters
    BY <1>8, <2>1 DEF Changing
  <2>2. CASE c \in auxWriters
    <3>1. announced'[c] = {xrce.info} /\ outbox'[c] = {xrce.info}
      BY <1>8, <2>2
    <3>2. {xrce.info} # NoSample
      BY DEF NoSample
    <3> QED
      BY <3>1, <3>2
  <2> QED
    BY <2>1, <2>2
<1> USE ObjectsAssumption DEF IInv, vars, NoSample, dds, samples
<1>11. Types'
  BY <1>1, <1>4, <1>6, <1>7, <1>8 DEF Types, Idle
<1>12. XrceSteps'
  BY <1>1, <1>4, <1>6, <1>7, <1>8 DEF XrceSteps, Types, Idle, Starts, Ends, Works,
       Live, ObjectsOf
<1>13. Owners'
  BY <1>1, <1>4, <1>6, <1>7, <1>8 DEF Owners, Live, Types
<1>14. ASSUME NEW p \in Participants
      PROVE  OwnEvents(p)' /\ Forgotten(p)' /\ Agreed(p)'
  <2>1. OwnEvents(p)'
    BY <1>14, <1>1, <1>4, <1>6, <1>7, <1>8 DEF OwnEvents
  <2>2. Forgotten(p)'
    BY <1>14, <1>1, <1>4, <1>6, <1>7, <1>8 DEF Forgotten, OnlyEntry, GC!Knows,
         BeingApplied, Types
  <2>3. Agreed(p)'
    <3>1. CASE p = c
      BY <1>14, <3>1, <1>1, <1>4, <1>10 DEF Agreed, Live, GC!Knows, BeingApplied
    <3>2. CASE p # c
      BY <1>14, <3>2, <1>1, <1>4, <1>6, <1>9 DEF Agreed, Live, GC!Knows,
           BeingApplied
    <3> QED
      BY <3>1, <3>2
  <2> QED
    BY <2>1, <2>2, <2>3
<1>15. ASSUME NEW p \in Clients
      PROVE  Senders(p)' /\ NodeKept(p)'
  <2>1. Senders(p)'
    BY <1>15, <1>1, <1>4, <1>6, <1>7, <1>8 DEF Senders, Creating, Starts,
         BeingApplied, Live, Types, Idle, Participants
  <2>2. NodeKept(p)'
    BY <1>15, <1>1, <1>4, <1>6, <1>7, <1>8 DEF NodeKept, Senders, Creating,
         Starts, OnlyEntry, GC!HasNode, GC!Knows, BeingApplied, Types, Idle,
              Participants
  <2> QED
    BY <2>1, <2>2
<1> QED
  BY <1>11, <1>12, <1>13, <1>14, <1>15

LEMMA RemoveOneInv ==
  ASSUME IInv, RemoveEntity, Len(xrce.todo) > 1
  PROVE  IInv'
<1> DEFINE c == xrce.client
<1>1. /\ c \in Clients /\ c \in Participants /\ life[c] = "live"
      /\ xrce.todo \in Seq(Entities) /\ xrce.todo # <<>>
  BY DEF XrceSteps, Starts, Ends, Works, Participants, RemoveEntity, IInv
<1>2. xrce.todo \in Seq(Entities) /\ xrce.todo # <<>>
  BY <1>1
<1>3. Tail(xrce.todo) \in Seq(Entities) /\ Tail(xrce.todo) # <<>>
  BY <1>2, TailOfTodo
<1>4. Head(xrce.todo) \in Entities
  BY <1>2, TailOfTodo
<1>5. CacheOK(cache') /\ cache'.participants = cache.participants
  BY <1>4, EntityCalls DEF Types, RemoveEntity, IInv
<1>6. UNCHANGED <<life, discovery, matched, auxWriters, samples>>
  BY DEF RemoveEntity, dds
<1>7. xrce' = [xrce EXCEPT !.todo = Tail(xrce.todo)]
  BY DEF RemoveEntity
<1>8. /\ xrce.at = "remove_entity" /\ xrce'.at = "remove_entity" /\ xrce'.client = c
      /\ xrce'.object = xrce.object /\ xrce'.todo = Tail(xrce.todo)
      /\ DOMAIN xrce' = DOMAIN xrce
  BY <1>7 DEF Types, RemoveEntity, IInv
<1> USE ObjectsAssumption DEF IInv, vars, NoSample, dds, samples
<1>9. Types'
  BY <1>1, <1>3, <1>5, <1>6, <1>8 DEF Types, Idle
<1>10. XrceSteps'
  BY <1>1, <1>3, <1>5, <1>6, <1>8 DEF XrceSteps, Types, Idle, Starts, Ends, Works,
       Live, ObjectsOf
<1>11. Owners'
  BY <1>1, <1>3, <1>5, <1>6, <1>8 DEF Owners, Live, Types
<1>12. ASSUME NEW p \in Participants
      PROVE  OwnEvents(p)' /\ Forgotten(p)' /\ Agreed(p)'
  <2>1. OwnEvents(p)'
    BY <1>12, <1>1, <1>3, <1>5, <1>6, <1>8 DEF OwnEvents
  <2>2. Forgotten(p)'
    BY <1>12, <1>1, <1>3, <1>5, <1>6, <1>8 DEF Forgotten, OnlyEntry, GC!Knows,
         BeingApplied, Types
  <2>3. Agreed(p)'
    BY <1>12, <1>1, <1>3, <1>5, <1>6, <1>8 DEF Agreed, OnlyEntry, GC!Knows,
         BeingApplied, Changing, Live, Types, Idle
  <2> QED
    BY <2>1, <2>2, <2>3
<1>13. ASSUME NEW p \in Clients
      PROVE  Senders(p)' /\ NodeKept(p)'
  <2>1. Senders(p)'
    BY <1>13, <1>1, <1>3, <1>5, <1>6, <1>8 DEF Senders, Creating, Starts,
         BeingApplied, Live, Types, Idle, Participants
  <2>2. NodeKept(p)'
    BY <1>13, <1>1, <1>3, <1>5, <1>6, <1>8 DEF NodeKept, Senders, Creating,
         Starts, OnlyEntry, GC!HasNode, GC!Knows, BeingApplied, Types, Idle,
              Participants
  <2> QED
    BY <2>1, <2>2
<1> QED
  BY <1>9, <1>10, <1>11, <1>12, <1>13

LEMMA RemoveLastInv ==
  ASSUME IInv, RemoveEntity, ~(Len(xrce.todo) > 1)
  PROVE  IInv'
<1>1. PICK c \in Clients, y \in Objects :
      /\ c = xrce.client /\ y = xrce.object
      /\ c \in Participants /\ life[c] = "live"
      /\ y.owner = c /\ y \notin Participants /\ life[y] = "live"
  BY ObjectsAssumption DEF XrceSteps, Starts, Ends, Works, Participants,
       ObjectsAssumption, RemoveEntity, IInv
<1>2. /\ xrce.at = "remove_entity" /\ xrce' = Idle
      /\ UNCHANGED <<matched, auxWriters, samples>>
      /\ cache' = RemoveEntityFrom(cache, Head(xrce.todo))
      /\ life' = [life EXCEPT ![xrce.object] = "gone"]
      /\ discovery' = [discovery EXCEPT ![xrce.client] =
                          @ \o EventsOf(xrce.object, "removed")]
  BY DEF RemoveEntity
<1>3. /\ discovery \in [Participants -> Seq(Events)] /\ discovery[c] \in Seq(Events)
      /\ life \in [Participants \union Objects -> {"none", "live", "gone"}]
  BY <1>1 DEF Types, IInv
<1>4. Extends(discovery[c] \o EventsOf(y, "removed"), discovery[c])
  BY <1>1, <1>3, ObjectEvents, ObjectsAssumption
<1>5. /\ life'[y] = "gone"
      /\ \A x \in Participants \union Objects : x # y => life'[x] = life[x]
  BY <1>1, <1>2, <1>3
<1>6. /\ \A q \in Participants \ {c} : discovery'[q] = discovery[q]
      /\ discovery'[c] = discovery[c] \o EventsOf(y, "removed")
  BY <1>1, <1>2, <1>3
<1>7. /\ discovery' \in [Participants -> Seq(Events)]
      /\ life' \in [Participants \union Objects -> {"none", "live", "gone"}]
  BY <1>1, <1>2, <1>3, <1>4 DEF Extends
<1>8. /\ Len(discovery[c]) \in Nat /\ Len(discovery'[c]) \in Nat /\ Removed(c).id = c
      /\ \A i \in 1..Len(discovery'[c]) : discovery'[c][i].id \in Participants =>
           i \in 1..Len(discovery[c]) /\ discovery'[c][i] = discovery[c][i]
  BY <1>1, <1>4, <1>6, EventFacts DEF Extends
<1>9. Head(xrce.todo) \in Entities
  BY <1>2, TailOfTodo DEF XrceSteps, Works, IInv
<1>10. CacheOK(cache') /\ cache'.participants = cache.participants
  BY <1>2, <1>9, EntityCalls DEF Types, IInv
<1>11. life'[c] = life[c] /\ life[c] = "live"
  BY <1>1, <1>5
<1> USE ObjectsAssumption DEF IInv, vars, NoSample, dds, samples
<1>12. Types'
  BY <1>1, <1>2, <1>7, <1>10 DEF Types, Idle
<1>13. XrceSteps'
  BY <1>1, <1>2 DEF XrceSteps, Types, Idle, Starts, Ends, Works, Live, ObjectsOf,
       ObjectsAssumption, Participants
<1>14. Owners'
  BY <1>1, <1>5 DEF Owners, Live, Types, ObjectsAssumption
<1>15. ASSUME NEW p \in Participants
      PROVE  OwnEvents(p)' /\ Forgotten(p)' /\ Agreed(p)'
  <2>1. OwnEvents(p)'
    <3>1. CASE p = c
      BY <1>15, <3>1, <1>8, <1>11 DEF OwnEvents
    <3>2. CASE p # c
      BY <1>15, <3>2, <1>1, <1>5, <1>6 DEF OwnEvents
    <3> QED
      BY <3>1, <3>2
  <2>2. Forgotten(p)'
    BY <1>15, <1>1, <1>2, <1>5, <1>6, <1>10 DEF Forgotten, OnlyEntry, GC!Knows,
         BeingApplied, Types
  <2>3. Agreed(p)'
    BY <1>15, <1>1, <1>2, <1>5, <1>10 DEF Agreed, OnlyEntry, GC!Knows,
         BeingApplied, Changing, Live, Types, Idle
  <2> QED
    BY <2>1, <2>2, <2>3
<1>16. ASSUME NEW p \in Clients
      PROVE  Senders(p)' /\ NodeKept(p)'
  <2>1. Senders(p)'
    BY <1>16, <1>1, <1>2, <1>5 DEF Senders, Creating, Starts, BeingApplied, Live,
         Types, Idle, Participants
  <2>2. NodeKept(p)'
    BY <1>16, <1>1, <1>2, <1>5, <1>10 DEF NodeKept, Senders, Creating, Starts,
         OnlyEntry, GC!HasNode, GC!Knows, BeingApplied, Types, Idle, Participants
  <2> QED
    BY <2>1, <2>2
<1> QED
  BY <1>12, <1>13, <1>14, <1>15, <1>16

LEMMA OnParticipantDiscoveredInv ==
  ASSUME IInv, NEW c \in Participants, OnParticipantDiscovered(c)
  PROVE  IInv'
<1>1. /\ discovery \in [Participants -> Seq(Events)]
      /\ discovery[c] \in Seq(Events) /\ discovery[c] # <<>>
      /\ discovery' = [discovery EXCEPT ![c] = Tail(@)]
      /\ UNCHANGED <<life, auxWriters, announced, taken, xrce>>
  BY DEF Types, IInv, OnParticipantDiscovered, Report
<1>2. /\ Event(c) = discovery[c][1] /\ Len(discovery[c]) \in Nat /\ Len(discovery[c]) >= 1
      /\ Tail(discovery[c]) \in Seq(Events)
      /\ Len(Tail(discovery[c])) = Len(discovery[c]) - 1
      /\ \A i \in 1..Len(Tail(discovery[c])) :
           Tail(discovery[c])[i] = discovery[c][i + 1] /\ i + 1 \in 1..Len(discovery[c])
      /\ Tail(discovery[c]) = <<>> <=> Len(discovery[c]) = 1
  BY <1>1, TailOfSeq DEF Event
<1>3. /\ discovery'[c] = Tail(discovery[c])
      /\ \A q \in Participants \ {c} : discovery'[q] = discovery[q]
      /\ discovery' \in [Participants -> Seq(Events)]
  BY <1>1, <1>2
<1>4. OwnEvents(c) /\ Len(discovery[c]) \in 1..Len(discovery[c]) /\ 1 \in 1..Len(discovery[c])
  BY <1>2 DEF IInv
<1>5. Event(c).status = "discovered" /\ Event(c).id \in Participants
  BY DEF OnParticipantDiscovered, Report
<1>6. /\ Event(c) # Removed(c) /\ ~(life[c] = "gone" /\ Len(discovery[c]) = 1)
      /\ life[c] # "none"
  <2>1. Event(c) # Removed(c) /\ ~(life[c] = "gone" /\ Len(discovery[c]) = 1)
    BY <1>2, <1>4, <1>5 DEF OwnEvents, Removed
  <2>2. life[c] # "none"
    BY <1>1, <1>4 DEF OwnEvents
  <2> QED
    BY <2>1, <2>2
<1>7. /\ CacheOK(cache') /\ OnlyEntry(cache, cache', c) /\ outbox' = outbox
      /\ GC!Knows(cache, c) => cache' = cache
      /\ matched' \subseteq Peers
  BY AddParticipantCall DEF OnParticipantDiscovered, IInv, Types, OnlyEntry
<1> USE ObjectsAssumption DEF IInv, vars, NoSample, dds, samples
<1>8. Types'
  BY <1>1, <1>3, <1>7 DEF Types, Idle
<1>9. XrceSteps'
  BY <1>1, <1>7 DEF XrceSteps, Types, Idle, Starts, Ends, Works, Live, ObjectsOf,
       GC!HasNode, GC!Knows, OnlyEntry, Participants
<1>10. Owners'
  BY <1>1 DEF Owners, Live, Types
<1>11. ASSUME NEW p \in Participants
      PROVE  OwnEvents(p)' /\ Forgotten(p)' /\ Agreed(p)'
  <2>1. OwnEvents(p)'
    <3>1. CASE p = c
      BY <1>11, <3>1, <1>1, <1>2, <1>3 DEF OwnEvents
    <3>2. CASE p # c
      BY <1>11, <3>2, <1>1, <1>3 DEF OwnEvents
    <3> QED
      BY <3>1, <3>2
  <2>2. Forgotten(p)'
    <3>1. CASE p = c
      BY <1>11, <3>1, <1>1, <1>2, <1>3, <1>4, <1>6, <1>7 DEF Forgotten, OnlyEntry,
           GC!Knows, BeingApplied, Types
    <3>2. CASE p # c
      BY <1>11, <3>2, <1>1, <1>3, <1>7 DEF Forgotten, OnlyEntry, GC!Knows,
           BeingApplied, Types
    <3> QED
      BY <3>1, <3>2
  <2>3. Agreed(p)'
    BY <1>11, <1>1, <1>7 DEF Agreed, OnlyEntry, GC!Knows, BeingApplied, Changing,
         Live, Types, Idle
  <2> QED
    BY <2>1, <2>2, <2>3
<1>12. ASSUME NEW p \in Clients
      PROVE  Senders(p)' /\ NodeKept(p)'
  <2>1. Senders(p)'
    BY <1>12, <1>1, <1>7 DEF Senders, Creating, Starts, BeingApplied, Live, Types,
         Idle, Participants
  <2>2. NodeKept(p)'
    BY <1>12, <1>1, <1>7 DEF NodeKept, Senders, Creating, Starts, OnlyEntry,
         GC!HasNode, GC!Knows, BeingApplied, Types, Idle, Participants
  <2> QED
    BY <2>1, <2>2
<1> QED
  BY <1>8, <1>9, <1>10, <1>11, <1>12

LEMMA OnEntityDiscoveredInv ==
  ASSUME IInv, NEW c \in Participants, OnEntityDiscovered(c)
  PROVE  IInv'
<1>1. /\ discovery \in [Participants -> Seq(Events)]
      /\ discovery[c] \in Seq(Events) /\ discovery[c] # <<>>
      /\ discovery' = [discovery EXCEPT ![c] = Tail(@)]
      /\ UNCHANGED <<life, auxWriters, announced, taken, xrce>>
  BY DEF Types, IInv, OnEntityDiscovered, Report
<1>2. /\ Event(c) = discovery[c][1] /\ Len(discovery[c]) \in Nat /\ Len(discovery[c]) >= 1
      /\ Tail(discovery[c]) \in Seq(Events)
      /\ Len(Tail(discovery[c])) = Len(discovery[c]) - 1
      /\ \A i \in 1..Len(Tail(discovery[c])) :
           Tail(discovery[c])[i] = discovery[c][i + 1] /\ i + 1 \in 1..Len(discovery[c])
      /\ Tail(discovery[c]) = <<>> <=> Len(discovery[c]) = 1
  BY <1>1, TailOfSeq DEF Event
<1>3. /\ discovery'[c] = Tail(discovery[c])
      /\ \A q \in Participants \ {c} : discovery'[q] = discovery[q]
      /\ discovery' \in [Participants -> Seq(Events)]
  BY <1>1, <1>2
<1>4. OwnEvents(c) /\ Len(discovery[c]) \in 1..Len(discovery[c]) /\ 1 \in 1..Len(discovery[c])
  BY <1>2 DEF IInv
<1>5. Event(c).status = "discovered" /\ Event(c).id \in Entities
  BY DEF OnEntityDiscovered, Report
<1>6. Event(c) # Removed(c) /\ ~(life[c] = "gone" /\ Len(discovery[c]) = 1)
  BY <1>2, <1>4, <1>5, EventFacts, ObjectsAssumption DEF OwnEvents
<1>7. /\ CacheOK(cache') /\ cache'.participants = cache.participants /\ outbox' = outbox
      /\ matched' = matched
  BY <1>5, EntityCalls DEF OnEntityDiscovered, IInv, Types
<1> USE ObjectsAssumption DEF IInv, vars, NoSample, dds, samples
<1>8. Types'
  BY <1>1, <1>3, <1>7 DEF Types, Idle
<1>9. XrceSteps'
  BY <1>1, <1>7 DEF XrceSteps, Types, Idle, Starts, Ends, Works, Live, ObjectsOf,
       GC!HasNode, GC!Knows, OnlyEntry, Participants
<1>10. Owners'
  BY <1>1 DEF Owners, Live, Types
<1>11. ASSUME NEW p \in Participants
      PROVE  OwnEvents(p)' /\ Forgotten(p)' /\ Agreed(p)'
  <2>1. OwnEvents(p)'
    <3>1. CASE p = c
      BY <1>11, <3>1, <1>1, <1>2, <1>3 DEF OwnEvents
    <3>2. CASE p # c
      BY <1>11, <3>2, <1>1, <1>3 DEF OwnEvents
    <3> QED
      BY <3>1, <3>2
  <2>2. Forgotten(p)'
    <3>1. CASE p = c
      BY <1>11, <3>1, <1>1, <1>2, <1>3, <1>4, <1>6, <1>7 DEF Forgotten, OnlyEntry,
           GC!Knows, BeingApplied, Types
    <3>2. CASE p # c
      BY <1>11, <3>2, <1>1, <1>3, <1>7 DEF Forgotten, OnlyEntry, GC!Knows,
           BeingApplied, Types
    <3> QED
      BY <3>1, <3>2
  <2>3. Agreed(p)'
    BY <1>11, <1>1, <1>7 DEF Agreed, OnlyEntry, GC!Knows, BeingApplied, Changing,
         Live, Types, Idle
  <2> QED
    BY <2>1, <2>2, <2>3
<1>12. ASSUME NEW p \in Clients
      PROVE  Senders(p)' /\ NodeKept(p)'
  <2>1. Senders(p)'
    BY <1>12, <1>1, <1>7 DEF Senders, Creating, Starts, BeingApplied, Live, Types,
         Idle, Participants
  <2>2. NodeKept(p)'
    BY <1>12, <1>1, <1>7 DEF NodeKept, Senders, Creating, Starts, OnlyEntry,
         GC!HasNode, GC!Knows, BeingApplied, Types, Idle, Participants
  <2> QED
    BY <2>1, <2>2
<1> QED
  BY <1>8, <1>9, <1>10, <1>11, <1>12

LEMMA OnEntityRemovedInv ==
  ASSUME IInv, NEW c \in Participants, OnEntityRemoved(c)
  PROVE  IInv'
<1>1. /\ discovery \in [Participants -> Seq(Events)]
      /\ discovery[c] \in Seq(Events) /\ discovery[c] # <<>>
      /\ discovery' = [discovery EXCEPT ![c] = Tail(@)]
      /\ UNCHANGED <<life, auxWriters, announced, taken, xrce>>
  BY DEF Types, IInv, OnEntityRemoved, Report
<1>2. /\ Event(c) = discovery[c][1] /\ Len(discovery[c]) \in Nat /\ Len(discovery[c]) >= 1
      /\ Tail(discovery[c]) \in Seq(Events)
      /\ Len(Tail(discovery[c])) = Len(discovery[c]) - 1
      /\ \A i \in 1..Len(Tail(discovery[c])) :
           Tail(discovery[c])[i] = discovery[c][i + 1] /\ i + 1 \in 1..Len(discovery[c])
      /\ Tail(discovery[c]) = <<>> <=> Len(discovery[c]) = 1
  BY <1>1, TailOfSeq DEF Event
<1>3. /\ discovery'[c] = Tail(discovery[c])
      /\ \A q \in Participants \ {c} : discovery'[q] = discovery[q]
      /\ discovery' \in [Participants -> Seq(Events)]
  BY <1>1, <1>2
<1>4. OwnEvents(c) /\ Len(discovery[c]) \in 1..Len(discovery[c]) /\ 1 \in 1..Len(discovery[c])
  BY <1>2 DEF IInv
<1>5. Event(c).status = "removed" /\ Event(c).id \in Entities
  BY DEF OnEntityRemoved, Report
<1>6. Event(c) # Removed(c) /\ ~(life[c] = "gone" /\ Len(discovery[c]) = 1)
  BY <1>2, <1>4, <1>5, EventFacts, ObjectsAssumption DEF OwnEvents
<1>7. /\ CacheOK(cache') /\ cache'.participants = cache.participants /\ outbox' = outbox
      /\ matched' = matched
  BY <1>5, EntityCalls DEF OnEntityRemoved, IInv, Types
<1> USE ObjectsAssumption DEF IInv, vars, NoSample, dds, samples
<1>8. Types'
  BY <1>1, <1>3, <1>7 DEF Types, Idle
<1>9. XrceSteps'
  BY <1>1, <1>7 DEF XrceSteps, Types, Idle, Starts, Ends, Works, Live, ObjectsOf,
       GC!HasNode, GC!Knows, OnlyEntry, Participants
<1>10. Owners'
  BY <1>1 DEF Owners, Live, Types
<1>11. ASSUME NEW p \in Participants
      PROVE  OwnEvents(p)' /\ Forgotten(p)' /\ Agreed(p)'
  <2>1. OwnEvents(p)'
    <3>1. CASE p = c
      BY <1>11, <3>1, <1>1, <1>2, <1>3 DEF OwnEvents
    <3>2. CASE p # c
      BY <1>11, <3>2, <1>1, <1>3 DEF OwnEvents
    <3> QED
      BY <3>1, <3>2
  <2>2. Forgotten(p)'
    <3>1. CASE p = c
      BY <1>11, <3>1, <1>1, <1>2, <1>3, <1>4, <1>6, <1>7 DEF Forgotten, OnlyEntry,
           GC!Knows, BeingApplied, Types
    <3>2. CASE p # c
      BY <1>11, <3>2, <1>1, <1>3, <1>7 DEF Forgotten, OnlyEntry, GC!Knows,
           BeingApplied, Types
    <3> QED
      BY <3>1, <3>2
  <2>3. Agreed(p)'
    BY <1>11, <1>1, <1>7 DEF Agreed, OnlyEntry, GC!Knows, BeingApplied, Changing,
         Live, Types, Idle
  <2> QED
    BY <2>1, <2>2, <2>3
<1>12. ASSUME NEW p \in Clients
      PROVE  Senders(p)' /\ NodeKept(p)'
  <2>1. Senders(p)'
    BY <1>12, <1>1, <1>7 DEF Senders, Creating, Starts, BeingApplied, Live, Types,
         Idle, Participants
  <2>2. NodeKept(p)'
    BY <1>12, <1>1, <1>7 DEF NodeKept, Senders, Creating, Starts, OnlyEntry,
         GC!HasNode, GC!Knows, BeingApplied, Types, Idle, Participants
  <2> QED
    BY <2>1, <2>2
<1> QED
  BY <1>8, <1>9, <1>10, <1>11, <1>12

LEMMA OnParticipantRemovedInv ==
  ASSUME IInv, NEW c \in Participants, OnParticipantRemoved(c)
  PROVE  IInv'
<1>1. /\ discovery \in [Participants -> Seq(Events)]
      /\ discovery[c] \in Seq(Events) /\ discovery[c] # <<>>
      /\ discovery' = [discovery EXCEPT ![c] = Tail(@)]
      /\ UNCHANGED <<life, auxWriters, announced, taken, xrce>>
  BY DEF Types, IInv, OnParticipantRemoved, Report
<1>2. /\ Event(c) = discovery[c][1] /\ Len(discovery[c]) \in Nat /\ Len(discovery[c]) >= 1
      /\ Tail(discovery[c]) \in Seq(Events)
      /\ Len(Tail(discovery[c])) = Len(discovery[c]) - 1
      /\ \A i \in 1..Len(Tail(discovery[c])) :
           Tail(discovery[c])[i] = discovery[c][i + 1] /\ i + 1 \in 1..Len(discovery[c])
      /\ Tail(discovery[c]) = <<>> <=> Len(discovery[c]) = 1
  BY <1>1, TailOfSeq DEF Event
<1>3. /\ discovery'[c] = Tail(discovery[c])
      /\ \A q \in Participants \ {c} : discovery'[q] = discovery[q]
      /\ discovery' \in [Participants -> Seq(Events)]
  BY <1>1, <1>2
<1>4. OwnEvents(c) /\ Len(discovery[c]) \in 1..Len(discovery[c]) /\ 1 \in 1..Len(discovery[c])
  BY <1>2 DEF IInv
<1>5. Event(c).status = "removed" /\ Event(c).id \in Participants
  BY DEF OnParticipantRemoved, Report
<1>6. life[c] = "gone" /\ Len(discovery[c]) = 1
  <2>1. Event(c).id = c
    BY <1>2, <1>4, <1>5 DEF OwnEvents
  <2>2. Event(c) \in Events
    BY <1>1, <1>2, ElementOfSeq
  <2>3. Event(c) = Removed(c)
    BY <1>5, <2>1, <2>2 DEF Removed, Events
  <2> QED
    BY <1>2, <1>4, <2>3 DEF OwnEvents
<1>7. /\ CacheOK(cache') /\ OnlyEntry(cache, cache', c) /\ ~GC!Knows(cache', c)
      /\ outbox'[c] = NoSample /\ ~BeingApplied(c) /\ DOMAIN outbox' = Participants
      /\ \A q \in Participants \ {c} : outbox'[q] = outbox[q]
      /\ matched' \subseteq Peers
  BY RemoveParticipantCall DEF OnParticipantRemoved, IInv, Types
<1> USE ObjectsAssumption DEF IInv, vars, NoSample, dds, samples
<1>8. Types'
  BY <1>1, <1>3, <1>7 DEF Types, Idle
<1>9. XrceSteps'
  BY <1>1, <1>6, <1>7 DEF XrceSteps, Types, Idle, Starts, Ends, Works, Live,
       ObjectsOf, GC!HasNode, GC!Knows, OnlyEntry, Participants
<1>10. Owners'
  BY <1>1 DEF Owners, Live, Types
<1>11. ASSUME NEW p \in Participants
      PROVE  OwnEvents(p)' /\ Forgotten(p)' /\ Agreed(p)'
  <2>1. OwnEvents(p)'
    <3>1. CASE p = c
      BY <1>11, <3>1, <1>1, <1>2, <1>3 DEF OwnEvents
    <3>2. CASE p # c
      BY <1>11, <3>2, <1>1, <1>3 DEF OwnEvents
    <3> QED
      BY <3>1, <3>2
  <2>2. Forgotten(p)'
    <3>1. CASE p = c
      BY <1>11, <3>1, <1>1, <1>6, <1>7 DEF Forgotten, OnlyEntry, GC!Knows,
           BeingApplied, Types
    <3>2. CASE p # c
      BY <1>11, <3>2, <1>1, <1>3, <1>7 DEF Forgotten, OnlyEntry, GC!Knows,
           BeingApplied, Types
    <3> QED
      BY <3>1, <3>2
  <2>3. Agreed(p)'
    BY <1>11, <1>1, <1>6, <1>7 DEF Agreed, OnlyEntry, GC!Knows, BeingApplied,
         Changing, Live, Types, Idle
  <2> QED
    BY <2>1, <2>2, <2>3
<1>12. ASSUME NEW p \in Clients
      PROVE  Senders(p)' /\ NodeKept(p)'
  <2>1. Senders(p)'
    BY <1>12, <1>1, <1>6, <1>7 DEF Senders, Creating, Starts, BeingApplied, Live,
         Types, Idle, Participants
  <2>2. NodeKept(p)'
    BY <1>12, <1>1, <1>6, <1>7 DEF NodeKept, Senders, Creating, Starts, OnlyEntry,
         GC!HasNode, GC!Knows, BeingApplied, Types, Idle, Participants
  <2> QED
    BY <2>1, <2>2
<1> QED
  BY <1>8, <1>9, <1>10, <1>11, <1>12

LEMMA TakeSampleInv ==
  ASSUME IInv, NEW c \in Participants, TakeSample(c)
  PROVE  IInv'
<1>1. /\ taken = NothingTaken
      /\ \A q \in Participants : ~BeingApplied(q)
  BY ObjectsAssumption DEF TakeSample, BeingApplied, NothingTaken
<1>2. PICK nodes \in outbox[c] : taken' = [from |-> c, nodes |-> nodes]
  BY DEF TakeSample
<1>3. /\ outbox[c] # NoSample /\ announced[c] = outbox[c]
      /\ \A a, b \in announced[c] : a = b
  BY <1>2 DEF IInv, Types, Agreed, NoSample
<1>4. announced[c] = {nodes}
  BY <1>2, <1>3
<1>5. /\ outbox'[c] = NoSample /\ DOMAIN outbox' = Participants
      /\ \A q \in Participants \ {c} : outbox'[q] = outbox[q]
      /\ UNCHANGED <<life, discovery, matched, cache, auxWriters, announced, xrce>>
  BY DEF TakeSample, IInv, Types, dds
<1>6. /\ taken'.from = c /\ taken'.nodes = nodes /\ BeingApplied(c)'
      /\ \A q \in Participants \ {c} : ~BeingApplied(q)'
  BY <1>2 DEF BeingApplied
<1>7. /\ life[c] = "live" \/ (life[c] = "gone" /\ discovery[c] # <<>>)
      /\ c \in Clients => c \in auxWriters
  BY <1>3 DEF IInv, Types, Forgotten, Senders
<1> USE ObjectsAssumption DEF IInv, vars, NoSample, dds, samples
<1>8. Types'
  BY <1>5, <1>6 DEF Types
<1>9. XrceSteps'
  BY <1>5 DEF XrceSteps, Types, Idle, Starts, Ends, Works, Live, ObjectsOf
<1>10. Owners'
  BY <1>5 DEF Owners, Live, Types
<1>11. ASSUME NEW p \in Participants
      PROVE  OwnEvents(p)' /\ Forgotten(p)' /\ Agreed(p)'
  <2>1. OwnEvents(p)'
    BY <1>11, <1>5 DEF OwnEvents
  <2>2. Forgotten(p)'
    BY <1>11, <1>1, <1>5, <1>6, <1>7 DEF Forgotten
  <2>3. Agreed(p)'
    <3>1. CASE p = c
      BY <1>11, <3>1, <1>1, <1>3, <1>4, <1>5, <1>6 DEF Agreed, Changing, Live
    <3>2. CASE p # c
      BY <1>11, <3>2, <1>1, <1>3, <1>4, <1>5, <1>6 DEF Agreed, Changing, Live
    <3> QED
      BY <3>1, <3>2
  <2> QED
    BY <2>1, <2>2, <2>3
<1>12. ASSUME NEW p \in Clients
      PROVE  Senders(p)' /\ NodeKept(p)'
  <2>1. Senders(p)'
    BY <1>12, <1>1, <1>3, <1>5, <1>6, <1>7 DEF Senders, Creating, Live, Participants
  <2>2. NodeKept(p)'
    BY <1>12, <1>1, <1>2, <1>5, <1>6 DEF NodeKept, Participants
  <2> QED
    BY <2>1, <2>2
<1> QED
  BY <1>8, <1>9, <1>10, <1>11, <1>12

LEMMA UpdateNodeEntitiesInfoInv ==
  ASSUME IInv, UpdateNodeEntitiesInfo
  PROVE  IInv'
<1>1. PICK c \in Participants : c = taken.from
  BY DEF UpdateNodeEntitiesInfo, IInv, Types
<1>2. /\ BeingApplied(c) /\ \A q \in Participants \ {c} : ~BeingApplied(q)
      /\ \A q \in Participants : ~BeingApplied(q)'
      /\ taken' = NothingTaken
  BY <1>1, ObjectsAssumption DEF BeingApplied, UpdateNodeEntitiesInfo, NothingTaken
<1>3. /\ CacheOK(cache') /\ GC!Knows(cache', c) /\ OnlyEntry(cache, cache', c)
      /\ cache'.participants[c] = taken.nodes
  BY <1>1, UpdateCall DEF UpdateNodeEntitiesInfo, IInv, Types
<1>4. UNCHANGED <<life, discovery, matched, auxWriters, announced, outbox, xrce>>
  BY DEF UpdateNodeEntitiesInfo, dds
<1>5. /\ life[c] = "live" \/ (life[c] = "gone" /\ discovery[c] # <<>>)
      /\ c \in Clients => c \in auxWriters /\ ~Creating(c)
  BY <1>1, <1>2 DEF IInv, Types, Forgotten, Senders
<1> USE ObjectsAssumption DEF IInv, vars, NoSample, dds, samples
<1>6. Types'
  BY <1>2, <1>3, <1>4 DEF Types
<1>7. XrceSteps'
  BY <1>1, <1>3, <1>4, <1>5 DEF XrceSteps, Types, Idle, Starts, Ends, Works, Live,
       ObjectsOf, OnlyEntry, GC!HasNode, GC!Knows, Participants, Creating
<1>8. Owners'
  BY <1>4 DEF Owners, Live, Types
<1>9. ASSUME NEW p \in Participants
      PROVE  OwnEvents(p)' /\ Forgotten(p)' /\ Agreed(p)'
  <2>1. OwnEvents(p)'
    BY <1>9, <1>4 DEF OwnEvents
  <2>2. Forgotten(p)'
    BY <1>9, <1>1, <1>2, <1>3, <1>4, <1>5 DEF Forgotten, OnlyEntry, GC!Knows
  <2>3. Agreed(p)'
    <3>1. CASE p = c
      BY <1>9, <3>1, <1>1, <1>2, <1>3, <1>4 DEF Agreed, Changing, Live, OnlyEntry,
           GC!Knows
    <3>2. CASE p # c
      BY <1>9, <3>2, <1>1, <1>2, <1>3, <1>4 DEF Agreed, Changing, Live, OnlyEntry,
           GC!Knows
    <3> QED
      BY <3>1, <3>2
  <2> QED
    BY <2>1, <2>2, <2>3
<1>10. ASSUME NEW p \in Clients
      PROVE  Senders(p)' /\ NodeKept(p)'
  <2>1. Senders(p)'
    BY <1>10, <1>2, <1>4 DEF Senders, Creating, Live, Participants
  <2>2. NodeKept(p)'
    <3>1. CASE p = c
      BY <1>10, <3>1, <1>1, <1>2, <1>3, <1>4 DEF NodeKept, Participants,
           OnlyEntry, GC!HasNode, GC!Knows
    <3>2. CASE p # c
      BY <1>10, <3>2, <1>1, <1>2, <1>3, <1>4 DEF NodeKept, Participants,
           OnlyEntry, GC!HasNode, GC!Knows
    <3> QED
      BY <3>1, <3>2
  <2> QED
    BY <2>1, <2>2
<1> QED
  BY <1>6, <1>7, <1>8, <1>9, <1>10

-----------------------------------------------------------------------------
LEMMA InitInv == Init => IInv
<1> SUFFICES ASSUME Init PROVE IInv
  OBVIOUS
<1> USE ObjectsAssumption DEF Init, NoSample
<1>1. Types
  BY EmptySeq DEF Types, Idle, CacheOK, GC!EmptyCache, GC!NoEntries, NothingTaken
<1>2. XrceSteps /\ Owners
  BY DEF XrceSteps, Owners, Idle, Starts, Ends, Works, Live
<1>3. ASSUME NEW p \in Participants
      PROVE  OwnEvents(p) /\ Forgotten(p) /\ Agreed(p)
  <2>1. discovery[p] = <<>> /\ Len(discovery[p]) = 0 /\ life[p] = "none"
    BY <1>3, EmptySeq
  <2>2. OwnEvents(p)
    BY <2>1 DEF OwnEvents
  <2>3. Forgotten(p)
    BY <1>3 DEF Forgotten, GC!Knows, GC!EmptyCache, GC!NoEntries, NothingTaken,
         BeingApplied
  <2>4. Agreed(p)
    BY <1>3 DEF Agreed, Live, NothingTaken, BeingApplied
  <2> QED
    BY <2>2, <2>3, <2>4
<1>4. ASSUME NEW p \in Clients
      PROVE  Senders(p) /\ NodeKept(p)
  BY <1>4 DEF Senders, NodeKept, Live, NothingTaken, BeingApplied, Participants
<1> QED
  BY <1>1, <1>2, <1>3, <1>4 DEF IInv

LEMMA StutterInv == IInv /\ UNCHANGED vars => IInv'
BY DEF vars, dds, samples, IInv, Types, XrceSteps, Owners, OwnEvents, Forgotten, Agreed,
       Senders, NodeKept, Live, Creating, Changing, BeingApplied

LEMMA NextInv == IInv /\ [Next]_vars => IInv'
<1> SUFFICES ASSUME IInv, [Next]_vars PROVE IInv'
  OBVIOUS
<1>1. CASE XrceStarts
  <2>1. ASSUME NEW p \in Clients, OnCreateParticipant(p) \/ OnDeleteParticipant(p)
        PROVE  IInv'
    BY <2>1, OnCreateParticipantInv, OnDeleteParticipantInv
  <2>2. ASSUME NEW o \in Objects, NEW kind,
               CreateObject(o, kind) \/ DeleteObject(o, kind)
        PROVE  IInv'
    BY <2>2, CreateObjectInv, DeleteObjectInv
  <2> QED
    BY <1>1, <2>1, <2>2 DEF XrceStarts, OnCreateDatawriter, OnDeleteDatawriter,
         OnCreateDatareader, OnDeleteDatareader, OnCreateRequester, OnDeleteRequester,
         OnCreateReplier, OnDeleteReplier
<1>2. CASE XrceCalls
  BY <1>2, AddParticipantInv, AddNodeInv, FirstWriteInv, RemoveParticipantInv,
     LastWriteInv, DeleteAuxiliaryInv, AddEntityInv, AssociateEntityInv, WriteInfoInv,
     RemoveOneInv, RemoveLastInv DEF XrceCalls
<1>3. ASSUME NEW p \in Participants, Listen(p) \/ TakeSample(p)
      PROVE  IInv'
  BY <1>3, OnParticipantDiscoveredInv, OnParticipantRemovedInv, OnEntityDiscoveredInv,
     OnEntityRemovedInv, TakeSampleInv DEF Listen
<1>4. CASE UpdateNodeEntitiesInfo
  BY <1>4, UpdateNodeEntitiesInfoInv
<1>5. CASE PeerSteps
  BY <1>5, PeerAppearsInv, PeerAnnouncesInv, PeerLeavesInv, PeerCreatesInv,
     PeerDeletesInv DEF PeerSteps
<1>6. CASE UNCHANGED vars
  BY <1>6, StutterInv
<1> QED
  BY <1>1, <1>2, <1>3, <1>4, <1>5, <1>6 DEF Next

LEMMA Inductive == Spec => []IInv
<1>1. IInv /\ [Next]_vars => IInv'
  BY NextInv
<1> QED
  BY InitInv, <1>1, PTL DEF Spec

-----------------------------------------------------------------------------
(***************************************************************************)
(* The theorems.                                                           *)
(***************************************************************************)

\* The variables keep the values the members of the class have
\* (graph_manager.hpp:287-314).
THEOREM TypeCorrect == Spec => []TypeOK
<1>1. IInv => TypeOK
  BY DEF IInv, Types, TypeOK, CacheOK, Events
<1> QED
  BY Inductive, <1>1, PTL

\* From the end of on_create_participant to on_delete_participant the node of a
\* client is in the cache, whatever samples and discovery events are under way
\* (graph_manager.cpp:304-354, 551-563, 609-648).
THEOREM NodesStay == Spec => []NodeStays
<1>1. IInv => NodeStays
  BY DEF IInv, Types, NodeStays, NodeKept
<1> QED
  BY Inductive, <1>1, PTL

\* When nothing is under way the cache has the nodes announced last: of cache,
\* sample being applied and sample to be delivered the newest is what the
\* participant wrote last (graph_manager.cpp:435-474, 551-563).
THEOREM CacheAgrees == Spec => []NodesAsAnnounced
<1>1. IInv => NodesAsAnnounced
  <2> SUFFICES ASSUME IInv, AtRest, NEW p \in Participants, Live(p),
                      announced[p] # NoSample
               PROVE  GC!Knows(cache, p) /\ announced[p] = {cache.participants[p]}
    BY DEF NodesAsAnnounced
  <2>1. outbox[p] = NoSample /\ ~BeingApplied(p) /\ ~Changing(p)
    BY ObjectsAssumption DEF AtRest, BeingApplied, NothingTaken, Changing, Idle
  <2> QED
    BY <2>1 DEF IInv, Agreed
<1> QED
  BY Inductive, <1>1, PTL

\* When nothing is under way the cache has nothing of a participant that is
\* gone: no late sample and no late event brings one back
\* (graph_manager.cpp:338-354, 551-563, 630-646).
THEOREM NothingLeft == Spec => []NoGhosts
<1>1. IInv => NoGhosts
  <2> SUFFICES ASSUME IInv, AtRest, NEW p \in DOMAIN cache.participants
               PROVE  Live(p)
    BY DEF NoGhosts
  <2>1. p \in Participants /\ life[p] \in {"none", "live", "gone"}
    BY DEF IInv, Types, CacheOK
  <2>2. discovery[p] = <<>> /\ GC!Knows(cache, p)
    BY <2>1 DEF AtRest, GC!Knows
  <2> QED
    BY <2>1, <2>2 DEF IInv, Forgotten, Live
<1> QED
  BY Inductive, <1>1, PTL

\* As long as no client's participant is named "/", no callback uses an iterator
\* past the end of micro_ros_graph_datawriters_ or fails an assertion of the
\* cache (graph_manager.cpp:321-350, 454-473).
THEOREM CallbacksStayDefined ==
  ASSUME Roots = {}
  PROVE  Spec => []CallbacksDefined
<1> DEFINE DInv == IInv /\ CallbacksDefined
<1>1. Init => DInv
  BY InitInv DEF Init, Idle, CallbacksDefined
<1>2. DInv /\ [Next]_vars => DInv'
  <2> SUFFICES ASSUME IInv, CallbacksDefined, [Next]_vars
               PROVE  CallbacksDefined'
    BY NextInv
  <2>1. ASSUME xrce.at \in Ends \union Works
        PROVE  /\ xrce.client \in auxWriters
               /\ xrce.at \in Works => GC!HasNode(cache, xrce.client, NodeOf[xrce.client])
    BY <2>1 DEF IInv, XrceSteps, Senders, NodeKept, Creating, Live, CallbacksDefined,
         Starts, Ends, Works
  <2>2. CASE XrceStarts
    BY <2>2 DEF XrceStarts, CallbacksDefined, Idle, OnCreateParticipant,
         OnDeleteParticipant, CreateObject, DeleteObject, OnCreateDatawriter,
         OnDeleteDatawriter, OnCreateDatareader, OnDeleteDatareader, OnCreateRequester,
         OnDeleteRequester, OnCreateReplier, OnDeleteReplier
  <2>3. CASE XrceCalls
    <3>1. DOMAIN xrce = {"at", "client", "object", "todo", "info"}
      BY DEF IInv, Types
    <3>2. CASE AddParticipant
      BY <3>1, <3>2 DEF AddParticipant, CallbacksDefined, Continue, Idle
    <3>3. CASE AddNode
      <4>1. GC!Knows(cache, xrce.client)
        BY <3>3 DEF IInv, XrceSteps, AddNode
      <4> QED
        BY <3>1, <3>3, <4>1 DEF AddNode, CallbacksDefined
    <3>4. CASE FirstWrite \/ DeleteAuxiliary
      BY <3>4 DEF FirstWrite, DeleteAuxiliary, CallbacksDefined, Idle
    <3>5. CASE RemoveParticipant
      BY <3>1, <3>5 DEF RemoveParticipant, CallbacksDefined, Continue
    <3>6. CASE LastWrite
      <4>1. xrce.client \in auxWriters
        BY <2>1, <3>6 DEF LastWrite, Ends
      <4> QED
        BY <3>1, <3>6, <4>1 DEF LastWrite, CallbacksDefined, Continue
    <3>7. CASE AddEntity
      BY <3>1, <3>7 DEF AddEntity, CallbacksDefined, Continue
    <3>8. CASE AssociateEntity
      <4>1. GC!HasNode(cache, xrce.client, NodeOf[xrce.client])
        BY <2>1, <3>8 DEF AssociateEntity, Works
      <4> QED
        BY <3>1, <3>8, <4>1 DEF AssociateEntity, CallbacksDefined
    <3>9. CASE WriteInfo
      <4>1. xrce.client \in auxWriters
        BY <2>1, <3>9 DEF WriteInfo, Works
      <4>2. \/ xrce' = Idle
            \/ xrce' = [xrce EXCEPT !.at = "add_entity", !.todo = Tail(@)]
        BY <3>9, <4>1 DEF WriteInfo
      <4>3. CASE xrce' = Idle
        BY <4>3 DEF CallbacksDefined, Idle
      <4>4. CASE xrce' = [xrce EXCEPT !.at = "add_entity", !.todo = Tail(@)]
        BY <3>1, <4>4 DEF CallbacksDefined
      <4> QED
        BY <4>2, <4>3, <4>4
    <3>10. CASE RemoveEntity
      <4>1. \/ xrce' = [xrce EXCEPT !.todo = Tail(@)]
            \/ xrce' = Idle
        BY <3>10 DEF RemoveEntity
      <4> QED
        BY <3>1, <4>1 DEF CallbacksDefined, Idle
    <3> QED
      BY <2>3, <3>2, <3>3, <3>4, <3>5, <3>6, <3>7, <3>8, <3>9, <3>10 DEF XrceCalls
  <2>4. ASSUME NEW p \in Participants, Listen(p) \/ TakeSample(p)
        PROVE  xrce' = xrce
    BY <2>4 DEF Listen, OnParticipantDiscovered, OnParticipantRemoved,
         OnEntityDiscovered, OnEntityRemoved, Report, TakeSample
  <2>5. CASE UpdateNodeEntitiesInfo \/ PeerSteps \/ UNCHANGED vars
    BY <2>5 DEF UpdateNodeEntitiesInfo, PeerSteps, PeerAppears, PeerAnnounces,
         PeerLeaves, PeerCreates, PeerDeletes, vars, CallbacksDefined
  <2> QED
    BY <2>2, <2>3, <2>4, <2>5 DEF Next, CallbacksDefined
<1>3. DInv => CallbacksDefined
  OBVIOUS
<1> QED
  BY <1>1, <1>2, <1>3, PTL DEF Spec
=============================================================================
