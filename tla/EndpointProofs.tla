--------------------------- MODULE EndpointProofs ---------------------------
(***************************************************************************)
(* Proof that at rest the endpoints of the cache are those that exist, for *)
(* any clients, peers, objects and samples, as long as no gid is given     *)
(* twice.  A callback and discovery each report every endpoint of a client *)
(* in their own time; what decides is the last event about the endpoint    *)
(* that discovery still has to report.                                     *)
(***************************************************************************)
EXTENDS GraphManagerProofs

Known == DOMAIN cache.writers \union DOMAIN cache.readers

\* What the events to be reported say of the endpoint e.
Mentions(q, e) == \E k \in 1..Len(q) : q[k].id = e
OnlyDiscovered(q, e) == \A k \in 1..Len(q) : q[k].id = e => q[k].status = "discovered"
EndsRemoved(q, e) ==
  \A k \in 1..Len(q) : q[k].id = e =>
    \E j \in k..Len(q) : q[j].id = e /\ q[j].status = "removed"

\* The callback that deletes o is taking its endpoints out of the cache.
Removing(o) == xrce.at = "remove_entity" /\ xrce.object = o

\* The endpoint e of the object o, whose owner's events are q.
Endpoint(o, e, q) ==
  /\ life[o] = "none" => ~Mentions(q, e) /\ e \notin Known
  /\ life[o] = "live" =>
       OnlyDiscovered(q, e) /\ (Mentions(q, e) \/ e \in Known \/ Removing(o))
  /\ life[o] = "gone" => EndsRemoved(q, e) /\ (Mentions(q, e) \/ e \notin Known)

EInv ==
  /\ \A o \in Objects : \A e \in EndpointsOf(o) : Endpoint(o, e, discovery[o.owner])
  /\ Known \subseteq UNION {EndpointsOf(o) : o \in Objects}
  /\ \A p \in Participants : \A k \in 1..Len(discovery[p]) :
       discovery[p][k].id \in Entities =>
         \E o \in ObjectsOf(p) : discovery[p][k].id \in EndpointsOf(o)
  /\ xrce.at \in Works =>
       \A k \in 1..Len(xrce.todo) : xrce.todo[k] \in EndpointsOf(xrce.object)

-----------------------------------------------------------------------------
(***************************************************************************)
(* Queues of events.                                                       *)
(***************************************************************************)
\* The two queues say the same of e.
SameOf(r, q, e) ==
  /\ Mentions(r, e) <=> Mentions(q, e)
  /\ OnlyDiscovered(r, e) <=> OnlyDiscovered(q, e)
  /\ EndsRemoved(r, e) <=> EndsRemoved(q, e)

LEMMA AppendOther ==
  ASSUME NEW q \in Seq(Events), NEW x \in Events, NEW e, x.id # e
  PROVE  SameOf(Append(q, x), q, e)
<1> DEFINE r == Append(q, x)
<1>1. /\ Len(q) \in Nat /\ Len(r) = Len(q) + 1 /\ r[Len(q) + 1] = x
      /\ \A i \in 1..Len(q) : r[i] = q[i]
  BY AppendEvent, LenProperties
<1>2. \A k \in 1..Len(r) : r[k].id = e => k \in 1..Len(q) /\ r[k] = q[k]
  BY <1>1
<1>3. \A k \in 1..Len(q) : k \in 1..Len(r) /\ r[k] = q[k]
  BY <1>1
<1> HIDE DEF r
<1>4. (Mentions(r, e) <=> Mentions(q, e)) /\ (OnlyDiscovered(r, e) <=> OnlyDiscovered(q, e))
  BY <1>2, <1>3 DEF Mentions, OnlyDiscovered
<1>5. EndsRemoved(r, e) => EndsRemoved(q, e)
  BY <1>1, <1>2, <1>3 DEF EndsRemoved
<1>6. EndsRemoved(q, e) => EndsRemoved(r, e)
  BY <1>1, <1>2, <1>3 DEF EndsRemoved
<1> QED
  BY <1>4, <1>5, <1>6 DEF SameOf, r

LEMMA TailOther ==
  ASSUME NEW q \in Seq(Events), q # <<>>, NEW e, Head(q).id # e
  PROVE  SameOf(Tail(q), q, e)
<1> DEFINE r == Tail(q)
<1>1. /\ Len(q) \in Nat /\ Len(q) >= 1 /\ Len(r) = Len(q) - 1 /\ Head(q) = q[1]
      /\ \A i \in 1..Len(r) : r[i] = q[i + 1] /\ i + 1 \in 1..Len(q)
  BY TailOfSeq
<1>2. \A k \in 1..Len(q) : q[k].id = e => k - 1 \in 1..Len(r) /\ r[k - 1] = q[k]
  BY <1>1
<1> HIDE DEF r
<1>3. Mentions(r, e) <=> Mentions(q, e)
  BY <1>1, <1>2 DEF Mentions
<1>4. OnlyDiscovered(r, e) <=> OnlyDiscovered(q, e)
  BY <1>1, <1>2 DEF OnlyDiscovered
<1>5. ASSUME EndsRemoved(r, e) PROVE EndsRemoved(q, e)
  <2> SUFFICES ASSUME NEW k \in 1..Len(q), q[k].id = e
               PROVE  \E j \in k..Len(q) : q[j].id = e /\ q[j].status = "removed"
    BY DEF EndsRemoved
  <2>1. PICK j \in (k - 1)..Len(r) : r[j].id = e /\ r[j].status = "removed"
    BY <1>2, <1>5 DEF EndsRemoved
  <2>2. j + 1 \in k..Len(q) /\ q[j + 1] = r[j]
    BY <1>1, <1>2, <2>1
  <2> QED
    BY <2>1, <2>2
<1>6. ASSUME EndsRemoved(q, e) PROVE EndsRemoved(r, e)
  <2> SUFFICES ASSUME NEW k \in 1..Len(r), r[k].id = e
               PROVE  \E j \in k..Len(r) : r[j].id = e /\ r[j].status = "removed"
    BY DEF EndsRemoved
  <2>1. PICK j \in (k + 1)..Len(q) : q[j].id = e /\ q[j].status = "removed"
    BY <1>1, <1>6 DEF EndsRemoved
  <2>2. j - 1 \in k..Len(r) /\ r[j - 1] = q[j]
    BY <1>1, <1>2, <2>1
  <2> QED
    BY <2>1, <2>2
<1> QED
  BY <1>3, <1>4, <1>5, <1>6 DEF SameOf, r

\* The first event is about e.
LEMMA TailOwn ==
  ASSUME NEW q \in Seq(Events), q # <<>>, NEW e, Head(q).id = e
  PROVE  /\ Mentions(q, e)
         /\ OnlyDiscovered(q, e) => OnlyDiscovered(Tail(q), e) /\ Head(q).status = "discovered"
         /\ EndsRemoved(q, e) =>
              /\ EndsRemoved(Tail(q), e)
              /\ Head(q).status = "discovered" => Mentions(Tail(q), e)
<1> DEFINE r == Tail(q)
<1>1. /\ Len(q) \in Nat /\ Len(q) >= 1 /\ Len(r) = Len(q) - 1 /\ Head(q) = q[1]
      /\ \A i \in 1..Len(r) : r[i] = q[i + 1] /\ i + 1 \in 1..Len(q)
  BY TailOfSeq
<1>2. \A k \in 1..Len(q) : k # 1 => k - 1 \in 1..Len(r) /\ r[k - 1] = q[k]
  BY <1>1
<1> HIDE DEF r
<1>3. 1 \in 1..Len(q) /\ q[1].id = e /\ q[1] = Head(q)
  BY <1>1
<1>4. Mentions(q, e)
  BY <1>3 DEF Mentions
<1>5. OnlyDiscovered(q, e) => OnlyDiscovered(r, e) /\ Head(q).status = "discovered"
  BY <1>1, <1>3 DEF OnlyDiscovered
<1>6. ASSUME EndsRemoved(q, e) PROVE EndsRemoved(r, e)
  <2> SUFFICES ASSUME NEW k \in 1..Len(r), r[k].id = e
               PROVE  \E j \in k..Len(r) : r[j].id = e /\ r[j].status = "removed"
    BY DEF EndsRemoved
  <2>1. PICK j \in (k + 1)..Len(q) : q[j].id = e /\ q[j].status = "removed"
    BY <1>1, <1>6 DEF EndsRemoved
  <2>2. j - 1 \in k..Len(r) /\ r[j - 1] = q[j]
    BY <1>1, <1>2, <2>1
  <2> QED
    BY <2>1, <2>2
<1>7. ASSUME EndsRemoved(q, e), Head(q).status = "discovered" PROVE Mentions(r, e)
  <2>1. PICK j \in 1..Len(q) : q[j].id = e /\ q[j].status = "removed"
    BY <1>3, <1>7 DEF EndsRemoved
  <2>2. j - 1 \in 1..Len(r) /\ r[j - 1].id = e
    BY <1>2, <1>3, <1>7, <2>1
  <2> QED
    BY <2>2 DEF Mentions
<1> QED
  BY <1>4, <1>5, <1>6, <1>7 DEF r

\* The queue r is q with the events of the endpoints of o at its end.
Appended(r, q, o, status) ==
  /\ Len(r) \in Nat /\ Len(q) \in Nat /\ Len(q) <= Len(r)
  /\ \A k \in 1..Len(q) : r[k] = q[k]
  /\ \A k \in (Len(q) + 1)..Len(r) : r[k].status = status /\ r[k].id \in EndpointsOf(o)
  /\ \A e \in EndpointsOf(o) : \E k \in (Len(q) + 1)..Len(r) : r[k].id = e

LEMMA ConcatFacts ==
  ASSUME ObjectsAssumption, NEW o \in Objects, NEW status \in {"discovered", "removed"},
         NEW q \in Seq(Events)
  PROVE  /\ q \o EventsOf(o, status) \in Seq(Events)
         /\ Appended(q \o EventsOf(o, status), q, o, status)
<1> DEFINE s == EventsOf(o, status)
           r == q \o s
<1>1. /\ o.entities \in Seq(Entities) /\ s \in Seq(Events)
  BY EntityEvents DEF ObjectsAssumption
<1>2. /\ DOMAIN o.entities = 1..Len(o.entities) /\ Len(o.entities) \in Nat
      /\ DOMAIN s = 1..Len(s) /\ Len(s) \in Nat /\ Len(q) \in Nat
  BY <1>1, LenProperties
<1>3. DOMAIN s = DOMAIN o.entities
  BY DEF EventsOf
<1>4. Len(s) = Len(o.entities)
  BY <1>2, <1>3
<1>5. \A i \in 1..Len(s) : s[i].status = status /\ s[i].id = o.entities[i]
  BY <1>2, <1>4 DEF EventsOf
<1>6. /\ r \in Seq(Events) /\ Len(r) = Len(q) + Len(s)
      /\ \A i \in 1..Len(r) : r[i] = IF i <= Len(q) THEN q[i] ELSE s[i - Len(q)]
  BY <1>1, ConcatProperties
<1> HIDE DEF s
<1>7. \A k \in 1..Len(q) : r[k] = q[k]
  BY <1>2, <1>6
<1>8. ASSUME NEW k \in (Len(q) + 1)..Len(r)
      PROVE  r[k].status = status /\ r[k].id \in EndpointsOf(o)
  <2>1. k - Len(q) \in 1..Len(s) /\ r[k] = s[k - Len(q)]
    BY <1>2, <1>6
  <2> QED
    BY <1>2, <1>4, <1>5, <2>1 DEF EndpointsOf
<1>9. ASSUME NEW e \in EndpointsOf(o)
      PROVE  \E k \in (Len(q) + 1)..Len(r) : r[k].id = e
  <2>1. PICK i \in 1..Len(s) : e = o.entities[i]
    BY <1>2, <1>4 DEF EndpointsOf
  <2>2. Len(q) + i \in (Len(q) + 1)..Len(r) /\ r[Len(q) + i] = s[i]
    BY <1>2, <1>6
  <2> QED
    BY <1>5, <2>1, <2>2
<1> QED
  BY <1>2, <1>6, <1>7, <1>8, <1>9 DEF s, Appended

LEMMA ConcatOther ==
  ASSUME ObjectsAssumption, NEW o \in Objects, NEW status \in {"discovered", "removed"},
         NEW q \in Seq(Events), NEW e, e \notin EndpointsOf(o)
  PROVE  SameOf(q \o EventsOf(o, status), q, e)
<1> DEFINE r == q \o EventsOf(o, status)
<1>0. Appended(r, q, o, status)
  BY ConcatFacts, ObjectsAssumption
<1> HIDE DEF r
<1>1. /\ Len(r) \in Nat /\ Len(q) \in Nat /\ Len(q) <= Len(r)
      /\ \A k \in 1..Len(q) : r[k] = q[k]
      /\ \A k \in (Len(q) + 1)..Len(r) : r[k].id # e
  BY <1>0 DEF Appended
<1>2. \A k \in 1..Len(r) : r[k].id = e => k \in 1..Len(q) /\ r[k] = q[k]
  BY <1>1
<1>3. \A k \in 1..Len(q) : k \in 1..Len(r) /\ r[k] = q[k]
  BY <1>1
<1>4. (Mentions(r, e) <=> Mentions(q, e)) /\ (OnlyDiscovered(r, e) <=> OnlyDiscovered(q, e))
  BY <1>2, <1>3 DEF Mentions, OnlyDiscovered
<1>5. EndsRemoved(r, e) => EndsRemoved(q, e)
  BY <1>1, <1>2, <1>3 DEF EndsRemoved
<1>6. EndsRemoved(q, e) => EndsRemoved(r, e)
  BY <1>1, <1>2, <1>3 DEF EndsRemoved
<1> QED
  BY <1>4, <1>5, <1>6 DEF SameOf, r

LEMMA ConcatOwn ==
  ASSUME ObjectsAssumption, NEW o \in Objects, NEW status \in {"discovered", "removed"},
         NEW q \in Seq(Events), NEW e \in EndpointsOf(o)
  PROVE  LET r == q \o EventsOf(o, status) IN
         /\ Mentions(r, e)
         /\ status = "discovered" /\ ~Mentions(q, e) => OnlyDiscovered(r, e)
         /\ status = "removed" => EndsRemoved(r, e)
<1> DEFINE r == q \o EventsOf(o, status)
<1>0. Appended(r, q, o, status)
  BY ConcatFacts, ObjectsAssumption
<1> HIDE DEF r
<1>1. /\ Len(r) \in Nat /\ Len(q) \in Nat /\ Len(q) <= Len(r)
      /\ \A k \in 1..Len(q) : r[k] = q[k]
      /\ \A k \in (Len(q) + 1)..Len(r) : r[k].status = status
      /\ \E k \in (Len(q) + 1)..Len(r) : r[k].id = e
  BY <1>0 DEF Appended
<1>2. PICK m \in (Len(q) + 1)..Len(r) : r[m].id = e
  BY <1>1
<1>3. m \in 1..Len(r) /\ \A k \in 1..Len(r) : k \in 1..Len(q) \/ k \in (Len(q) + 1)..Len(r)
  BY <1>1
<1>4. Mentions(r, e)
  BY <1>2, <1>3 DEF Mentions
<1>5. status = "discovered" /\ ~Mentions(q, e) => OnlyDiscovered(r, e)
  BY <1>1, <1>3 DEF OnlyDiscovered, Mentions
<1>6. ASSUME status = "removed" PROVE EndsRemoved(r, e)
  <2> SUFFICES ASSUME NEW k \in 1..Len(r), r[k].id = e
               PROVE  \E j \in k..Len(r) : r[j].id = e /\ r[j].status = "removed"
    BY DEF EndsRemoved
  <2>1. CASE k \in (Len(q) + 1)..Len(r)
    BY <1>1, <1>6, <2>1
  <2>2. CASE k \in 1..Len(q)
    <3>1. m \in k..Len(r)
      BY <1>1, <2>2
    <3> QED
      BY <1>1, <1>2, <1>6, <3>1
  <2> QED
    BY <1>3, <2>1, <2>2
<1> QED
  BY <1>4, <1>5, <1>6 DEF r

\* The queue r is q with the first event reported or one more at its end, none
\* of them about an endpoint.
Kept(r, q) ==
  \/ r = q
  \/ \E x \in Events : x.id \notin Entities /\ r = Append(q, x)
  \/ q # <<>> /\ Head(q).id \notin Entities /\ r = Tail(q)

LEMMA KeptFacts ==
  ASSUME NEW q \in Seq(Events), NEW r, Kept(r, q)
  PROVE  /\ \A e \in Entities : SameOf(r, q, e)
         /\ \A k \in 1..Len(r) : r[k].id \in Entities => \E j \in 1..Len(q) : r[k] = q[j]
<1>1. CASE r = q
  BY <1>1 DEF SameOf
<1>2. ASSUME NEW x \in Events, x.id \notin Entities, r = Append(q, x)
      PROVE  /\ \A e \in Entities : SameOf(r, q, e)
             /\ \A k \in 1..Len(r) : r[k].id \in Entities => \E j \in 1..Len(q) : r[k] = q[j]
  <2>1. \A e \in Entities : SameOf(r, q, e)
    BY <1>2, AppendOther
  <2>2. /\ Len(q) \in Nat /\ Len(r) = Len(q) + 1 /\ r[Len(q) + 1] = x
        /\ \A i \in 1..Len(q) : r[i] = q[i]
    BY <1>2, AppendEvent, LenProperties
  <2>3. \A k \in 1..Len(r) : k \in 1..Len(q) \/ k = Len(q) + 1
    BY <2>2
  <2> QED
    BY <1>2, <2>1, <2>2, <2>3
<1>3. CASE q # <<>> /\ Head(q).id \notin Entities /\ r = Tail(q)
  <2>1. \A e \in Entities : SameOf(r, q, e)
    BY <1>3, TailOther
  <2>2. \A i \in 1..Len(r) : r[i] = q[i + 1] /\ i + 1 \in 1..Len(q)
    BY <1>3, TailOfSeq
  <2> QED
    BY <2>1, <2>2
<1> QED
  BY <1>1, <1>2, <1>3 DEF Kept

\* Calls into the cache, by what they do to the endpoints it knows.
LEMMA KnownAfter ==
  ASSUME EndpointsAssumption, CacheOK(cache), NEW e \in Entities
  PROVE  /\ cache' = AddEntityTo(cache, e) => Known' = Known \union {e}
         /\ cache' = RemoveEntityFrom(cache, e) => Known' = Known \ {e}
BY DEF EndpointsAssumption, CacheOK, Known, Entities, AddEntityTo, RemoveEntityFrom,
   GC!AddWriter, GC!AddReader, GC!RemoveWriter, GC!RemoveReader, GC!Put, GC!Without,
   GC!Restrict

LEMMA EndpointTypes ==
  ASSUME ObjectsAssumption, EndpointsAssumption, NEW o \in Objects
  PROVE  /\ EndpointsOf(o) \subseteq Entities /\ o.owner \in Participants
         /\ \A x \in Objects : x # o => EndpointsOf(x) \intersect EndpointsOf(o) = {}
<1>1. o.entities \in Seq(Entities) /\ o.owner \in Participants
  BY DEF ObjectsAssumption
<1>2. \A i \in DOMAIN o.entities : o.entities[i] \in Entities
  BY <1>1
<1> QED
  BY <1>1, <1>2 DEF EndpointsOf, EndpointsAssumption

-----------------------------------------------------------------------------
(***************************************************************************)
(* The steps.                                                              *)
(***************************************************************************)

\* What a step does to the thread of the server.
XrceKept ==
  /\ \A o \in Objects : Removing(o) => Removing(o)'
  /\ (xrce.at \in Works)' =>
       (\A k \in 1..Len(xrce.todo) : xrce.todo[k] \in EndpointsOf(xrce.object))'

\* A step that is about no endpoint.
LEMMA NeutralInv ==
  ASSUME IInv, EInv, XrceKept, Known' = Known,
         \A o \in Objects : life'[o] = life[o],
         \A p \in Participants : Kept(discovery'[p], discovery[p])
  PROVE  EInv'
<1>1. discovery \in [Participants -> Seq(Events)]
  BY DEF IInv, Types
<1>2. ASSUME NEW o \in Objects, NEW e \in EndpointsOf(o)
      PROVE  Endpoint(o, e, discovery[o.owner])'
  <2>1. e \in Entities /\ o.owner \in Participants
    BY EndpointTypes, ObjectsAssumption, EndpointsAssumption
  <2>2. SameOf(discovery'[o.owner], discovery[o.owner], e)
    BY <1>1, <2>1, KeptFacts
  <2>3. Endpoint(o, e, discovery[o.owner])
    BY DEF EInv
  <2> QED
    BY <2>2, <2>3 DEF Endpoint, SameOf, XrceKept
<1>3. ASSUME NEW p \in Participants, NEW k \in 1..Len(discovery'[p]),
             discovery'[p][k].id \in Entities
      PROVE  \E o \in ObjectsOf(p) : discovery'[p][k].id \in EndpointsOf(o)
  <2>1. PICK j \in 1..Len(discovery[p]) : discovery'[p][k] = discovery[p][j]
    BY <1>1, <1>3, KeptFacts
  <2> QED
    BY <1>3, <2>1 DEF EInv
<1> QED
  BY <1>2, <1>3 DEF EInv, XrceKept, ObjectsOf

\* The events of an object are appended to those of its owner: for other
\* objects nothing changes.
LEMMA EventsAppended ==
  ASSUME IInv, EInv, NEW o \in Objects, NEW status \in {"discovered", "removed"},
         discovery' = [discovery EXCEPT ![o.owner] = @ \o EventsOf(o, status)]
  PROVE  /\ \A x \in Objects \ {o} : \A e \in EndpointsOf(x) :
              SameOf(discovery'[x.owner], discovery[x.owner], e)
         /\ \A p \in Participants : \A k \in 1..Len(discovery'[p]) :
              discovery'[p][k].id \in Entities =>
                \E x \in ObjectsOf(p) : discovery'[p][k].id \in EndpointsOf(x)
<1>1. discovery \in [Participants -> Seq(Events)] /\ o.owner \in Participants
  BY EndpointTypes, ObjectsAssumption, EndpointsAssumption DEF IInv, Types
<1>2. ASSUME NEW x \in Objects \ {o}, NEW e \in EndpointsOf(x)
      PROVE  SameOf(discovery'[x.owner], discovery[x.owner], e)
  <2>1. e \notin EndpointsOf(o) /\ x.owner \in Participants
    BY EndpointTypes, ObjectsAssumption, EndpointsAssumption
  <2>2. CASE x.owner = o.owner
    BY <1>1, <2>1, <2>2, ConcatOther, ObjectsAssumption
  <2>3. CASE x.owner # o.owner
    BY <1>1, <2>1, <2>3 DEF SameOf
  <2> QED
    BY <2>2, <2>3
<1>3. ASSUME NEW p \in Participants, NEW k \in 1..Len(discovery'[p]),
             discovery'[p][k].id \in Entities
      PROVE  \E x \in ObjectsOf(p) : discovery'[p][k].id \in EndpointsOf(x)
  <2>1. CASE p # o.owner
    BY <1>1, <1>3, <2>1 DEF EInv
  <2>2. CASE p = o.owner
    <3> DEFINE q == discovery[p]
               r == discovery'[p]
    <3>1. Appended(r, q, o, status)
      BY <1>1, <2>2, ConcatFacts, ObjectsAssumption
    <3>2. k \in 1..Len(q) \/ k \in (Len(q) + 1)..Len(r)
      BY <3>1 DEF Appended
    <3>3. CASE k \in 1..Len(q)
      BY <1>3, <3>1, <3>3 DEF Appended, EInv
    <3>4. CASE k \in (Len(q) + 1)..Len(r)
      BY <2>2, <3>1, <3>4 DEF Appended, ObjectsOf
    <3> QED
      BY <3>2, <3>3, <3>4
  <2> QED
    BY <2>1, <2>2
<1> QED
  BY <1>2, <1>3

\* An object and with it its endpoints come into being.
LEMMA AppearsInv ==
  ASSUME IInv, EInv, XrceKept, Known' = Known, NEW o \in Objects, life[o] = "none",
         life' = [life EXCEPT ![o] = "live"],
         discovery' = [discovery EXCEPT ![o.owner] = @ \o EventsOf(o, "discovered")]
  PROVE  EInv'
<1>1. discovery \in [Participants -> Seq(Events)] /\ o.owner \in Participants
  BY EndpointTypes, ObjectsAssumption, EndpointsAssumption DEF IInv, Types
<1>2. \A x \in Objects : life'[x] = IF x = o THEN "live" ELSE life[x]
  BY DEF IInv, Types
<1>3. ASSUME NEW x \in Objects, NEW e \in EndpointsOf(x)
      PROVE  Endpoint(x, e, discovery[x.owner])'
  <2>1. Endpoint(x, e, discovery[x.owner])
    BY DEF EInv
  <2>2. CASE x = o
    <3> DEFINE r == discovery'[o.owner]
    <3>1. r = discovery[o.owner] \o EventsOf(o, "discovered")
      BY <1>1
    <3>2. ~Mentions(discovery[o.owner], e)
      BY <2>1, <2>2 DEF Endpoint
    <3>3. Mentions(r, e) /\ OnlyDiscovered(r, e)
      BY <1>1, <2>2, <3>1, <3>2, ConcatOwn, ObjectsAssumption
    <3> HIDE DEF r
    <3> QED
      BY <1>2, <2>2, <3>3 DEF Endpoint, r
  <2>3. CASE x # o
    <3>1. SameOf(discovery'[x.owner], discovery[x.owner], e)
      BY <2>3, EventsAppended
    <3> QED
      BY <1>2, <2>1, <2>3, <3>1 DEF Endpoint, SameOf, XrceKept
  <2> QED
    BY <2>2, <2>3
<1> QED
  BY <1>3, EventsAppended DEF EInv, XrceKept, ObjectsOf

\* An object and with it its endpoints come to an end; what was left of them in
\* the cache may go with it.
LEMMA DisappearsInv ==
  ASSUME IInv, EInv, NEW o \in Objects, life[o] = "live",
         Known' \subseteq Known, Known \subseteq Known' \union EndpointsOf(o),
         \A x \in Objects \ {o} : Removing(x) => Removing(x)',
         (xrce.at \in Works)' =>
           (\A k \in 1..Len(xrce.todo) : xrce.todo[k] \in EndpointsOf(xrce.object))',
         life' = [life EXCEPT ![o] = "gone"],
         discovery' = [discovery EXCEPT ![o.owner] = @ \o EventsOf(o, "removed")]
  PROVE  EInv'
<1>1. discovery \in [Participants -> Seq(Events)] /\ o.owner \in Participants
  BY EndpointTypes, ObjectsAssumption, EndpointsAssumption DEF IInv, Types
<1>2. \A x \in Objects : life'[x] = IF x = o THEN "gone" ELSE life[x]
  BY DEF IInv, Types
<1>3. ASSUME NEW x \in Objects, NEW e \in EndpointsOf(x)
      PROVE  Endpoint(x, e, discovery[x.owner])'
  <2>1. Endpoint(x, e, discovery[x.owner])
    BY DEF EInv
  <2>2. CASE x = o
    <3> DEFINE r == discovery'[o.owner]
    <3>1. Mentions(r, e) /\ EndsRemoved(r, e)
      BY <1>1, <2>2, ConcatOwn, ObjectsAssumption
    <3> HIDE DEF r
    <3> QED
      BY <1>2, <2>2, <3>1 DEF Endpoint, r
  <2>3. CASE x # o
    <3>1. SameOf(discovery'[x.owner], discovery[x.owner], e)
      BY <2>3, EventsAppended
    <3>2. e \notin EndpointsOf(o)
      BY <2>3, EndpointTypes, ObjectsAssumption, EndpointsAssumption
    <3> QED
      BY <1>2, <2>1, <2>3, <3>1, <3>2 DEF Endpoint, SameOf
  <2> QED
    BY <2>2, <2>3
<1> QED
  BY <1>3, EventsAppended DEF EInv, ObjectsOf

\* The next endpoint of a callback is one of its object.
LEMMA WorkFacts ==
  ASSUME IInv, EInv, xrce.at \in {"add_entity", "remove_entity"}
  PROVE  /\ xrce.object \in Objects /\ life[xrce.object] = "live"
         /\ xrce.object.owner = xrce.client
         /\ xrce.todo \in Seq(Entities) /\ xrce.todo # <<>>
         /\ Head(xrce.todo) \in Entities
         /\ Head(xrce.todo) \in EndpointsOf(xrce.object)
<1>1. /\ xrce.object \in Objects /\ life[xrce.object] = "live"
      /\ xrce.object.owner = xrce.client
      /\ xrce.todo \in Seq(Entities) /\ xrce.todo # <<>>
  BY DEF IInv, XrceSteps, Works
<1>2. Head(xrce.todo) = xrce.todo[1] /\ 1 \in 1..Len(xrce.todo) /\ Head(xrce.todo) \in Entities
  BY <1>1, TailOfSeq
<1> QED
  BY <1>1, <1>2 DEF EInv, Works

\* The server's thread adds an endpoint of the object it is about.
LEMMA AddEntityE ==
  ASSUME IInv, EInv, AddEntity
  PROVE  EInv'
<1>1. PICK o \in Objects, e \in Entities :
        /\ o = xrce.object /\ e = Head(xrce.todo) /\ life[o] = "live"
        /\ e \in EndpointsOf(o)
  BY WorkFacts DEF AddEntity
<1>2. Known' = Known \union {e} /\ life' = life /\ discovery' = discovery
  BY <1>1, KnownAfter, EndpointsAssumption DEF AddEntity, IInv, Types, dds
<1>3. /\ xrce.at = "add_entity" /\ xrce'.at = "associate_entity"
      /\ xrce'.todo = xrce.todo /\ xrce'.object = xrce.object
  BY DEF AddEntity, Continue, IInv, Types
<1>4. ASSUME NEW x \in Objects, NEW f \in EndpointsOf(x)
      PROVE  Endpoint(x, f, discovery[x.owner])'
  <2>1. f = e => x = o
    BY <1>1, EndpointTypes, ObjectsAssumption, EndpointsAssumption
  <2> QED
    BY <1>1, <1>2, <1>3, <2>1 DEF EInv, Endpoint, Removing
<1> QED
  BY <1>1, <1>2, <1>3, <1>4 DEF EInv, ObjectsOf, Works

\* The server's thread takes an endpoint of the object it deletes.
LEMMA RemoveEntityE ==
  ASSUME IInv, EInv, RemoveEntity
  PROVE  EInv'
<1>1. PICK o \in Objects, e \in Entities :
        /\ o = xrce.object /\ e = Head(xrce.todo) /\ life[o] = "live"
        /\ e \in EndpointsOf(o)
        /\ o.owner = xrce.client
        /\ xrce.todo \in Seq(Entities) /\ xrce.todo # <<>>
  BY WorkFacts DEF RemoveEntity
<1>2. Known' = Known \ {e} /\ xrce.at = "remove_entity"
  BY <1>1, KnownAfter, EndpointsAssumption DEF RemoveEntity, IInv, Types
<1>3. CASE Len(xrce.todo) > 1
  <2>1. /\ life' = life /\ discovery' = discovery
        /\ xrce'.at = "remove_entity" /\ xrce'.object = o
        /\ xrce'.todo = Tail(xrce.todo)
    BY <1>1, <1>2, <1>3 DEF RemoveEntity, dds, IInv, Types
  <2>2. \A k \in 1..Len(xrce'.todo) : xrce'.todo[k] \in EndpointsOf(o)
    <3>1. \A k \in 1..Len(xrce.todo) : xrce.todo[k] \in EndpointsOf(o)
      BY <1>1, <1>2 DEF EInv, Works
    <3>2. \A k \in 1..Len(Tail(xrce.todo)) :
            Tail(xrce.todo)[k] = xrce.todo[k + 1] /\ k + 1 \in 1..Len(xrce.todo)
      BY <1>1, TailOfSeq
    <3> QED
      BY <2>1, <3>1, <3>2
  <2>3. ASSUME NEW x \in Objects, NEW f \in EndpointsOf(x)
        PROVE  Endpoint(x, f, discovery[x.owner])'
    <3>1. f = e => x = o
      BY <1>1, EndpointTypes, ObjectsAssumption, EndpointsAssumption
    <3> QED
      BY <1>1, <1>2, <2>1, <3>1 DEF EInv, Endpoint, Removing
  <2> QED
    BY <1>2, <2>1, <2>2, <2>3 DEF EInv, ObjectsOf
<1>4. CASE ~(Len(xrce.todo) > 1)
  <2>1. /\ life' = [life EXCEPT ![o] = "gone"]
        /\ discovery' = [discovery EXCEPT ![o.owner] = @ \o EventsOf(o, "removed")]
        /\ xrce' = Idle
    BY <1>1, <1>4 DEF RemoveEntity
  <2>2. xrce'.at = "idle"
    BY <2>1 DEF Idle
  <2>3. \A x \in Objects \ {o} : ~Removing(x)
    BY <1>1 DEF Removing
  <2> QED
    BY <1>1, <1>2, <2>1, <2>2, <2>3, DisappearsInv DEF Works
<1> QED
  BY <1>3, <1>4

\* Discovery reports an endpoint.
LEMMA OnEntityE ==
  ASSUME IInv, EInv, NEW p \in Participants, OnEntityDiscovered(p) \/ OnEntityRemoved(p)
  PROVE  EInv'
<1>1. /\ discovery \in [Participants -> Seq(Events)] /\ discovery[p] # <<>>
      /\ discovery' = [discovery EXCEPT ![p] = Tail(@)]
      /\ Head(discovery[p]).id \in Entities
      /\ UNCHANGED <<life, xrce>>
  BY DEF OnEntityDiscovered, OnEntityRemoved, Report, Event, IInv, Types
<1>2. PICK e : e = Head(discovery[p]).id
  OBVIOUS
<1>3. /\ Head(discovery[p]) = discovery[p][1] /\ 1 \in 1..Len(discovery[p])
      /\ \A k \in 1..Len(Tail(discovery[p])) :
           Tail(discovery[p])[k] = discovery[p][k + 1] /\ k + 1 \in 1..Len(discovery[p])
  BY <1>1, TailOfSeq
<1>4. PICK o \in ObjectsOf(p) : e \in EndpointsOf(o)
  BY <1>1, <1>2, <1>3 DEF EInv
<1>5. o \in Objects /\ o.owner = p
  BY <1>4 DEF ObjectsOf
<1>6. \/ Head(discovery[p]).status = "discovered" /\ Known' = Known \union {e}
      \/ Head(discovery[p]).status = "removed" /\ Known' = Known \ {e}
  BY <1>1, <1>2, KnownAfter, EndpointsAssumption
  DEF OnEntityDiscovered, OnEntityRemoved, Report, Event, IInv, Types
<1>7. Endpoint(o, e, discovery[p])
  BY <1>4, <1>5 DEF EInv
<1>8. life[o] \in {"live", "gone"}
  <2>1. Mentions(discovery[p], e)
    BY <1>2, <1>3 DEF Mentions
  <2> QED
    BY <1>5, <1>7, <2>1 DEF Endpoint, IInv, Types
<1>9. ASSUME NEW x \in Objects, NEW f \in EndpointsOf(x)
      PROVE  Endpoint(x, f, discovery[x.owner])'
  <2>1. Endpoint(x, f, discovery[x.owner]) /\ x.owner \in Participants
    BY EndpointTypes, ObjectsAssumption, EndpointsAssumption DEF EInv
  <2>2. CASE f = e
    <3>1. x = o
      BY <1>4, <1>5, <2>2, EndpointTypes, ObjectsAssumption, EndpointsAssumption
    <3>2. /\ OnlyDiscovered(discovery[p], e) =>
               OnlyDiscovered(Tail(discovery[p]), e) /\ Head(discovery[p]).status = "discovered"
          /\ EndsRemoved(discovery[p], e) =>
               /\ EndsRemoved(Tail(discovery[p]), e)
               /\ Head(discovery[p]).status = "discovered" => Mentions(Tail(discovery[p]), e)
      BY <1>1, <1>2, TailOwn
    <3>3. discovery'[p] = Tail(discovery[p])
      BY <1>1
    <3>4. CASE life[o] = "live"
      BY <1>1, <1>5, <1>6, <1>7, <2>2, <3>1, <3>2, <3>3, <3>4 DEF Endpoint
    <3>5. CASE life[o] = "gone"
      BY <1>1, <1>5, <1>6, <1>7, <2>2, <3>1, <3>2, <3>3, <3>5 DEF Endpoint
    <3> QED
      BY <1>8, <3>4, <3>5
  <2>3. CASE f # e
    <3>1. SameOf(discovery'[x.owner], discovery[x.owner], f)
      <4>1. CASE x.owner = p
        BY <1>1, <1>2, <2>3, <4>1, TailOther
      <4>2. CASE x.owner # p
        BY <1>1, <2>1, <4>2 DEF SameOf
      <4> QED
        BY <4>1, <4>2
    <3> QED
      BY <1>1, <1>6, <2>1, <2>3, <3>1 DEF Endpoint, SameOf, Removing
  <2> QED
    BY <2>2, <2>3
<1>10. ASSUME NEW q \in Participants, NEW k \in 1..Len(discovery'[q]),
              discovery'[q][k].id \in Entities
       PROVE  \E x \in ObjectsOf(q) : discovery'[q][k].id \in EndpointsOf(x)
  <2>1. CASE q = p
    BY <1>1, <1>3, <1>10, <2>1 DEF EInv
  <2>2. CASE q # p
    BY <1>1, <1>10, <2>2 DEF EInv
  <2> QED
    BY <2>1, <2>2
<1>11. Known' \subseteq UNION {EndpointsOf(x) : x \in Objects}
  BY <1>4, <1>5, <1>6 DEF EInv
<1>12. (xrce.at \in Works)' =>
         (\A k \in 1..Len(xrce.todo) : xrce.todo[k] \in EndpointsOf(xrce.object))'
  BY <1>1 DEF EInv
<1> QED
  BY <1>9, <1>10, <1>11, <1>12 DEF EInv, ObjectsOf

\* The queue of p is as it was, or has one event of p itself more.
LEMMA OwnEvent ==
  ASSUME NEW p \in Participants, NEW x \in {Discovered(p), Removed(p)}
  PROVE  \A q \in Participants :
           /\ Kept(discovery[q], discovery[q])
           /\ Kept(Append(discovery[q], x), discovery[q])
<1>1. x \in Events /\ x.id \notin Entities
  BY EventFacts, ObjectsAssumption
<1> QED
  BY <1>1 DEF Kept

LEMMA XrceStartsE ==
  ASSUME IInv, EInv, XrceStarts
  PROVE  EInv'
<1>1. /\ discovery \in [Participants -> Seq(Events)]
      /\ life \in [Participants \union Objects -> {"none", "live", "gone"}]
      /\ \A p \in Participants : p \notin Objects
      /\ Clients \subseteq Participants
  BY ObjectsAssumption DEF IInv, Types, Participants
<1>2. ASSUME NEW p \in Clients, OnCreateParticipant(p)
      PROVE  EInv'
  <2>1. XrceKept /\ Known' = Known
    BY <1>2 DEF OnCreateParticipant, XrceKept, Removing, Idle, Works, Known
  <2>2. \A q \in Participants : Kept(discovery'[q], discovery[q])
    BY <1>1, <1>2, OwnEvent DEF OnCreateParticipant
  <2>3. \A o \in Objects : life'[o] = life[o]
    BY <1>1, <1>2 DEF OnCreateParticipant
  <2> QED
    BY <2>1, <2>2, <2>3, NeutralInv
<1>3. ASSUME NEW p \in Clients, OnDeleteParticipant(p)
      PROVE  EInv'
  <2>1. XrceKept /\ Known' = Known /\ life' = life /\ discovery' = discovery
    BY <1>3 DEF OnDeleteParticipant, XrceKept, Removing, Idle, Works, Known, dds
  <2> QED
    BY <2>1, NeutralInv DEF Kept
<1>4. ASSUME NEW o \in Objects, NEW kind, CreateObject(o, kind)
      PROVE  EInv'
  <2>1. /\ Known' = Known /\ life[o] = "none"
        /\ life' = [life EXCEPT ![o] = "live"]
        /\ discovery' = [discovery EXCEPT ![o.owner] = @ \o EventsOf(o, "discovered")]
        /\ xrce.at = "idle"
        /\ xrce'.todo = o.entities /\ xrce'.object = o
    BY <1>4 DEF CreateObject, Known, Idle
  <2>2. \A k \in 1..Len(o.entities) : o.entities[k] \in EndpointsOf(o)
    BY ObjectsAssumption DEF ObjectsAssumption, EndpointsOf
  <2>3. XrceKept
    BY <2>1, <2>2 DEF XrceKept, Removing
  <2> QED
    BY <2>1, <2>3, AppearsInv
<1>5. ASSUME NEW o \in Objects, NEW kind, DeleteObject(o, kind)
      PROVE  EInv'
  <2>1. /\ Known' = Known /\ life' = life /\ discovery' = discovery
        /\ xrce.at = "idle"
        /\ xrce'.todo = o.entities /\ xrce'.object = o
    BY <1>5 DEF DeleteObject, Known, Idle, dds
  <2>2. \A k \in 1..Len(o.entities) : o.entities[k] \in EndpointsOf(o)
    BY ObjectsAssumption DEF ObjectsAssumption, EndpointsOf
  <2>3. XrceKept
    BY <2>1, <2>2 DEF XrceKept, Removing
  <2> QED
    BY <2>1, <2>3, NeutralInv DEF Kept
<1> QED
  BY <1>2, <1>3, <1>4, <1>5 DEF XrceStarts, OnCreateDatawriter, OnDeleteDatawriter,
     OnCreateDatareader, OnDeleteDatareader, OnCreateRequester, OnDeleteRequester,
     OnCreateReplier, OnDeleteReplier

\* Calls about participants and nodes leave the endpoints of the cache alone.
LEMMA NodeCalls ==
  ASSUME CacheOK(cache), NEW p, NEW n, NEW e, NEW nodes,
         cache' \in {cache, GC!AddParticipant(cache, p), GC!RemoveParticipant(cache, p),
                    GC!AddNode(cache, p, n), GC!UpdateParticipantEntities(cache, p, nodes),
                    GC!AssociateWriter(cache, e, p, n), GC!AssociateReader(cache, e, p, n)}
  PROVE  Known' = Known
<1>1. cache'.writers = cache.writers /\ cache'.readers = cache.readers
  BY DEF CacheOK, GC!AddParticipant, GC!RemoveParticipant, GC!AddNode,
     GC!UpdateParticipantEntities, GC!AssociateWriter, GC!AssociateReader
<1> QED
  BY <1>1 DEF Known

LEMMA XrceCallsE ==
  ASSUME IInv, EInv, XrceCalls
  PROVE  EInv'
<1>1. /\ discovery \in [Participants -> Seq(Events)] /\ CacheOK(cache)
      /\ life \in [Participants \union Objects -> {"none", "live", "gone"}]
      /\ \A p \in Participants : p \notin Objects
      /\ DOMAIN xrce = {"at", "client", "object", "todo", "info"}
  BY ObjectsAssumption DEF IInv, Types
<1>2. CASE AddEntity \/ RemoveEntity
  BY <1>2, AddEntityE, RemoveEntityE
<1>3. CASE DeleteAuxiliary
  <2>1. xrce.client \in Participants
    BY <1>3 DEF DeleteAuxiliary, IInv, XrceSteps, Ends, Participants
  <2>2. XrceKept /\ Known' = Known
    BY <1>3 DEF DeleteAuxiliary, XrceKept, Removing, Idle, Works, Known
  <2>3. \A q \in Participants : Kept(discovery'[q], discovery[q])
    BY <1>1, <1>3, <2>1, OwnEvent DEF DeleteAuxiliary
  <2>4. \A o \in Objects : life'[o] = life[o]
    BY <1>1, <1>3, <2>1 DEF DeleteAuxiliary
  <2> QED
    BY <2>2, <2>3, <2>4, NeutralInv
<1>4. ASSUME UNCHANGED dds, Known' = Known, XrceKept
      PROVE  EInv'
  BY <1>4, NeutralInv DEF dds, Kept
<1>5. CASE AddParticipant \/ AddNode \/ FirstWrite \/ RemoveParticipant \/ LastWrite
  <2>1. UNCHANGED dds
    BY <1>5 DEF AddParticipant, AddNode, FirstWrite, RemoveParticipant, LastWrite
  <2>2. Known' = Known
    BY <1>1, <1>5, NodeCalls DEF AddParticipant, AddNode, FirstWrite, RemoveParticipant,
       LastWrite
  <2>3. xrce.at # "remove_entity" /\ xrce'.at \notin Works
    <3>1. Idle.at \notin Works
      BY DEF Idle, Works
    <3>2. CASE AddParticipant
      BY <1>1, <3>1, <3>2 DEF AddParticipant, Continue, Works
    <3>3. CASE AddNode
      BY <1>1, <3>3 DEF AddNode, Undefined, Continue, Works
    <3>4. CASE FirstWrite
      BY <3>1, <3>4 DEF FirstWrite
    <3>5. CASE RemoveParticipant
      BY <1>1, <3>5 DEF RemoveParticipant, Continue, Works
    <3>6. CASE LastWrite
      BY <1>1, <3>6 DEF LastWrite, Undefined, Continue, Works
    <3> QED
      BY <1>5, <3>2, <3>3, <3>4, <3>5, <3>6
  <2> QED
    BY <1>4, <2>1, <2>2, <2>3 DEF XrceKept, Removing
<1>6. CASE AssociateEntity
  <2>1. xrce.at = "associate_entity" /\ UNCHANGED dds
    BY <1>6 DEF AssociateEntity
  <2>2. Known' = Known
    <3>1. PICK p, n, e :
            cache' \in {cache, GC!AssociateWriter(cache, e, p, n),
                       GC!AssociateReader(cache, e, p, n)}
      BY <1>6 DEF AssociateEntity
    <3> QED
      BY <1>1, <3>1, NodeCalls
  <2>3. xrce'.todo = xrce.todo /\ xrce'.object = xrce.object
    BY <1>1, <1>6 DEF AssociateEntity, Undefined, Continue
  <2> QED
    BY <1>4, <2>1, <2>2, <2>3 DEF XrceKept, Removing, EInv, Works
<1>7. CASE WriteInfo
  <2>1. /\ xrce.at = "write" /\ UNCHANGED dds /\ Known' = Known
        /\ xrce.todo \in Seq(Entities) /\ xrce.todo # <<>>
        /\ \A k \in 1..Len(xrce.todo) : xrce.todo[k] \in EndpointsOf(xrce.object)
    BY <1>7 DEF WriteInfo, Known, EInv, Works, IInv, XrceSteps
  <2>2. \/ xrce'.at \notin Works
        \/ xrce'.object = xrce.object /\ xrce'.todo = Tail(xrce.todo)
    <3>1. \/ xrce' = Idle
          \/ xrce' = [xrce EXCEPT !.at = "add_entity", !.todo = Tail(@)]
          \/ xrce' = [xrce EXCEPT !.at = "undefined"]
      BY <1>7 DEF WriteInfo, Undefined, Continue
    <3>2. Idle.at \notin Works
      BY DEF Idle, Works
    <3> QED
      BY <1>1, <3>1, <3>2 DEF Works
  <2>3. \A k \in 1..Len(Tail(xrce.todo)) :
          Tail(xrce.todo)[k] = xrce.todo[k + 1] /\ k + 1 \in 1..Len(xrce.todo)
    BY <2>1, TailOfSeq
  <2> QED
    BY <1>4, <2>1, <2>2, <2>3 DEF XrceKept, Removing
<1> QED
  BY <1>2, <1>3, <1>5, <1>6, <1>7 DEF XrceCalls

LEMMA PeerStepsE ==
  ASSUME IInv, EInv, PeerSteps
  PROVE  EInv'
<1>1. /\ discovery \in [Participants -> Seq(Events)]
      /\ life \in [Participants \union Objects -> {"none", "live", "gone"}]
      /\ \A p \in Participants : p \notin Objects
      /\ Peers \subseteq Participants
  BY ObjectsAssumption DEF IInv, Types, Participants
<1>2. UNCHANGED <<cache, xrce>>
  BY DEF PeerSteps, PeerAppears, PeerAnnounces, PeerLeaves, PeerCreates, PeerDeletes
<1>3. /\ Known' = Known /\ XrceKept
      /\ \A o \in Objects : Removing(o) <=> Removing(o)'
  BY <1>2 DEF Known, XrceKept, Removing, EInv
<1>4. ASSUME NEW q \in Peers, PeerAppears(q) \/ PeerLeaves(q)
      PROVE  EInv'
  <2>1. \A o \in Objects : life'[o] = life[o]
    BY <1>1, <1>4 DEF PeerAppears, PeerLeaves
  <2>2. \A p \in Participants : Kept(discovery'[p], discovery[p])
    <3>1. PICK x \in {Discovered(q), Removed(q)} :
            discovery' = [discovery EXCEPT ![q] = Append(@, x)]
      BY <1>4 DEF PeerAppears, PeerLeaves
    <3> QED
      BY <1>1, <3>1, OwnEvent
  <2> QED
    BY <1>3, <2>1, <2>2, NeutralInv
<1>5. ASSUME NEW q \in Peers, PeerAnnounces(q)
      PROVE  EInv'
  BY <1>3, <1>5, NeutralInv DEF PeerAnnounces, dds, Kept
<1>6. ASSUME NEW o \in Objects, PeerCreates(o)
      PROVE  EInv'
  BY <1>3, <1>6, AppearsInv DEF PeerCreates
<1>7. ASSUME NEW o \in Objects, PeerDeletes(o)
      PROVE  EInv'
  <2>1. (xrce.at \in Works)' =>
          (\A k \in 1..Len(xrce.todo) : xrce.todo[k] \in EndpointsOf(xrce.object))'
    BY <1>3 DEF XrceKept
  <2>2. life[o] = "live"
    BY <1>7 DEF PeerDeletes, Live
  <2> QED
    BY <1>3, <1>7, <2>1, <2>2, DisappearsInv DEF PeerDeletes
<1> QED
  BY <1>4, <1>5, <1>6, <1>7 DEF PeerSteps

LEMMA ListenE ==
  ASSUME IInv, EInv, NEW p \in Participants, Listen(p)
  PROVE  EInv'
<1>1. CASE OnEntityDiscovered(p) \/ OnEntityRemoved(p)
  BY <1>1, OnEntityE
<1>2. CASE OnParticipantDiscovered(p) \/ OnParticipantRemoved(p)
  <2>1. /\ discovery \in [Participants -> Seq(Events)] /\ discovery[p] # <<>>
        /\ discovery' = [discovery EXCEPT ![p] = Tail(@)]
        /\ Head(discovery[p]).id \in Participants
        /\ life' = life /\ xrce' = xrce
    BY <1>2 DEF OnParticipantDiscovered, OnParticipantRemoved, Report, Event, IInv, Types
  <2>2. \A q \in Participants : Kept(discovery'[q], discovery[q])
    BY <2>1, ObjectsAssumption DEF Kept
  <2>3. Known' = Known
    BY <1>2, NodeCalls DEF OnParticipantDiscovered, OnParticipantRemoved, IInv, Types
  <2>4. XrceKept
    BY <2>1 DEF XrceKept, Removing, EInv
  <2> QED
    BY <2>1, <2>2, <2>3, <2>4, NeutralInv
<1> QED
  BY <1>1, <1>2 DEF Listen

\* A sample is taken or applied, or nothing happens.
LEMMA SamplesE ==
  ASSUME IInv, EInv,
         \/ \E p \in Participants : TakeSample(p)
         \/ UpdateNodeEntitiesInfo
         \/ UNCHANGED vars
  PROVE  EInv'
<1>1. UNCHANGED <<dds, xrce>>
  BY DEF TakeSample, UpdateNodeEntitiesInfo, vars
<1>2. Known' = Known
  <2>1. CASE cache' = cache
    BY <2>1 DEF Known
  <2>2. CASE UpdateNodeEntitiesInfo
    <3>1. PICK p, nodes : cache' = GC!UpdateParticipantEntities(cache, p, nodes)
      BY <2>2 DEF UpdateNodeEntitiesInfo
    <3>2. CacheOK(cache)
      BY DEF IInv, Types
    <3> QED
      BY <3>1, <3>2, NodeCalls
  <2> QED
    BY <2>1, <2>2 DEF TakeSample, vars
<1>3. XrceKept
  BY <1>1 DEF XrceKept, Removing, EInv
<1> QED
  BY <1>1, <1>2, <1>3, NeutralInv DEF dds, Kept

LEMMA InitE == Init => EInv
<1> SUFFICES ASSUME Init PROVE EInv
  OBVIOUS
<1>1. \A p \in Participants : discovery[p] = <<>> /\ Len(discovery[p]) = 0
  BY EmptySeq DEF Init
<1>2. Known = {} /\ xrce.at = "idle"
  BY DEF Init, Known, GC!EmptyCache, GC!NoEntries, Idle
<1>3. \A o \in Objects : life[o] = "none" /\ o.owner \in Participants
  BY ObjectsAssumption DEF Init, ObjectsAssumption
<1> QED
  BY <1>1, <1>2, <1>3 DEF EInv, Endpoint, Mentions, Works

LEMMA NextE == IInv /\ EInv /\ [Next]_vars => EInv'
BY XrceStartsE, XrceCallsE, ListenE, SamplesE, PeerStepsE DEF Next

\* At rest the events that are left decide nothing: each endpoint is as its
\* object is.
LEMMA RestingEndpoints == IInv /\ EInv => EndpointsExist
<1> SUFFICES ASSUME IInv, EInv, AtRest
             PROVE  Known = UNION {EndpointsOf(o) : o \in {x \in Objects : Live(x)}}
  BY DEF EndpointsExist, Known
<1>1. ASSUME NEW o \in Objects, NEW e \in EndpointsOf(o)
      PROVE  e \in Known <=> Live(o)
  <2>1. o.owner \in Participants
    BY EndpointTypes, ObjectsAssumption, EndpointsAssumption
  <2>2. discovery[o.owner] = <<>> /\ Len(discovery[o.owner]) = 0
    BY <2>1, EmptySeq DEF AtRest
  <2>3. ~Mentions(discovery[o.owner], e) /\ ~Removing(o)
    BY <2>2 DEF Mentions, Removing, AtRest, Idle
  <2>4. Endpoint(o, e, discovery[o.owner]) /\ life[o] \in {"none", "live", "gone"}
    BY DEF EInv, IInv, Types
  <2> QED
    BY <2>3, <2>4 DEF Endpoint, Live
<1> QED
  BY <1>1 DEF EInv

\* At rest the endpoints of the cache are those that exist: the callbacks and
\* discovery report each endpoint of a client twice, in their own time, and
\* still none is lost and none is left behind (graph_manager.cpp:356-433,
\* 700-754).
THEOREM EndpointsTracked == Spec => []EndpointsExist
BY RestingEndpoints, InitE, NextE, InitInv, NextInv, PTL DEF Spec
=============================================================================
