----------------------------- MODULE DrainProofs -----------------------------
(***************************************************************************)
(* Proofs that what the bookkeeping does by itself comes to an end, for    *)
(* any clients, peers, objects and samples: each step of a callback or a   *)
(* listener shortens the backlog of the participant it is about, no step   *)
(* lengthens one, and with no backlog left the threads are at rest.        *)
(***************************************************************************)
EXTENDS GraphManagerProofs

\* What is left of a callback, step by step.
LEMMA StepsAre ==
  ASSUME NEW call
  PROVE  /\ call.at = "add_participant" => StepsLeft(call) = 5
         /\ call.at = "add_node" => StepsLeft(call) = 4
         /\ call.at = "first_write" => StepsLeft(call) = 3
         /\ call.at = "remove_participant" => StepsLeft(call) = 6
         /\ call.at = "last_write" => StepsLeft(call) = 5
         /\ call.at = "delete_datawriter" => StepsLeft(call) = 2
         /\ call.at = "add_entity" => StepsLeft(call) = 5 * Len(call.todo)
         /\ call.at = "associate_entity" => StepsLeft(call) = 5 * Len(call.todo) - 1
         /\ call.at = "write" => StepsLeft(call) = 5 * Len(call.todo) - 2
         /\ call.at = "remove_entity" =>
              StepsLeft(call) = Len(call.todo) + Len(call.object.entities)
         /\ call.at \in {"idle", "undefined"} => StepsLeft(call) = 0
BY DEF StepsLeft

\* The entities of a callback for an object.
LEMMA TodoLength ==
  ASSUME IInv, xrce.at \in Works
  PROVE  /\ Len(xrce.todo) \in Nat /\ Len(xrce.todo) >= 1
         /\ Len(xrce.object.entities) \in Nat /\ Len(xrce.object.entities) >= 1
         /\ Len(xrce.todo) > 1 \/ Len(xrce.todo) # 1 => Len(Tail(xrce.todo)) = Len(xrce.todo) - 1
         /\ xrce.object \in Objects
<1>1. /\ xrce.todo \in Seq(Entities) /\ xrce.todo # <<>>
      /\ xrce.object \in Objects
      /\ xrce.object.entities \in Seq(Entities) /\ xrce.object.entities # <<>>
  BY ObjectsAssumption DEF IInv, XrceSteps, Works
<1>2. \A s \in Seq(Entities) :
        s # <<>> => Len(s) \in Nat /\ Len(s) >= 1 /\ Len(Tail(s)) = Len(s) - 1
  BY TailOfSeq
<1> QED
  BY <1>1, <1>2

LEMMA Steps ==
  \A n, m \in Nat :
    n >= 1 => 5 * n \in Nat /\ 5 * n - 1 \in Nat /\ 5 * n - 2 \in Nat /\ n + m \in Nat
OBVIOUS

LEMMA CallIsNat == IInv => StepsLeft(xrce) \in Nat
<1> SUFFICES ASSUME IInv PROVE StepsLeft(xrce) \in Nat
  OBVIOUS
<1>1. CASE xrce.at \in Works
  <2>1. PICK n \in Nat, m \in Nat :
          n = Len(xrce.todo) /\ n >= 1 /\ m = Len(xrce.object.entities)
    BY <1>1, TodoLength
  <2>2. 5 * n \in Nat /\ 5 * n - 1 \in Nat /\ 5 * n - 2 \in Nat /\ n + m \in Nat
    BY <2>1, Steps
  <2>3. \/ StepsLeft(xrce) = 5 * n \/ StepsLeft(xrce) = 5 * n - 1
        \/ StepsLeft(xrce) = 5 * n - 2 \/ StepsLeft(xrce) = n + m
    BY <1>1, <2>1, StepsAre, Zenon DEF Works
  <2> QED
    BY <2>2, <2>3, Zenon
<1>2. CASE xrce.at \notin Works
  <2>1. xrce.at \in {"idle", "undefined"} \union Starts \union Ends \union Works
    BY DEF IInv, XrceSteps
  <2>2. StepsLeft(xrce) \in {0, 2, 3, 4, 5, 6}
    BY <1>2, <2>1, StepsAre DEF Starts, Ends
  <2> QED
    BY <2>2
<1> QED
  BY <1>1, <1>2

LEMMA BacklogIsNat ==
  ASSUME IInv, NEW p \in Participants
  PROVE  /\ Len(discovery[p]) \in Nat /\ Calling(p) \in Nat
         /\ Undelivered(p) \in {0, 2} /\ Applying(p) \in {0, 1}
         /\ Backlog(p) \in Nat
<1>1. Len(discovery[p]) \in Nat
  BY LenProperties DEF IInv, Types
<1>2. Calling(p) \in Nat
  BY CallIsNat DEF Calling
<1>3. Undelivered(p) \in {0, 2} /\ Applying(p) \in {0, 1}
  BY DEF Undelivered, Applying
<1> QED
  BY <1>1, <1>2, <1>3 DEF Backlog

-----------------------------------------------------------------------------
(***************************************************************************)
(* The steps of a callback.                                                *)
(***************************************************************************)
Advances(p) ==
  /\ Backlog(p)' < Backlog(p)
  /\ \A q \in Participants \ {p} : Backlog(q)' = Backlog(q)

\* A step that touches nothing of the others.
OnlyOf(p) ==
  \A q \in Participants \ {p} :
    /\ discovery'[q] = discovery[q] /\ outbox'[q] = outbox[q]
    /\ BeingApplied(q)' <=> BeingApplied(q)
    /\ xrce'.client = q <=> xrce.client = q
    /\ xrce.client = q => xrce' = xrce

LEMMA OthersKept ==
  ASSUME NEW p \in Participants, OnlyOf(p)
  PROVE  \A q \in Participants \ {p} : Backlog(q)' = Backlog(q)
<1> TAKE q \in Participants \ {p}
<1>1. /\ discovery'[q] = discovery[q] /\ outbox'[q] = outbox[q]
      /\ BeingApplied(q)' <=> BeingApplied(q)
  BY DEF OnlyOf
<1>2. Calling(q)' = Calling(q)
  <2>1. CASE xrce.client = q
    BY <2>1 DEF OnlyOf, Calling
  <2>2. CASE xrce.client # q
    BY <2>2 DEF OnlyOf, Calling
  <2> QED
    BY <2>1, <2>2
<1>3. Undelivered(q)' = Undelivered(q) /\ Applying(q)' = Applying(q)
  BY <1>1 DEF Undelivered, Applying, NoSample
<1> QED
  BY <1>1, <1>2, <1>3 DEF Backlog

LEMMA Less ==
  \A l, more, v, a, m, u, n \in Nat, k \in {0, 2} :
    v <= u + k /\ m + more + k < n => l + more + v + a + m < l + u + a + n
OBVIOUS

\* A step of a callback for c, the rest of which is shorter by at least as much
\* as what it adds to the events and samples to come.
LEMMA CallAdvances ==
  ASSUME IInv, NEW c \in Participants, xrce.client = c,
         NEW n \in Nat, NEW m \in Nat, NEW more \in Nat, NEW k \in {0, 2},
         StepsLeft(xrce) = n,
         Calling(c)' = m,
         \A q \in Participants \ {c} :
           discovery'[q] = discovery[q] /\ outbox'[q] = outbox[q] /\ xrce'.client # q,
         taken' = taken,
         Len(discovery'[c]) = Len(discovery[c]) + more,
         Undelivered(c)' <= Undelivered(c) + k,
         Undelivered(c)' \in {0, 2},
         m + more + k < n
  PROVE  Advances(c)
<1>1. OnlyOf(c)
  BY DEF OnlyOf, BeingApplied
<1>2. Applying(c)' = Applying(c)
  BY DEF Applying, BeingApplied
<1>3. Calling(c) = n
  BY DEF Calling
<1>4. PICK l \in Nat, u \in {0, 2}, a \in {0, 1} :
        l = Len(discovery[c]) /\ u = Undelivered(c) /\ a = Applying(c)
  BY BacklogIsNat
<1>5. Backlog(c) = l + u + a + n
  BY <1>3, <1>4 DEF Backlog
<1>6. Backlog(c)' = l + more + Undelivered(c)' + a + m
  BY <1>2, <1>4 DEF Backlog
<1>7. Backlog(c)' < Backlog(c)
  <2>1. PICK v \in {0, 2} : v = Undelivered(c)' /\ v <= u + k
    BY <1>4
  <2>2. v \in Nat /\ a \in Nat /\ u \in Nat
    BY <1>4, <2>1
  <2>3. m + more + k < n
    OBVIOUS
  <2>4. l + more + v + a + m < l + u + a + n
    BY <2>1, <2>2, <2>3, Less
  <2> QED
    BY <1>5, <1>6, <2>1, <2>4
<1> QED
  BY <1>1, <1>7, OthersKept DEF Advances

\* The callback is over, or goes on to another step.
LEMMA CallAfter ==
  ASSUME IInv, NEW c \in Participants, xrce' = Idle \/ xrce'.client = c
  PROVE  /\ \A q \in Participants \ {c} : xrce'.client # q
         /\ xrce' = Idle => Calling(c)' = 0
         /\ xrce'.client = c => Calling(c)' = StepsLeft(xrce')
BY ObjectsAssumption DEF Calling, Idle

\* Who is called by a step of a callback.
LEMMA CallFor ==
  ASSUME IInv, xrce.at \in Starts \union Ends \union Works
  PROVE  /\ xrce.client \in Participants
         /\ DOMAIN xrce = {"at", "client", "object", "todo", "info"}
         /\ StepsLeft(xrce) \in Nat
BY CallIsNat DEF IInv, Types, XrceSteps, Participants

\* A call that is no write.
LEMMA QuietCall ==
  ASSUME IInv, NEW c \in Participants, xrce.client = c,
         UNCHANGED <<discovery, outbox, taken>>,
         NEW n \in Nat, NEW m \in Nat, m < n,
         StepsLeft(xrce) = n,
         Calling(c)' = m,
         \A q \in Participants \ {c} : xrce'.client # q
  PROVE  Advances(c)
<1>1. /\ Undelivered(c)' = Undelivered(c) /\ Undelivered(c) \in {0, 2}
      /\ Len(discovery[c]) \in Nat
  BY BacklogIsNat DEF Undelivered
<1>2. /\ Len(discovery'[c]) = Len(discovery[c]) + 0
      /\ Undelivered(c)' <= Undelivered(c) + 0
  BY <1>1
<1>3. m + 0 + 0 < n
  OBVIOUS
<1> HIDE DEF Undelivered
<1> QED
  BY <1>1, <1>2, <1>3, CallAdvances

\* A write leaves one sample to be delivered.
LEMMA WritingCall ==
  ASSUME IInv, NEW c \in Participants, xrce.client = c,
         NEW info, Write(c, info), discovery' = discovery,
         NEW n \in Nat, NEW m \in Nat, m + 2 < n,
         StepsLeft(xrce) = n,
         Calling(c)' = m,
         \A q \in Participants \ {c} : xrce'.client # q
  PROVE  Advances(c)
<1>1. /\ Undelivered(c)' \in {0, 2} /\ Undelivered(c) \in {0, 2}
      /\ Len(discovery[c]) \in Nat
  BY BacklogIsNat DEF Undelivered
<1>2. /\ Len(discovery'[c]) = Len(discovery[c]) + 0
      /\ Undelivered(c)' <= Undelivered(c) + 2
  BY <1>1
<1>3. /\ \A q \in Participants \ {c} : outbox'[q] = outbox[q]
      /\ taken' = taken
  BY DEF Write, IInv, Types
<1>4. m + 0 + 2 < n
  OBVIOUS
<1> QED
  BY <1>1, <1>2, <1>3, <1>4, CallAdvances

-----------------------------------------------------------------------------
LEMMA AddParticipantAdvances ==
  ASSUME IInv, AddParticipant
  PROVE  \E p \in Participants : Advances(p)
<1>1. PICK c \in Participants :
      /\ c = xrce.client /\ xrce.at = "add_participant"
      /\ DOMAIN xrce = {"at", "client", "object", "todo", "info"}
  BY CallFor DEF AddParticipant, Starts
<1>2. /\ UNCHANGED <<discovery, outbox, taken>>
      /\ xrce' = Idle \/ (xrce'.at = "add_node" /\ xrce'.client = c)
  BY <1>1 DEF AddParticipant, Continue, dds, samples
<1>3. StepsLeft(xrce) = 5 /\ Calling(c)' \in {0, 4}
  BY <1>1, <1>2, StepsAre, CallAfter
<1>4. \A q \in Participants \ {c} : xrce'.client # q
  BY <1>2, CallAfter
<1> QED
  BY <1>1, <1>2, <1>3, <1>4, QuietCall

LEMMA AddNodeAdvances ==
  ASSUME IInv, AddNode
  PROVE  \E p \in Participants : Advances(p)
<1>1. PICK c \in Participants :
      /\ c = xrce.client /\ xrce.at = "add_node"
      /\ DOMAIN xrce = {"at", "client", "object", "todo", "info"}
  BY CallFor DEF AddNode, Starts
<1>2. /\ UNCHANGED <<discovery, outbox, taken>>
      /\ xrce'.at \in {"first_write", "undefined"} /\ xrce'.client = c
  BY <1>1 DEF AddNode, Continue, Undefined, dds, samples
<1>3. StepsLeft(xrce) = 4 /\ Calling(c)' \in {0, 3}
  BY <1>1, <1>2, StepsAre, CallAfter
<1>4. \A q \in Participants \ {c} : xrce'.client # q
  BY <1>2, CallAfter
<1> QED
  BY <1>1, <1>2, <1>3, <1>4, QuietCall

LEMMA FirstWriteAdvances ==
  ASSUME IInv, FirstWrite
  PROVE  \E p \in Participants : Advances(p)
<1>1. PICK c \in Participants : c = xrce.client /\ xrce.at = "first_write"
  BY CallFor DEF FirstWrite, Starts
<1>2. Write(c, xrce.info) /\ discovery' = discovery /\ xrce' = Idle
  BY <1>1 DEF FirstWrite, dds
<1>3. StepsLeft(xrce) = 3 /\ Calling(c)' = 0
  BY <1>1, <1>2, StepsAre, CallAfter
<1>4. \A q \in Participants \ {c} : xrce'.client # q
  BY <1>2, CallAfter
<1>5. 0 + 2 < 3
  OBVIOUS
<1> QED
  BY <1>1, <1>2, <1>3, <1>4, <1>5, WritingCall

LEMMA RemoveParticipantAdvances ==
  ASSUME IInv, RemoveParticipant
  PROVE  \E p \in Participants : Advances(p)
<1>1. PICK c \in Participants :
      /\ c = xrce.client /\ xrce.at = "remove_participant"
      /\ DOMAIN xrce = {"at", "client", "object", "todo", "info"}
  BY CallFor DEF RemoveParticipant, Ends
<1>2. /\ UNCHANGED <<discovery, outbox, taken>>
      /\ xrce'.at = "last_write" /\ xrce'.client = c
  BY <1>1 DEF RemoveParticipant, Continue, dds, samples
<1>3. StepsLeft(xrce) = 6 /\ Calling(c)' = 5
  BY <1>1, <1>2, StepsAre, CallAfter
<1>4. \A q \in Participants \ {c} : xrce'.client # q
  BY <1>2, CallAfter
<1> QED
  BY <1>1, <1>2, <1>3, <1>4, QuietCall

LEMMA LastWriteAdvances ==
  ASSUME IInv, LastWrite
  PROVE  \E p \in Participants : Advances(p)
<1>1. PICK c \in Participants :
      /\ c = xrce.client /\ xrce.at = "last_write"
      /\ DOMAIN xrce = {"at", "client", "object", "todo", "info"}
  BY CallFor DEF LastWrite, Ends
<1>2. /\ discovery' = discovery /\ xrce'.client = c
      /\ \/ Write(c, GC!NoEntries) /\ xrce'.at = "delete_datawriter"
         \/ UNCHANGED samples /\ xrce'.at = "undefined"
  BY <1>1 DEF LastWrite, Continue, Undefined, dds
<1>3. \A q \in Participants \ {c} : xrce'.client # q
  BY <1>2, CallAfter
<1>4. StepsLeft(xrce) = 5
  BY <1>1, StepsAre
<1>5. CASE Write(c, GC!NoEntries) /\ xrce'.at = "delete_datawriter"
  <2>1. Calling(c)' = 2
    BY <1>2, <1>5, StepsAre, CallAfter
  <2>2. 2 + 2 < 5
    OBVIOUS
  <2> QED
    BY <1>1, <1>2, <1>3, <1>4, <1>5, <2>1, <2>2, WritingCall
<1>6. CASE UNCHANGED samples /\ xrce'.at = "undefined"
  <2>1. Calling(c)' = 0
    BY <1>2, <1>6, StepsAre, CallAfter
  <2> QED
    BY <1>1, <1>2, <1>3, <1>4, <1>6, <2>1, QuietCall DEF samples
<1> QED
  BY <1>2, <1>5, <1>6

LEMMA DeleteAuxiliaryAdvances ==
  ASSUME IInv, DeleteAuxiliary
  PROVE  \E p \in Participants : Advances(p)
<1>1. PICK c \in Participants : c = xrce.client /\ xrce.at = "delete_datawriter"
  BY CallFor DEF DeleteAuxiliary, Ends
<1>2. /\ outbox' = [outbox EXCEPT ![c] = NoSample]
      /\ discovery' = [discovery EXCEPT ![c] = Append(@, Removed(c))]
      /\ DOMAIN outbox = Participants /\ discovery \in [Participants -> Seq(Events)]
      /\ xrce' = Idle /\ taken' = taken
  BY <1>1 DEF DeleteAuxiliary, IInv, Types
<1>3. StepsLeft(xrce) = 2 /\ Calling(c)' = 0
  BY <1>1, <1>2, StepsAre, CallAfter
<1>4. \A q \in Participants \ {c} :
        discovery'[q] = discovery[q] /\ outbox'[q] = outbox[q] /\ xrce'.client # q
  BY <1>2, CallAfter
<1>5. Len(discovery'[c]) = Len(discovery[c]) + 1
  <2>1. discovery'[c] = Append(discovery[c], Removed(c))
    BY <1>2
  <2> QED
    BY <1>2, <2>1, AppendEvent, EventFacts
<1>6. Undelivered(c)' = 0 /\ Undelivered(c) \in {0, 2}
  BY <1>2, BacklogIsNat DEF Undelivered
<1>7. Undelivered(c)' <= Undelivered(c) + 0 /\ 0 + 1 + 0 < 2
  BY <1>6
<1> QED
  BY <1>1, <1>2, <1>3, <1>4, <1>5, <1>6, <1>7, CallAdvances

-----------------------------------------------------------------------------
\* Callbacks for objects, entity by entity.
LEMMA EntitySteps ==
  \A n \in Nat, m \in Nat : n >= 1 =>
    /\ 5 * n \in Nat /\ 5 * n - 1 \in Nat /\ 5 * n - 2 \in Nat /\ 5 * (n - 1) \in Nat
    /\ 5 * n - 1 < 5 * n /\ 5 * n - 2 < 5 * n - 1 /\ 5 * (n - 1) + 2 < 5 * n - 2
    /\ 0 + 2 < 5 * n - 2 /\ 0 < 5 * n - 1 /\ 0 < 5 * n - 2
    /\ n + m \in Nat /\ n - 1 + m \in Nat /\ n - 1 + m < n + m /\ 0 + m + 0 < n + m
OBVIOUS

LEMMA AddEntityAdvances ==
  ASSUME IInv, AddEntity
  PROVE  \E p \in Participants : Advances(p)
<1>1. PICK c \in Participants :
      /\ c = xrce.client /\ xrce.at = "add_entity"
      /\ DOMAIN xrce = {"at", "client", "object", "todo", "info"}
  BY CallFor DEF AddEntity, Works
<1>2. /\ UNCHANGED <<discovery, outbox, taken>>
      /\ xrce'.at = "associate_entity" /\ xrce'.client = c /\ xrce'.todo = xrce.todo
  BY <1>1 DEF AddEntity, Continue, dds, samples
<1>3. PICK n \in Nat : n = Len(xrce.todo) /\ n >= 1
  BY <1>1, TodoLength DEF Works
<1>4. StepsLeft(xrce) = 5 * n /\ Calling(c)' = 5 * n - 1
  BY <1>1, <1>2, <1>3, StepsAre, CallAfter, Zenon
<1>5. \A q \in Participants \ {c} : xrce'.client # q
  BY <1>2, CallAfter
<1>6. 5 * n \in Nat /\ 5 * n - 1 \in Nat /\ 5 * n - 1 < 5 * n
  BY <1>3, EntitySteps
<1> QED
  BY <1>1, <1>2, <1>4, <1>5, <1>6, QuietCall

LEMMA AssociateEntityAdvances ==
  ASSUME IInv, AssociateEntity
  PROVE  \E p \in Participants : Advances(p)
<1>1. PICK c \in Participants :
      /\ c = xrce.client /\ xrce.at = "associate_entity"
      /\ DOMAIN xrce = {"at", "client", "object", "todo", "info"}
  BY CallFor DEF AssociateEntity, Works
<1>2. /\ UNCHANGED <<discovery, outbox, taken>>
      /\ xrce'.at \in {"write", "undefined"} /\ xrce'.client = c /\ xrce'.todo = xrce.todo
  BY <1>1 DEF AssociateEntity, Continue, Undefined, dds, samples
<1>3. PICK n \in Nat : n = Len(xrce.todo) /\ n >= 1
  BY <1>1, TodoLength DEF Works
<1>4. StepsLeft(xrce) = 5 * n - 1
  BY <1>1, <1>3, StepsAre, Zenon
<1>5. \A q \in Participants \ {c} : xrce'.client # q
  BY <1>2, CallAfter
<1>6. /\ 5 * n - 1 \in Nat /\ 5 * n - 2 \in Nat /\ 5 * n - 2 < 5 * n - 1
      /\ 0 < 5 * n - 1
  BY <1>3, EntitySteps
<1>7. CASE xrce'.at = "write"
  <2>1. Calling(c)' = 5 * n - 2
    BY <1>2, <1>3, <1>7, StepsAre, CallAfter, Zenon
  <2> QED
    BY <1>1, <1>2, <1>4, <1>5, <1>6, <2>1, QuietCall
<1>8. CASE xrce'.at = "undefined"
  <2>1. Calling(c)' = 0
    BY <1>2, <1>8, StepsAre, CallAfter
  <2> QED
    BY <1>1, <1>2, <1>4, <1>5, <1>6, <2>1, QuietCall
<1> QED
  BY <1>2, <1>7, <1>8

LEMMA WriteInfoAdvances ==
  ASSUME IInv, WriteInfo
  PROVE  \E p \in Participants : Advances(p)
<1>1. PICK c \in Participants :
      /\ c = xrce.client /\ xrce.at = "write"
      /\ DOMAIN xrce = {"at", "client", "object", "todo", "info"}
  BY CallFor DEF WriteInfo, Works
<1>2. /\ discovery' = discovery
      /\ \/ /\ Write(c, xrce.info)
            /\ \/ xrce' = Idle
               \/ /\ Len(xrce.todo) # 1
                  /\ xrce' = [xrce EXCEPT !.at = "add_entity", !.todo = Tail(xrce.todo)]
         \/ UNCHANGED samples /\ xrce' = [xrce EXCEPT !.at = "undefined"]
  BY <1>1 DEF WriteInfo, Continue, Undefined, dds
<1>3. PICK n \in Nat :
      n = Len(xrce.todo) /\ n >= 1 /\ (n # 1 => Len(Tail(xrce.todo)) = n - 1)
  BY <1>1, TodoLength DEF Works
<1>4. StepsLeft(xrce) = 5 * n - 2
  BY <1>1, <1>3, StepsAre, Zenon
<1>5. xrce' = Idle \/ xrce'.client = c
  BY <1>1, <1>2
<1>6. \A q \in Participants \ {c} : xrce'.client # q
  BY <1>5, CallAfter
<1>7. /\ 5 * n - 2 \in Nat /\ 5 * (n - 1) \in Nat /\ 5 * (n - 1) + 2 < 5 * n - 2
      /\ 0 + 2 < 5 * n - 2 /\ 0 < 5 * n - 2
  BY <1>3, EntitySteps
<1>8. CASE Write(c, xrce.info) /\ xrce' = Idle
  <2>1. Calling(c)' = 0
    BY <1>8, CallAfter
  <2> QED
    BY <1>1, <1>2, <1>4, <1>6, <1>7, <1>8, <2>1, WritingCall
<1>9. CASE /\ Write(c, xrce.info) /\ Len(xrce.todo) # 1
           /\ xrce' = [xrce EXCEPT !.at = "add_entity", !.todo = Tail(xrce.todo)]
  <2>1. xrce'.at = "add_entity" /\ xrce'.client = c /\ xrce'.todo = Tail(xrce.todo)
    BY <1>1, <1>9
  <2>2. Len(xrce'.todo) = n - 1
    BY <1>3, <1>9, <2>1, Zenon
  <2>3. Calling(c)' = 5 * (n - 1)
    BY <2>1, <2>2, StepsAre, CallAfter, Zenon
  <2> QED
    BY <1>1, <1>2, <1>4, <1>6, <1>7, <1>9, <2>3, WritingCall
<1>10. CASE UNCHANGED samples /\ xrce' = [xrce EXCEPT !.at = "undefined"]
  <2>1. xrce'.at = "undefined" /\ xrce'.client = c
    BY <1>1, <1>10
  <2>2. Calling(c)' = 0
    BY <2>1, StepsAre, CallAfter
  <2> QED
    BY <1>1, <1>2, <1>4, <1>6, <1>7, <1>10, <2>2, QuietCall DEF samples
<1> QED
  BY <1>2, <1>8, <1>9, <1>10

\* The events of an object are as many as its entities.
LEMMA EventsAdded ==
  ASSUME IInv, NEW c \in Participants, NEW o \in Objects,
         NEW status \in {"discovered", "removed"}
  PROVE  Len(discovery[c] \o EventsOf(o, status)) = Len(discovery[c]) + Len(o.entities)
<1>1. o.entities \in Seq(Entities) /\ EventsOf(o, status) \in Seq(Events)
  BY EntityEvents, ObjectsAssumption
<1>2. Len(EventsOf(o, status)) = Len(o.entities)
  <2>1. DOMAIN EventsOf(o, status) = DOMAIN o.entities
    BY DEF EventsOf
  <2>2. /\ Len(o.entities) \in Nat /\ DOMAIN o.entities = 1..Len(o.entities)
        /\ Len(EventsOf(o, status)) \in Nat
        /\ DOMAIN EventsOf(o, status) = 1..Len(EventsOf(o, status))
    BY <1>1, LenProperties
  <2> QED
    BY <2>1, <2>2
<1>3. discovery[c] \in Seq(Events)
  BY DEF IInv, Types
<1>4. Len(discovery[c] \o EventsOf(o, status)) = Len(discovery[c]) + Len(EventsOf(o, status))
  BY <1>1, <1>3, ConcatProperties
<1> QED
  BY <1>2, <1>4

LEMMA RemoveEntityAdvances ==
  ASSUME IInv, RemoveEntity
  PROVE  \E p \in Participants : Advances(p)
<1>1. PICK c \in Participants :
      /\ c = xrce.client /\ xrce.at = "remove_entity"
      /\ DOMAIN xrce = {"at", "client", "object", "todo", "info"}
      /\ discovery \in [Participants -> Seq(Events)]
  BY CallFor DEF RemoveEntity, Works, IInv, Types
<1>2. PICK n \in Nat, m \in Nat :
      /\ n = Len(xrce.todo) /\ n >= 1 /\ m = Len(xrce.object.entities)
      /\ n > 1 => Len(Tail(xrce.todo)) = n - 1
  BY <1>1, TodoLength DEF Works
<1>3. StepsLeft(xrce) = n + m
  BY <1>1, <1>2, StepsAre, Zenon
<1>4. n + m \in Nat /\ n - 1 + m \in Nat /\ n - 1 + m < n + m /\ 0 + m + 0 < n + m
  BY <1>2, EntitySteps
<1>5. CASE Len(xrce.todo) > 1
  <2>1. /\ UNCHANGED <<discovery, outbox, taken>>
        /\ xrce' = [xrce EXCEPT !.todo = Tail(xrce.todo)]
    BY <1>5 DEF RemoveEntity, dds, samples
  <2>2. /\ xrce'.at = "remove_entity" /\ xrce'.client = c /\ xrce'.object = xrce.object
        /\ xrce'.todo = Tail(xrce.todo)
    BY <1>1, <2>1
  <2>3. Len(xrce'.todo) = n - 1
    BY <1>2, <1>5, <2>2, Zenon
  <2>4. Calling(c)' = n - 1 + m
    BY <1>2, <2>2, <2>3, StepsAre, CallAfter, Zenon
  <2>5. \A q \in Participants \ {c} : xrce'.client # q
    BY <2>2, CallAfter
  <2> QED
    BY <1>1, <1>3, <1>4, <2>1, <2>4, <2>5, QuietCall
<1>6. CASE ~(Len(xrce.todo) > 1)
  <2>1. /\ UNCHANGED <<outbox, taken>> /\ xrce' = Idle
        /\ discovery' = [discovery EXCEPT ![c] = @ \o EventsOf(xrce.object, "removed")]
    BY <1>1, <1>6 DEF RemoveEntity, samples
  <2>2. Len(discovery'[c]) = Len(discovery[c]) + m
    BY <1>1, <1>2, <2>1, EventsAdded, TodoLength DEF Works
  <2>3. /\ Calling(c)' = 0
        /\ \A q \in Participants \ {c} :
             discovery'[q] = discovery[q] /\ outbox'[q] = outbox[q] /\ xrce'.client # q
    BY <1>1, <2>1, CallAfter
  <2>4. /\ Undelivered(c)' = Undelivered(c) /\ Undelivered(c) \in {0, 2}
        /\ Undelivered(c)' <= Undelivered(c) + 0
    BY <2>1, BacklogIsNat DEF Undelivered
  <2>5. PICK t \in Nat : t = n + m /\ 0 + m + 0 < t
    BY <1>4
  <2>6. StepsLeft(xrce) = t
    BY <1>3, <2>5
  <2>7. xrce.client = c /\ taken' = taken
    BY <1>1, <2>1
  <2>8. 0 \in Nat /\ 0 \in {0, 2} /\ Undelivered(c)' \in {0, 2}
    BY <2>4
  <2>9. Advances(c)
    BY <1>2, <2>2, <2>3, <2>4, <2>5, <2>6, <2>7, <2>8, CallAdvances, ZenonT(30)
  <2> QED
    BY <2>9
<1> QED
  BY <1>5, <1>6

-----------------------------------------------------------------------------
(***************************************************************************)
(* The steps of the listeners.                                             *)
(***************************************************************************)

\* A step about p outside a callback.
LEMMA ListenerAdvances ==
  ASSUME IInv, NEW p \in Participants, xrce' = xrce,
         \A q \in Participants \ {p} :
           /\ discovery'[q] = discovery[q] /\ outbox'[q] = outbox[q]
           /\ BeingApplied(q)' <=> BeingApplied(q),
         NEW l \in Nat, NEW v \in {0, 2}, NEW a \in {0, 1},
         Len(discovery'[p]) = l, Undelivered(p)' = v, Applying(p)' = a,
         l + v + a < Len(discovery[p]) + Undelivered(p) + Applying(p)
  PROVE  Advances(p)
<1>1. OnlyOf(p)
  BY DEF OnlyOf
<1>2. PICK c \in Nat : c = Calling(p)
  BY BacklogIsNat
<1>3. Calling(p)' = c
  BY <1>2 DEF Calling
<1>4. PICK x \in Nat : x = Len(discovery[p]) + Undelivered(p) + Applying(p)
  BY BacklogIsNat
<1>5. Backlog(p) = x + c
  BY <1>2, <1>4 DEF Backlog
<1>6. Backlog(p)' = l + v + a + c
  BY <1>3 DEF Backlog
<1>7. l + v + a + c < x + c
  BY <1>4
<1> QED
  BY <1>1, <1>5, <1>6, <1>7, OthersKept DEF Advances

\* An event is reported.
LEMMA ListenAdvances ==
  ASSUME IInv, NEW p \in Participants, Listen(p)
  PROVE  Advances(p)
<1>1. /\ xrce' = xrce /\ taken' = taken
      /\ discovery[p] # <<>> /\ discovery' = [discovery EXCEPT ![p] = Tail(@)]
      /\ outbox' = outbox \/ outbox' = [outbox EXCEPT ![p] = NoSample]
  BY DEF Listen, Report, OnParticipantDiscovered, OnParticipantRemoved,
     OnEntityDiscovered, OnEntityRemoved
<1>2. /\ discovery \in [Participants -> Seq(Events)]
      /\ DOMAIN outbox = Participants
  BY DEF IInv, Types
<1>3. /\ discovery'[p] = Tail(discovery[p])
      /\ \A q \in Participants \ {p} : discovery'[q] = discovery[q]
  BY <1>1, <1>2
<1>4. PICK l \in Nat : l = Len(Tail(discovery[p])) /\ Len(discovery[p]) = l + 1
  <2>1. discovery[p] \in Seq(Events)
    BY <1>2
  <2>2. \A s \in Seq(Events) :
          s # <<>> => /\ Len(s) \in Nat /\ Len(s) >= 1 /\ Len(Tail(s)) = Len(s) - 1
    BY TailOfSeq
  <2>3. PICK n \in Nat : n = Len(discovery[p]) /\ n >= 1 /\ Len(Tail(discovery[p])) = n - 1
    BY <1>1, <2>1, <2>2
  <2>4. n - 1 \in Nat /\ n = (n - 1) + 1
    BY <2>3
  <2> QED
    BY <2>3, <2>4
<1>5. /\ outbox'[p] \in {outbox[p], NoSample}
      /\ \A q \in Participants \ {p} : outbox'[q] = outbox[q]
  BY <1>1, <1>2
<1>6. PICK v \in {0, 2} : v = Undelivered(p)' /\ v <= Undelivered(p)
  BY <1>5 DEF Undelivered
<1>7. PICK a \in {0, 1} : a = Applying(p)' /\ a = Applying(p)
  BY <1>1 DEF Applying, BeingApplied
<1>8. l + v + a < Len(discovery[p]) + Undelivered(p) + Applying(p)
  <2>1. PICK u \in {0, 2} : u = Undelivered(p) /\ v <= u
    BY <1>6, BacklogIsNat
  <2>2. l + v + a < (l + 1) + u + a
    BY <1>4, <1>6, <1>7, <2>1
  <2> QED
    BY <1>4, <1>7, <2>1, <2>2
<1>9. Len(discovery'[p]) = l
  BY <1>3, <1>4
<1>10. \A q \in Participants : BeingApplied(q)' <=> BeingApplied(q)
  BY <1>1 DEF BeingApplied
<1> QED
  BY <1>1, <1>3, <1>5, <1>6, <1>7, <1>8, <1>9, <1>10, ListenerAdvances

\* A sample that is taken is still to be applied.
LEMMA TakeSampleAdvances ==
  ASSUME IInv, NEW p \in Participants, TakeSample(p)
  PROVE  Advances(p)
<1>1. /\ xrce' = xrce /\ discovery' = discovery
      /\ taken = NothingTaken /\ taken'.from = p
      /\ outbox[p] # NoSample /\ outbox' = [outbox EXCEPT ![p] = NoSample]
      /\ DOMAIN outbox = Participants
  BY DEF TakeSample, IInv, Types, dds, NoSample
<1>2. \A q \in Participants : ~BeingApplied(q)
  BY <1>1, ObjectsAssumption DEF BeingApplied, NothingTaken
<1>3. \A q \in Participants : BeingApplied(q)' <=> q = p
  BY <1>1 DEF BeingApplied
<1>4. Undelivered(p) = 2 /\ Undelivered(p)' = 0 /\ Applying(p) = 0 /\ Applying(p)' = 1
  BY <1>1, <1>2, <1>3 DEF Undelivered, Applying
<1>5. PICK l \in Nat : l = Len(discovery[p])
  BY BacklogIsNat
<1>6. l + 0 + 1 < Len(discovery[p]) + Undelivered(p) + Applying(p)
  BY <1>4, <1>5
<1>7. \A q \in Participants \ {p} :
        /\ discovery'[q] = discovery[q] /\ outbox'[q] = outbox[q]
        /\ BeingApplied(q)' <=> BeingApplied(q)
  BY <1>1, <1>2, <1>3
<1> QED
  BY <1>1, <1>4, <1>5, <1>6, <1>7, ListenerAdvances

LEMMA UpdateAdvances ==
  ASSUME IInv, UpdateNodeEntitiesInfo
  PROVE  \E p \in Participants : Advances(p)
<1>1. PICK p \in Participants : p = taken.from
  BY DEF UpdateNodeEntitiesInfo, IInv, Types
<1>2. /\ xrce' = xrce /\ discovery' = discovery /\ outbox' = outbox
      /\ taken' = NothingTaken
  BY DEF UpdateNodeEntitiesInfo, dds
<1>3. \A q \in Participants : ~BeingApplied(q)' /\ (BeingApplied(q) <=> q = p)
  BY <1>1, <1>2, ObjectsAssumption DEF BeingApplied, NothingTaken
<1>4. Applying(p) = 1 /\ Applying(p)' = 0 /\ Undelivered(p)' = Undelivered(p)
  BY <1>2, <1>3 DEF Applying, Undelivered
<1>5. PICK l \in Nat, v \in {0, 2} : l = Len(discovery[p]) /\ v = Undelivered(p)
  BY BacklogIsNat
<1>6. l + v + 0 < Len(discovery[p]) + Undelivered(p) + Applying(p)
  BY <1>4, <1>5
<1> QED
  BY <1>2, <1>3, <1>4, <1>5, <1>6, ListenerAdvances

-----------------------------------------------------------------------------
(***************************************************************************)
(* Nothing left to do.                                                     *)
(***************************************************************************)
LEMMA NonZero ==
  \A n, m \in Nat : n >= 1 =>
    /\ 5 * n \in Nat \ {0} /\ 5 * n - 1 \in Nat \ {0} /\ 5 * n - 2 \in Nat \ {0}
    /\ n + m \in Nat \ {0}
OBVIOUS

LEMMA SomethingLeft ==
  ASSUME IInv, xrce.at \in Starts \union Ends \union Works
  PROVE  StepsLeft(xrce) # 0
<1>1. CASE xrce.at \in Works
  <2>1. PICK n \in Nat, m \in Nat :
          n = Len(xrce.todo) /\ n >= 1 /\ m = Len(xrce.object.entities)
    BY <1>1, TodoLength
  <2>2. 5 * n \in Nat \ {0} /\ 5 * n - 1 \in Nat \ {0} /\ 5 * n - 2 \in Nat \ {0}
        /\ n + m \in Nat \ {0}
    BY <2>1, NonZero
  <2>3. \/ StepsLeft(xrce) = 5 * n \/ StepsLeft(xrce) = 5 * n - 1
        \/ StepsLeft(xrce) = 5 * n - 2 \/ StepsLeft(xrce) = n + m
    BY <1>1, <2>1, StepsAre, Zenon DEF Works
  <2>4. StepsLeft(xrce) \in Nat \ {0}
    BY <2>2, <2>3, Zenon
  <2> QED
    BY <2>4
<1>2. CASE xrce.at \in Starts \union Ends
  <2>1. StepsLeft(xrce) \in {2, 3, 4, 5, 6}
    BY <1>2, StepsAre DEF Starts, Ends
  <2> QED
    BY <2>1
<1> QED
  BY <1>1, <1>2

LEMMA IdleServer ==
  ASSUME IInv, CallbacksDefined
  PROVE  xrce = Idle <=> \A p \in Participants : Calling(p) = 0
<1>1. CASE xrce.at \in Starts \union Ends \union Works
  <2>1. xrce # Idle
    BY <1>1 DEF Starts, Ends, Works, Idle
  <2>2. PICK p \in Participants : p = xrce.client
    BY <1>1, CallFor
  <2>3. Calling(p) = StepsLeft(xrce)
    BY <2>2 DEF Calling
  <2> QED
    BY <1>1, <2>1, <2>3, SomethingLeft
<1>2. CASE xrce.at = "idle"
  <2>1. xrce = Idle
    BY <1>2 DEF IInv, XrceSteps
  <2>2. ASSUME NEW p \in Participants PROVE Calling(p) = 0
    BY <1>2, StepsAre DEF Calling
  <2> QED
    BY <2>1, <2>2
<1> QED
  BY <1>1, <1>2 DEF IInv, XrceSteps, CallbacksDefined

LEMMA NoneApplied ==
  ASSUME IInv
  PROVE  taken = NothingTaken <=> \A p \in Participants : ~BeingApplied(p)
<1>1. CASE taken = NothingTaken
  BY <1>1, ObjectsAssumption DEF BeingApplied, NothingTaken
<1>2. CASE taken # NothingTaken
  <2>1. taken.from \in Participants
    BY <1>2 DEF IInv, Types
  <2> QED
    BY <1>2, <2>1 DEF BeingApplied
<1> QED
  BY <1>1, <1>2

LEMMA NoBacklog ==
  ASSUME IInv, NEW p \in Participants
  PROVE  Backlog(p) = 0 <=> /\ discovery[p] = <<>> /\ outbox[p] = NoSample
                            /\ ~BeingApplied(p) /\ Calling(p) = 0
<1>1. PICK l \in Nat, c \in Nat, u \in {0, 2}, a \in {0, 1} :
        l = Len(discovery[p]) /\ c = Calling(p) /\ u = Undelivered(p) /\ a = Applying(p)
  BY BacklogIsNat
<1>2. Backlog(p) = l + u + a + c
  BY <1>1 DEF Backlog
<1>3. Backlog(p) = 0 <=> l = 0 /\ u = 0 /\ a = 0 /\ c = 0
  BY <1>2
<1>4. l = 0 <=> discovery[p] = <<>>
  BY <1>1, EmptySeq DEF IInv, Types
<1>5. u = 0 <=> outbox[p] = NoSample
  BY <1>1 DEF Undelivered
<1>6. a = 0 <=> ~BeingApplied(p)
  BY <1>1 DEF Applying
<1> QED
  BY <1>1, <1>3, <1>4, <1>5, <1>6

-----------------------------------------------------------------------------
(***************************************************************************)
(* The theorems.                                                           *)
(***************************************************************************)
LEMMA NextAdvances ==
  ASSUME IInv, Next, ~XrceStarts, ~PeerSteps
  PROVE  \E p \in Participants : Advances(p)
<1>1. CASE XrceCalls
  BY <1>1, AddParticipantAdvances, AddNodeAdvances, FirstWriteAdvances,
     RemoveParticipantAdvances, LastWriteAdvances, DeleteAuxiliaryAdvances,
     AddEntityAdvances, AssociateEntityAdvances, WriteInfoAdvances,
     RemoveEntityAdvances DEF XrceCalls
<1>2. ASSUME NEW p \in Participants, Listen(p) \/ TakeSample(p)
      PROVE  Advances(p)
  BY <1>2, ListenAdvances, TakeSampleAdvances
<1>3. CASE UpdateNodeEntitiesInfo
  BY <1>3, UpdateAdvances
<1> QED
  BY <1>1, <1>2, <1>3 DEF Next

\* Each step of a callback or a listener shortens the backlog of one participant
\* and leaves those of the others, whatever calls, writes, samples and events
\* follow from each other (graph_manager.cpp:304-474, 551-563, 609-778).
THEOREM WorkDrains == Spec => Drains
<1>1. IInv /\ [Next]_vars =>
        [~XrceStarts /\ ~PeerSteps =>
           \E p \in Participants :
             /\ Backlog(p)' < Backlog(p)
             /\ \A q \in Participants \ {p} : Backlog(q)' = Backlog(q)]_vars
  BY NextAdvances DEF Advances
<1> QED
  BY <1>1, Inductive, PTL DEF Spec, Drains

\* While callbacks are defined, the threads are at rest exactly when no
\* participant has a backlog: what drains is all there is to do
\* (graph_manager.cpp:304-474, 551-563, 609-778).
THEOREM RestIsNoBacklog ==
  Spec => [](CallbacksDefined => (AtRest <=> \A p \in Participants : Backlog(p) = 0))
<1>1. ASSUME IInv, CallbacksDefined
      PROVE  AtRest <=> \A p \in Participants : Backlog(p) = 0
  <2>1. xrce = Idle <=> \A p \in Participants : Calling(p) = 0
    BY <1>1, IdleServer
  <2>2. taken = NothingTaken <=> \A p \in Participants : ~BeingApplied(p)
    BY <1>1, NoneApplied
  <2>3. \A p \in Participants :
          Backlog(p) = 0 <=> /\ discovery[p] = <<>> /\ outbox[p] = NoSample
                             /\ ~BeingApplied(p) /\ Calling(p) = 0
    BY <1>1, NoBacklog
  <2> QED
    BY <2>1, <2>2, <2>3 DEF AtRest
<1> QED
  BY <1>1, Inductive, PTL
=============================================================================
