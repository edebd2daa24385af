-------------------------- MODULE ConversionsProofs -------------------------
(***************************************************************************)
(* Proofs about the pure parts of the program, for names, messages,        *)
(* command lines and durations of any number and length.                   *)
(***************************************************************************)
EXTENDS Conversions, SequenceTheorems, WellFoundedInduction, TLAPS

(***************************************************************************)
(* The inductive invariant: every input has its type.                      *)
(***************************************************************************)
Pieces == {"micro_ros_agent", "--ros-args", "udp4", "-p", "8888"}

Types ==
  /\ name \in Seq(Tokens)
  /\ before \in Seq(Words)
  /\ now \in Seq(Words)
  /\ qos \in Announced
  /\ argv \in Seq(Seq(Pieces))
  /\ Len(argv) >= 1 /\ argv[1] = <<"micro_ros_agent">>

LEMMA InitTypes == Init => Types
<1>1. DefaultWriterQos \in Announced
  BY DurationsAssumption DEF DefaultWriterQos, DefaultOf, Announced,
       Reliabilities, Durabilities, Livelinesses
<1>2. <<"micro_ros_agent">> \in Seq(Pieces)
  BY DEF Pieces
<1>3. CommandLine \in Seq(Seq(Pieces)) /\ Len(CommandLine) = 1
      /\ CommandLine[1] = <<"micro_ros_agent">>
  BY <1>2 DEF CommandLine
<1>4. <<>> \in Seq(Tokens) /\ <<>> \in Seq(Words)
  OBVIOUS
<1>5. ASSUME Init
      PROVE  /\ name \in Seq(Tokens) /\ before \in Seq(Words) /\ now \in Seq(Words)
             /\ qos \in Announced
             /\ argv = CommandLine
  BY <1>1, <1>4, <1>5 DEF Init
<1>6. ASSUME Init
      PROVE  argv \in Seq(Seq(Pieces)) /\ Len(argv) >= 1 /\ argv[1] = <<"micro_ros_agent">>
  <2>1. argv = CommandLine
    BY <1>5, <1>6
  <2> QED
    BY <1>3, <2>1
<1> QED
  BY <1>5, <1>6 DEF Types

LEMMA NextTypes == Types /\ [Next]_vars => Types'
<1> SUFFICES ASSUME Types, [Next]_vars
             PROVE  Types'
  OBVIOUS
<1>1. CASE NameGrows
  BY <1>1 DEF NameGrows, Types
<1>2. CASE MessageGrows
  <2>1. before' \in Seq(Words) /\ now' \in Seq(Words)
    <3>1. PICK word \in Words :
             \/ before' = Append(before, word) /\ UNCHANGED now
             \/ now' = Append(now, word) /\ UNCHANGED before
      BY <1>2 DEF MessageGrows
    <3>2. before \in Seq(Words) /\ now \in Seq(Words)
      BY DEF Types
    <3>3. Append(before, word) \in Seq(Words) /\ Append(now, word) \in Seq(Words)
      BY <3>1, <3>2
    <3> QED
      BY <3>1, <3>2, <3>3, Zenon
  <2>2. UNCHANGED <<name, qos, argv>>
    BY <1>2 DEF MessageGrows
  <2> QED
    BY <2>1, <2>2 DEF Types
<1>3. CASE QosChanges
  BY <1>3 DEF QosChanges, Types
<1>4. CASE ArgumentIsAdded
  <2>1. \A arg \in Arguments : arg \in Seq(Pieces)
    <3>1. \A t \in Pieces : <<t>> \in Seq(Pieces)
      OBVIOUS
    <3>2. <<"udp4", "-p", "8888">> \in Seq(Pieces)
      BY DEF Pieces
    <3>3. {"--ros-args", "udp4", "-p", "8888"} \subseteq Pieces
      BY DEF Pieces
    <3> QED
      BY <3>1, <3>2, <3>3 DEF Arguments, RosArgs
  <2>2. PICK arg \in Seq(Pieces) : argv' = Append(argv, arg)
    BY <1>4, <2>1 DEF ArgumentIsAdded
  <2>3. argv' \in Seq(Seq(Pieces)) /\ Len(argv') = Len(argv) + 1
        /\ argv'[1] = argv[1]
    BY <2>2 DEF Types
  <2>4. UNCHANGED <<name, before, now, qos>>
    BY <1>4 DEF ArgumentIsAdded
  <2> QED
    BY <2>3, <2>4 DEF Types
<1>5. CASE UNCHANGED vars
  BY <1>5 DEF vars, Types
<1> QED
  BY <1>1, <1>2, <1>3, <1>4, <1>5 DEF Next

LEMMA TypesKept == Spec => []Types
  BY InitTypes, NextTypes, PTL DEF Spec

-----------------------------------------------------------------------------
(***************************************************************************)
(* QoS.                                                                    *)
(***************************************************************************)

\* The order of callback and discovery does not matter to an endpoint's
\* profile, for any durations (graph_manager.cpp:650-698).
THEOREM ProfilesAgree == Spec => []SameProfile
<1>1. Types => SameProfile
  BY DEF Types, SameProfile, Announced, FastddsQosToRmwQos,
       WriterQosConversion, ReaderQosConversion,
       DefaultWriterQos, DefaultReaderQos, DefaultOf
<1> QED
  BY <1>1, TypesKept, PTL

\* No difference that ROS has names for is lost in a profile, for any
\* durations (graph_manager.cpp:477-549).
THEOREM ProfilesTell == Spec => ProfileTells
<1>1. Types /\ Types' /\ [Next]_vars =>
        [FastddsQosToRmwQos(qos') = FastddsQosToRmwQos(qos) =>
           /\ \A p \in {"reliability", "deadline", "lifespan", "leaseDuration"} :
                qos'[p] = qos[p]
           /\ qos.durability \in RosDurabilities => qos'.durability = qos.durability
           /\ qos.liveliness \in RosLivelinesses => qos'.liveliness = qos.liveliness]_qos
  <2> SUFFICES ASSUME Types, Types',
                      FastddsQosToRmwQos(qos') = FastddsQosToRmwQos(qos)
               PROVE  /\ \A p \in {"reliability", "deadline", "lifespan", "leaseDuration"} :
                           qos'[p] = qos[p]
                      /\ qos.durability \in RosDurabilities => qos'.durability = qos.durability
                      /\ qos.liveliness \in RosLivelinesses => qos'.liveliness = qos.liveliness
    OBVIOUS
  <2>1. /\ KnownTo(Reliabilities, qos'.reliability) = KnownTo(Reliabilities, qos.reliability)
        /\ KnownTo(RosDurabilities, qos'.durability) = KnownTo(RosDurabilities, qos.durability)
        /\ KnownTo(RosLivelinesses, qos'.liveliness) = KnownTo(RosLivelinesses, qos.liveliness)
        /\ qos'.deadline = qos.deadline /\ qos'.lifespan = qos.lifespan
        /\ qos'.leaseDuration = qos.leaseDuration
    BY DEF FastddsQosToRmwQos
  <2>2. qos.reliability \in Reliabilities /\ qos'.reliability \in Reliabilities
    BY DEF Types, Announced
  <2> QED
    BY <2>1, <2>2 DEF KnownTo, Reliabilities, RosDurabilities, RosLivelinesses
<1> QED
  BY <1>1, TypesKept, PTL DEF Spec, ProfileTells

-----------------------------------------------------------------------------
(***************************************************************************)
(* Samples.                                                                *)
(***************************************************************************)

\* A payload: a buffer with the words of earlier samples.
Payloads == [words : Seq(Words \union {"CDR_LE"}), maxSize : Nat, length : Nat]

\* Reserving makes room for a message, whatever the payload was used for before.
LEMMA ReserveFits ==
  ASSUME NEW payload \in Payloads, NEW message \in Seq(Words)
  PROVE  /\ Reserve(payload, message) \in Payloads
         /\ Reserve(payload, message).words = payload.words
         /\ Fits(Reserve(payload, message), message)
<1>1. Len(Encapsulation \o message) = 1 + Len(message)
  BY DEF Encapsulation
<1>2. MaxSerializedTypeSize \in Nat
  BY SizeAssumption DEF MaxSerializedTypeSize
<1>3. /\ CalculateSerializedSize(message) \in Nat
      /\ CalculateSerializedSize(message) = 4 * Len(Encapsulation \o message)
  BY <1>1 DEF CalculateSerializedSize, GetSerializedSize, WordSize
<1> HIDE DEF Payloads
<1>4. PICK size \in Nat : /\ Reserve(payload, message) = [payload EXCEPT !.maxSize = size]
                          /\ CalculateSerializedSize(message) <= size
  BY <1>2, <1>3 DEF Payloads, Reserve
<1> QED
  BY <1>3, <1>4 DEF Payloads, Fits, WordSize

\* What lies between the first element and the rest of a sequence.
LEMMA Middle ==
  ASSUME NEW S, NEW first \in S, NEW middle \in Seq(S), NEW rest \in Seq(S)
  PROVE  LET new == <<first>> \o middle IN
         /\ new \o rest \in Seq(S)
         /\ Len(new) = 1 + Len(middle)
         /\ SubSeq(new \o rest, 2, Len(new)) = middle
<1>1. PICK new : new = <<first>> \o middle
  OBVIOUS
<1>2. <<first>> \in Seq(S) /\ Len(<<first>>) = 1 /\ Len(middle) \in Nat
  OBVIOUS
<1>3. /\ new \in Seq(S) /\ Len(new) = 1 + Len(middle)
      /\ \A i \in 1..Len(middle) : new[i + 1] = middle[i]
  BY <1>1, <1>2, ConcatProperties
<1>4. PICK all : all = new \o rest
  OBVIOUS
<1>5. /\ all \in Seq(S)
      /\ \A i \in 1..Len(new) : all[i] = new[i]
  <2>1. new \in Seq(S)
    BY <1>3
  <2> QED
    BY <1>4, <2>1
<1>6. \A i \in 2..Len(new) : all[i] \in S
  BY <1>2, <1>3, <1>5, ElementOfSeq
<1>7. PICK read : read = SubSeq(all, 2, Len(new))
  OBVIOUS
<1>8. /\ read \in Seq(S) /\ Len(read) = Len(middle)
      /\ \A i \in 1..Len(middle) : read[i] = all[i + 1]
  <2>1. /\ read \in Seq(S)
        /\ Len(read) = IF 2 <= Len(new) THEN Len(new) - 2 + 1 ELSE 0
        /\ \A i \in 1..Len(new) - 2 + 1 : read[i] = all[2 + i - 1]
    BY <1>2, <1>3, <1>6, <1>7, SubSeqProperties
  <2> QED
    BY <1>2, <1>3, <2>1
<1>9. \A i \in 1..Len(middle) : read[i] = middle[i]
  BY <1>2, <1>3, <1>5, <1>8
<1>10. read = middle
  BY <1>8, <1>9, SeqEqual
<1> QED
  BY <1>1, <1>3, <1>4, <1>5, <1>7, <1>10

\* A message is read as it was written, and nothing of an earlier sample.
LEMMA SerializeRestores ==
  ASSUME NEW payload \in Payloads, NEW message \in Seq(Words),
         Fits(payload, message)
  PROVE  /\ Serialize(message, payload) \in Payloads
         /\ Deserialize(Serialize(message, payload)) = message
<1>1. PICK S : S = Words \union {"CDR_LE"}
  OBVIOUS
<1>2. message \in Seq(S) /\ "CDR_LE" \in S
  BY <1>1
<1>3. PICK new : new = Encapsulation \o message
  OBVIOUS
<1>4. PICK rest \in Seq(S) : rest = SubSeq(payload.words, Len(new) + 1, Len(payload.words))
  <2>1. payload.words \in Seq(S)
    BY <1>1 DEF Payloads
  <2>2. Len(new) = 1 + Len(message)
    BY <1>2, <1>3 DEF Encapsulation
  <2>3. Len(new) + 1 \in Int /\ Len(payload.words) \in Int
    BY <2>1, <2>2
  <2>4. \A i \in Len(new) + 1..Len(payload.words) : payload.words[i] \in S
    BY <2>1, <2>2
  <2> QED
    BY <2>3, <2>4, SubSeqProperties
<1>5. /\ new \o rest \in Seq(S)
      /\ Len(new) \in Nat
      /\ SubSeq(new \o rest, 2, Len(new)) = message
  BY <1>2, <1>3, Middle DEF Encapsulation
<1>6. Serialize(message, payload) =
        [payload EXCEPT !.words = new \o rest, !.length = 4 * Len(new)]
  BY <1>3, <1>4 DEF Serialize, Overwrite, WordSize
<1>7. /\ Serialize(message, payload) \in Payloads
      /\ Serialize(message, payload).words = new \o rest
      /\ Serialize(message, payload).length = 4 * Len(new)
  <2>1. PICK words \in Seq(S), length \in Nat :
          words = new \o rest /\ length = 4 * Len(new)
    <3>1. 4 * Len(new) \in Nat
      BY <1>5
    <3> QED
      BY <1>5, <3>1, Zenon
  <2>2. Serialize(message, payload) = [payload EXCEPT !.words = words, !.length = length]
    BY <1>6, <2>1
  <2> QED
    BY <1>1, <2>1, <2>2 DEF Payloads
<1>8. (4 * Len(new)) \div WordSize = Len(new)
  BY <1>5 DEF WordSize
<1> QED
  BY <1>5, <1>7, <1>8 DEF Deserialize

LEMMA SamplesAreRestored == Types => MessagesFit /\ MessagesRestored
<1> SUFFICES ASSUME Types
             PROVE  MessagesFit /\ MessagesRestored
  OBVIOUS
<1>1. EmptyPayload \in Payloads
  BY DEF EmptyPayload, Payloads
<1>2. before \in Seq(Words) /\ now \in Seq(Words)
  BY DEF Types
<1>3. /\ Fits(Reserve(EmptyPayload, before), before)
      /\ FirstPayload \in Payloads /\ Deserialize(FirstPayload) = before
  BY <1>1, <1>2, ReserveFits, SerializeRestores DEF FirstPayload
<1>4. /\ Fits(Reserve(FirstPayload, now), now)
      /\ Deserialize(SecondPayload) = now
  BY <1>2, <1>3, ReserveFits, SerializeRestores DEF SecondPayload
<1> QED
  BY <1>3, <1>4 DEF MessagesFit, MessagesRestored

\* The calculated size is the one a message needs, for messages of any length
\* (graph_typesupport.cpp:47, 89-96).
THEOREM SizesSuffice == Spec => []MessagesFit
  BY TypesKept, SamplesAreRestored, PTL

\* What is read is what was written, whatever the buffer held before
\* (graph_typesupport.cpp:62-68, 80-86).
THEOREM SamplesArrive == Spec => []MessagesRestored
  BY TypesKept, SamplesAreRestored, PTL

-----------------------------------------------------------------------------
(***************************************************************************)
(* Positions.                                                              *)
(***************************************************************************)
LEMMA LeastNumber ==
  ASSUME NEW T, T \subseteq Nat, T # {}
  PROVE  \E x \in T : \A y \in T : x <= y
<1>1. \E x \in T : \A y \in T : ~(<<y, x>> \in OpToRel(<, Nat))
  BY NatLessThanWellFounded, WFMin, Zenon
<1>2. \A x, y \in T : ~(<<y, x>> \in OpToRel(<, Nat)) => x <= y
  BY DEF OpToRel
<1> QED
  BY <1>1, <1>2

LEMMA MinIs ==
  ASSUME NEW T, T \subseteq Nat, T # {}
  PROVE  Min(T) \in T /\ \A y \in T : Min(T) <= y
  BY LeastNumber DEF Min

LEMMA MaxIs ==
  ASSUME NEW n \in Nat, NEW T, T \subseteq 1..n, T # {}
  PROVE  Max(T) \in T /\ \A y \in T : y <= Max(T)
<1> DEFINE Bounds == {m \in Nat : \A y \in T : y <= m}
<1>1. n \in Bounds
  OBVIOUS
<1>2. PICK m \in Bounds : \A y \in Bounds : m <= y
  BY <1>1, LeastNumber
<1>3. m \in T
  <2> SUFFICES ASSUME m \notin T
               PROVE  FALSE
    OBVIOUS
  <2>1. \A y \in T : y <= m - 1 /\ y >= 1
    BY <1>2
  <2>2. PICK y \in T : TRUE
    OBVIOUS
  <2>3. m - 1 \in Bounds
    BY <1>2, <2>1, <2>2
  <2> QED
    BY <1>2, <2>3
<1> QED
  BY <1>2, <1>3 DEF Max

\* find returns the first position of a token.
LEMMA FindIs ==
  ASSUME NEW S, NEW s \in Seq(S), NEW t
  PROVE  /\ Find(s, t) \in 0..Len(s)
         /\ Find(s, t) # 0 => s[Find(s, t)] = t
         /\ \A i \in 1..Len(s) : s[i] = t => Find(s, t) # 0 /\ Find(s, t) <= i
<1> DEFINE I == {i \in 1..Len(s) : s[i] = t}
<1>1. Find(s, t) = IF I # {} THEN Min(I) ELSE 0
  BY DEF Find, SelectInSeq
<1>2. I \subseteq Nat /\ Len(s) \in Nat
  OBVIOUS
<1>3. CASE I # {}
  <2>1. Find(s, t) \in I /\ \A i \in I : Find(s, t) <= i
    BY <1>1, <1>2, <1>3, MinIs
  <2>2. Find(s, t) \in 1..Len(s) /\ s[Find(s, t)] = t
    BY <2>1
  <2> QED
    BY <1>2, <2>1, <2>2
<1>4. CASE I = {}
  BY <1>1, <1>2, <1>4
<1> QED
  BY <1>3, <1>4

\* rfind returns the last position of a token.
LEMMA RfindIs ==
  ASSUME NEW S, NEW s \in Seq(S), NEW t
  PROVE  /\ Rfind(s, t) \in 0..Len(s)
         /\ Rfind(s, t) # 0 => s[Rfind(s, t)] = t
         /\ \A i \in 1..Len(s) : s[i] = t => i <= Rfind(s, t)
<1> DEFINE I == {i \in 1..Len(s) : s[i] = t}
<1>1. Rfind(s, t) = IF I # {} THEN Max(I) ELSE 0
  BY DEF Rfind, SelectLastInSeq
<1>2. I \subseteq 1..Len(s) /\ Len(s) \in Nat
  OBVIOUS
<1>3. CASE I # {}
  <2>1. Rfind(s, t) \in I /\ \A i \in I : i <= Rfind(s, t)
    BY <1>1, <1>2, <1>3, MaxIs
  <2>2. Rfind(s, t) \in 1..Len(s) /\ s[Rfind(s, t)] = t
    BY <2>1
  <2> QED
    BY <1>2, <2>1, <2>2
<1>4. CASE I = {}
  BY <1>1, <1>2, <1>4
<1> QED
  BY <1>3, <1>4

-----------------------------------------------------------------------------
(***************************************************************************)
(* Topics and services.                                                    *)
(***************************************************************************)

\* A name that a prefix is resolved in begins with that prefix and a slash.
LEMMA PrefixResolved ==
  ASSUME NEW S, NEW topic \in Seq(S), NEW prefix
  PROVE  /\ IsPrefix(<<prefix, "/">>, topic) <=>
              Len(topic) >= 2 /\ topic[1] = prefix /\ topic[2] = "/"
         /\ ResolvePrefix(topic, prefix) \in Seq(S)
         /\ ResolvePrefix(topic, prefix) # None =>
              /\ Len(topic) >= 2 /\ topic[1] = prefix
              /\ ResolvePrefix(topic, prefix) = Tail(topic)
<1>1. IsPrefix(<<prefix, "/">>, topic) <=>
        Len(topic) >= 2 /\ topic[1] = prefix /\ topic[2] = "/"
  <2>1. PICK T : T = S \union {prefix, "/"}
    OBVIOUS
  <2>2. PICK pair : pair = <<prefix, "/">>
    OBVIOUS
  <2>3. pair \in Seq(T) /\ Len(pair) = 2 /\ pair[1] = prefix /\ pair[2] = "/"
    BY <2>1, <2>2
  <2>4. topic \in Seq(T) /\ Len(topic) \in Nat
    BY <2>1, SeqMonotonic
  <2>5. ASSUME NEW s \in Seq(T), Len(s) >= 2
        PROVE  /\ SubSeq(s, 1, 2) \in Seq(T) /\ Len(SubSeq(s, 1, 2)) = 2
               /\ SubSeq(s, 1, 2)[1] = s[1] /\ SubSeq(s, 1, 2)[2] = s[2]
    BY <2>5
  <2>6. IsPrefix(pair, topic) <=>
          Len(topic) >= 2 /\ SubSeq(pair, 1, 2) = SubSeq(topic, 1, 2)
    BY <2>3, <2>4 DEF IsPrefix
  <2>7. ASSUME Len(topic) >= 2
        PROVE  SubSeq(pair, 1, 2) = SubSeq(topic, 1, 2) <=>
                 pair[1] = topic[1] /\ pair[2] = topic[2]
    <3>1. ASSUME NEW a \in Seq(T), NEW b \in Seq(T), Len(a) = 2, Len(b) = 2,
                 a[1] = b[1], a[2] = b[2]
          PROVE  a = b
      <4>1. \A i \in 1..Len(a) : a[i] = b[i]
        BY <3>1
      <4> QED
        BY <3>1, <4>1, SeqEqual
    <3> QED
      BY <2>3, <2>4, <2>5, <2>7, <3>1
  <2> QED
    BY <2>2, <2>3, <2>6, <2>7
<1> QED
  BY <1>1 DEF ResolvePrefix, None

\* Where a service's name is accepted, the topic is its mangled name.
LEMMA ServiceAccepted ==
  ASSUME NEW S, NEW topic \in Seq(S), NEW prefix, NEW suffix,
         DemangleServiceFromPrefixed(prefix, topic, suffix) # None
  PROVE  /\ topic[1] = prefix
         /\ topic = <<prefix>> \o DemangleServiceFromPrefixed(prefix, topic, suffix)
                      \o <<suffix>>
<1>1. PICK rest : rest = ResolvePrefix(topic, prefix)
  OBVIOUS
<1>2. rest \in Seq(S)
  BY <1>1, PrefixResolved
<1>3. PICK at : at = Rfind(rest, suffix)
  OBVIOUS
<1>4. PICK service : service = DemangleServiceFromPrefixed(prefix, topic, suffix)
  OBVIOUS
<1>5. at # 0 /\ at = Len(rest) /\ service = SubSeq(rest, 1, at - 1)
  BY <1>1, <1>3, <1>4 DEF DemangleServiceFromPrefixed
<1>6. rest[at] = suffix /\ at \in 1..Len(rest) /\ Len(rest) \in Nat
  <2>1. at \in 0..Len(rest) /\ (at # 0 => rest[at] = suffix)
    BY <1>2, <1>3, RfindIs, Zenon
  <2> QED
    BY <1>2, <1>5, <2>1
<1>7. Len(topic) >= 2 /\ topic[1] = prefix /\ rest = Tail(topic)
  <2>1. rest # None
    BY <1>2, <1>6 DEF None
  <2> QED
    BY <1>1, <2>1, PrefixResolved, Zenon
<1>8. Len(topic) = at + 1 /\ at \in Nat
      /\ \A i \in 1..at : rest[i] = topic[i + 1]
  BY <1>2, <1>5, <1>6, <1>7
<1>9. PICK mangled : mangled = <<prefix>> \o service \o <<suffix>>
  OBVIOUS
<1>10. /\ service \in Seq(S) /\ Len(service) = at - 1
       /\ \A i \in 1..at - 1 : service[i] = rest[i]
  BY <1>2, <1>5, <1>6
<1>11. prefix \in S /\ suffix \in S
  BY <1>2, <1>6, <1>7
<1>12. /\ mangled \in Seq(S) /\ Len(mangled) = at + 1
       /\ mangled[1] = prefix /\ mangled[at + 1] = suffix
       /\ \A i \in 1..at - 1 : mangled[i + 1] = service[i]
  <2>1. PICK start : start = <<prefix>> \o service
    OBVIOUS
  <2>2. /\ start \in Seq(S) /\ Len(start) = at /\ start[1] = prefix
        /\ \A i \in 1..at - 1 : start[i + 1] = service[i]
    BY <1>8, <1>10, <1>11, <2>1
  <2>3. mangled = start \o <<suffix>>
    BY <1>9, <2>1
  <2>4. /\ mangled \in Seq(S) /\ Len(mangled) = at + 1 /\ mangled[at + 1] = suffix
        /\ \A i \in 1..at : mangled[i] = start[i]
    BY <1>8, <1>11, <2>2, <2>3
  <2> QED
    BY <1>6, <1>8, <2>2, <2>4
<1>13. \A i \in 1..at + 1 : topic[i] = mangled[i]
  <2> SUFFICES ASSUME NEW i \in 1..at + 1
               PROVE  topic[i] = mangled[i]
    OBVIOUS
  <2>1. CASE i = 1
    BY <1>7, <1>12, <2>1
  <2>2. CASE i = at + 1
    BY <1>6, <1>8, <1>12, <2>2
  <2>3. CASE i - 1 \in 1..at - 1
    <3>1. PICK j \in 1..at - 1 : i = j + 1
      BY <1>8, <2>3
    <3>2. j \in 1..at
      BY <1>8
    <3>3. topic[j + 1] = rest[j] /\ service[j] = rest[j] /\ mangled[j + 1] = service[j]
      BY <1>8, <1>10, <1>12, <3>2
    <3> QED
      BY <3>1, <3>3
  <2> QED
    BY <1>8, <2>1, <2>2, <2>3
<1> QED
  BY <1>4, <1>7, <1>8, <1>9, <1>12, <1>13, SeqEqual

\* A topic is of one kind at most, for any name (graph_manager.cpp:182, 207,
\* 233, 258).
THEOREM KindsExclude == Spec => []OneKind
<1>1. Types => OneKind
  <2> SUFFICES ASSUME Types
               PROVE  OneKind
    OBVIOUS
  <2>1. name \in Seq(Tokens)
    BY DEF Types
  <2>2. DemangleRosTopicFromTopic(name) # None => name[1] = "rt"
    BY <2>1, PrefixResolved DEF DemangleRosTopicFromTopic
  <2>3. DemangleServiceRequestFromTopic(name) # None => name[1] = "rq"
    BY <2>1, ServiceAccepted DEF DemangleServiceRequestFromTopic
  <2>4. DemangleServiceReplyFromTopic(name) # None => name[1] = "rr"
    BY <2>1, ServiceAccepted DEF DemangleServiceReplyFromTopic
  <2> QED
    BY <2>2, <2>3, <2>4 DEF OneKind
<1> QED
  BY <1>1, TypesKept, PTL

\* What is taken for a service's topic is that service's mangled name, for any
\* name (demangle.cpp:82-103).
THEOREM OnlyServicesAccepted == Spec => []OnlyServices
<1>1. Types => OnlyServices
  <2> SUFFICES ASSUME Types
               PROVE  OnlyServices
    OBVIOUS
  <2>1. name \in Seq(Tokens)
    BY DEF Types
  <2>2. DemangleServiceRequestFromTopic(name) # None =>
          name = <<"rq">> \o DemangleServiceRequestFromTopic(name) \o <<"Request">>
    BY <2>1, ServiceAccepted, Zenon DEF DemangleServiceRequestFromTopic
  <2>3. DemangleServiceReplyFromTopic(name) # None =>
          name = <<"rr">> \o DemangleServiceReplyFromTopic(name) \o <<"Reply">>
    BY <2>1, ServiceAccepted, Zenon DEF DemangleServiceReplyFromTopic
  <2> QED
    BY <2>2, <2>3, Zenon DEF OnlyServices
<1> QED
  BY <1>1, TypesKept, PTL

\* The elements of a mangled name.
LEMMA Mangled ==
  ASSUME NEW S, NEW service \in Seq(S), NEW prefix \in S, NEW suffix \in S,
         NEW topic, topic = <<prefix>> \o service \o <<suffix>>,
         NEW n \in Nat, n = Len(service)
  PROVE  /\ topic \in Seq(S) /\ Len(topic) = n + 2
         /\ topic[1] = prefix /\ topic[n + 2] = suffix
         /\ \A i \in 1..n : topic[i + 1] = service[i]
<1>1. PICK start : start = <<prefix>> \o service
  OBVIOUS
<1>2. /\ start \in Seq(S) /\ Len(start) = n + 1 /\ start[1] = prefix
      /\ \A i \in 1..n : start[i + 1] = service[i]
  BY <1>1
<1>3. topic = start \o <<suffix>>
  BY <1>1
<1>4. /\ topic \in Seq(S) /\ Len(topic) = n + 2 /\ topic[n + 2] = suffix
      /\ \A i \in 1..n + 1 : topic[i] = start[i]
  BY <1>2, <1>3
<1>5. topic[1] = prefix /\ \A i \in 1..n : topic[i + 1] = service[i]
  BY <1>2, <1>4
<1> QED
  BY <1>4, <1>5

\* The mangled name of a service of the ROS names is accepted, and restored.
LEMMA ServiceRestored ==
  ASSUME NEW S, NEW service \in Seq(S), NEW prefix \in S, NEW suffix \in S,
         Len(service) >= 1, service[1] = "/"
  PROVE  DemangleServiceFromPrefixed(prefix, <<prefix>> \o service \o <<suffix>>, suffix)
           = service
<1>1. PICK topic : topic = <<prefix>> \o service \o <<suffix>>
  OBVIOUS
<1>2. PICK n \in Nat : n = Len(service) /\ n >= 1
  OBVIOUS
<1>3. /\ topic \in Seq(S) /\ Len(topic) = n + 2 /\ topic[1] = prefix
      /\ topic[2] = "/" /\ topic[n + 2] = suffix
      /\ \A i \in 1..n : topic[i + 1] = service[i]
  <2>1. /\ topic \in Seq(S) /\ Len(topic) = n + 2 /\ topic[1] = prefix
        /\ topic[n + 2] = suffix
        /\ \A i \in 1..n : topic[i + 1] = service[i]
    BY <1>1, <1>2, Mangled
  <2> QED
    BY <1>2, <2>1
<1>4. PICK rest : rest = ResolvePrefix(topic, prefix)
  OBVIOUS
<1>5. rest = Tail(topic)
  <2>1. IsPrefix(<<prefix, "/">>, topic)
    <3>1. IsPrefix(<<prefix, "/">>, topic) <=>
            Len(topic) >= 2 /\ topic[1] = prefix /\ topic[2] = "/"
      BY <1>3, PrefixResolved, Zenon
    <3> QED
      BY <1>2, <1>3, <3>1
  <2> QED
    BY <1>4, <2>1 DEF ResolvePrefix
<1>6. /\ rest \in Seq(S) /\ Len(rest) = n + 1 /\ rest[n + 1] = suffix
      /\ \A i \in 1..n : rest[i] = service[i]
  BY <1>2, <1>3, <1>5
<1>7. Rfind(rest, suffix) = n + 1
  <2>1. /\ Rfind(rest, suffix) \in 0..Len(rest)
        /\ \A i \in 1..Len(rest) : rest[i] = suffix => i <= Rfind(rest, suffix)
    BY <1>6, RfindIs, Zenon
  <2> QED
    BY <1>2, <1>6, <2>1
<1>8. SubSeq(rest, 1, n) = service
  <2>1. PICK read : read = SubSeq(rest, 1, n)
    OBVIOUS
  <2>2. /\ read \in Seq(S) /\ Len(read) = n
        /\ \A i \in 1..n : read[i] = rest[i]
    BY <1>2, <1>6, <2>1
  <2>3. \A i \in 1..n : read[i] = service[i]
    BY <1>6, <2>2
  <2> QED
    BY <1>2, <2>1, <2>2, <2>3, SeqEqual
<1> QED
  <2>1. DemangleServiceFromPrefixed(prefix, topic, suffix) = SubSeq(rest, 1, n + 1 - 1)
    BY <1>2, <1>4, <1>6, <1>7 DEF DemangleServiceFromPrefixed
  <2>2. n + 1 - 1 = n
    BY <1>2
  <2> QED
    BY <1>1, <1>8, <2>1, <2>2

\* A service keeps its name over its two topics, for any name, the suffixes
\* inside it or not (demangle.cpp:71-104).
THEOREM ServiceNamesArrive == Spec => []ServicesRestored
<1>1. Types => ServicesRestored
  <2> SUFFICES ASSUME Types
               PROVE  ServicesRestored
    OBVIOUS
  <2>1. PICK S : S = Tokens \union {"/", "rq", "rr", "Request", "Reply"}
    OBVIOUS
  <2>2. PICK service : service = <<"/">> \o name
    OBVIOUS
  <2>3. service \in Seq(S) /\ Len(service) >= 1 /\ service[1] = "/"
    <3>1. name \in Seq(S)
      BY <2>1 DEF Types
    <3> QED
      BY <2>1, <2>2, <3>1
  <2>4. "rq" \in S /\ "rr" \in S /\ "Request" \in S /\ "Reply" \in S
    BY <2>1
  <2>5. PICK request \in Seq(S) : /\ request = <<"rq">> \o service \o <<"Request">>
                                  /\ request[1] = "rq"
    <3>1. PICK request : request = <<"rq">> \o service \o <<"Request">>
      OBVIOUS
    <3>2. PICK n \in Nat : n = Len(service)
      BY <2>3
    <3>3. request \in Seq(S) /\ request[1] = "rq"
      BY <2>3, <2>4, <3>1, <3>2, Mangled
    <3> QED
      BY <3>1, <3>3
  <2>6. PICK reply : reply = <<"rr">> \o service \o <<"Reply">>
    OBVIOUS
  <2>7. DemangleServiceRequestFromTopic(request) = service
    BY <2>3, <2>4, <2>5, ServiceRestored, Zenon DEF DemangleServiceRequestFromTopic
  <2>8. DemangleServiceReplyFromTopic(reply) = service
    BY <2>3, <2>4, <2>6, ServiceRestored, Zenon DEF DemangleServiceReplyFromTopic
  <2>9. DemangleServiceReplyFromTopic(request) = None
    <3> SUFFICES ASSUME DemangleServiceReplyFromTopic(request) # None
                 PROVE  FALSE
      OBVIOUS
    <3>1. request[1] = "rr"
      BY ServiceAccepted, Zenon DEF DemangleServiceReplyFromTopic
    <3> QED
      BY <2>5, <3>1
  <2>10. service # None
    BY <2>3 DEF None
  <2>11. DemangleServiceFromTopic(request) = service
         /\ DemangleServiceFromTopic(reply) = service
    BY <2>7, <2>8, <2>9, <2>10 DEF DemangleServiceFromTopic
  <2> QED
    BY <2>2, <2>5, <2>6, <2>7, <2>8, <2>11, Zenon DEF ServicesRestored
<1> QED
  BY <1>1, TypesKept, PTL

-----------------------------------------------------------------------------
(***************************************************************************)
(* Command line.                                                           *)
(***************************************************************************)
LEMMA FlagIs ==
  ASSUME NEW S, NEW args \in Seq(S)
  PROVE  /\ FlagPosition(args) \in 1..Len(args) + 1
         /\ FlagPosition(args) <= Len(args) => args[FlagPosition(args)] = RosArgs
         /\ \A i \in 1..Len(args) : args[i] = RosArgs => FlagPosition(args) <= i
<1> DEFINE I == {i \in 1..Len(args) : args[i] = RosArgs}
<1>1. FlagPosition(args) = IF I # {} THEN IF Min(I) = 0 THEN Len(args) + 1 ELSE Min(I)
                                     ELSE Len(args) + 1
  BY DEF FlagPosition, SelectInSeq
<1>2. I \subseteq Nat /\ Len(args) \in Nat
  OBVIOUS
<1>3. CASE I # {}
  <2>1. Min(I) \in I /\ \A i \in I : Min(I) <= i
    BY <1>2, <1>3, MinIs
  <2>2. Min(I) \in 1..Len(args) /\ args[Min(I)] = RosArgs
    BY <2>1
  <2>3. FlagPosition(args) = Min(I)
    BY <1>1, <1>3, <2>2
  <2>4. \A i \in 1..Len(args) : args[i] = RosArgs => FlagPosition(args) <= i
    BY <2>1, <2>3
  <2> QED
    BY <1>2, <2>2, <2>3, <2>4
<1>4. CASE I = {}
  <2>1. FlagPosition(args) = Len(args) + 1
    BY <1>1, <1>4
  <2>2. \A i \in 1..Len(args) : args[i] # RosArgs
    BY <1>4
  <2> QED
    BY <1>2, <2>1, <2>2
<1> QED
  BY <1>3, <1>4

\* The arguments before the first --ros-args all arrive, in their order, and
\* the branch that may refuse them is never taken (main.cpp:30-39, 85).
THEOREM ArgumentsArrive == Spec => []ArgumentsKept
<1>1. Types => ArgumentsKept
  <2> SUFFICES ASSUME Types
               PROVE  ArgumentsKept
    OBVIOUS
  <2>1. PICK S : S = Seq(Pieces)
    OBVIOUS
  <2>2. PICK n \in Nat : n = Len(argv) /\ argv \in Seq(S)
    <3>1. argv \in Seq(S)
      BY <2>1 DEF Types
    <3> QED
      BY <3>1
  <2>3. PICK flag : flag = FlagPosition(argv)
    OBVIOUS
  <2>4. /\ flag \in 1..n + 1
        /\ flag <= n => argv[flag] = RosArgs
        /\ \A i \in 1..n : argv[i] = RosArgs => flag <= i
    BY <2>2, <2>3, FlagIs
  <2>5. PICK params : params = SubSeq(argv, 1, flag - 1)
    OBVIOUS
  <2>6. /\ params \in Seq(S) /\ Len(params) = flag - 1
        /\ \A i \in 1..flag - 1 : params[i] = argv[i] /\ params[i] # RosArgs
    BY <2>2, <2>4, <2>5
  <2>7. FlagPosition(params) = flag
    <3>1. /\ FlagPosition(params) \in 1..Len(params) + 1
          /\ FlagPosition(params) <= Len(params) => params[FlagPosition(params)] = RosArgs
      BY <2>6, FlagIs, Zenon
    <3> QED
      BY <2>2, <2>4, <2>6, <3>1
  <2>8. CreateArguments(argv) = params
    <3>1. Params(argv) = params /\ SubSeq(argv, 1, Argc(argv)) = params
      BY <2>3, <2>5 DEF Params, Argc
    <3>2. ~(FlagPosition(params) <= Len(params))
      BY <2>2, <2>4, <2>6, <2>7
    <3> QED
      BY <3>1, <3>2 DEF CreateArguments
  <2>9. params # Refused
    <3>1. n >= 1 /\ argv[1] # RosArgs
      BY <2>2 DEF Types, RosArgs
    <3>2. flag # 1
      BY <2>4, <3>1
    <3> QED
      BY <2>4, <2>6, <3>2 DEF Refused
  <2>10. IsPrefix(params, argv)
    <3>1. SubSeq(params, 1, Len(params)) = params
      BY <2>6
    <3>2. SubSeq(argv, 1, Len(params)) = params
      BY <2>5, <2>6
    <3> QED
      BY <2>2, <2>4, <2>6, <3>1, <3>2 DEF IsPrefix
  <2>11. params # argv => argv[Len(params) + 1] = RosArgs
    <3>1. CASE flag = n + 1
      <4>1. params = argv
        BY <2>2, <2>6, <3>1, SeqEqual
      <4> QED
        BY <4>1
    <3>2. CASE flag \in 1..n
      BY <2>2, <2>4, <2>6, <3>2
    <3> QED
      BY <2>2, <2>4, <3>1, <3>2
  <2> QED
    BY <2>6, <2>8, <2>9, <2>10, <2>11 DEF ArgumentsKept
<1> QED
  BY <1>1, TypesKept, PTL

-----------------------------------------------------------------------------
(***************************************************************************)
(* Types.                                                                  *)
(***************************************************************************)

Unmarked(namespace) == \A i \in 1..Len(namespace) : namespace[i] # "dds_::"

\* Where the parts of a mangled type name are.
Parted(type, m, namespace, n, typeName, end) ==
  /\ Len(type) = m + n + 2
  /\ Find(type, "dds_::") = m + 1
  /\ SubSeq(type, 1, m) = namespace
  /\ SubSeq(type, m + 2, m + n + 1) = typeName
  /\ type[m + n + 2] = end

\* The parts of a mangled type name, whatever the type's own name contains.
LEMMA TypeParts ==
  ASSUME NEW S, NEW namespace \in Seq(S), NEW typeName \in Seq(S), NEW end \in S,
         "dds_::" \in S,
         NEW m \in Nat, m = Len(namespace), NEW n \in Nat, n = Len(typeName),
         Unmarked(namespace),
         NEW type, type = namespace \o <<"dds_::">> \o typeName \o <<end>>
  PROVE  type \in Seq(S) /\ Parted(type, m, namespace, n, typeName, end)
<1>1. PICK start : start = namespace \o <<"dds_::">>
  OBVIOUS
<1>2. /\ start \in Seq(S) /\ Len(start) = m + 1 /\ start[m + 1] = "dds_::"
      /\ \A i \in 1..m : start[i] = namespace[i]
  BY <1>1
<1>3. PICK named : named = start \o typeName
  OBVIOUS
<1>4. /\ named \in Seq(S) /\ Len(named) = m + n + 1
      /\ \A i \in 1..m + 1 : named[i] = start[i]
      /\ \A i \in 1..n : named[m + 1 + i] = typeName[i]
  <2>1. /\ named \in Seq(S) /\ Len(named) = Len(start) + Len(typeName)
        /\ \A i \in 1..Len(start) : named[i] = start[i]
        /\ \A i \in 1..Len(typeName) : named[Len(start) + i] = typeName[i]
    <3>1. /\ named \in Seq(S) /\ Len(named) = Len(start) + Len(typeName)
          /\ \A i \in 1..Len(start) + Len(typeName) :
               named[i] = IF i <= Len(start) THEN start[i] ELSE typeName[i - Len(start)]
      BY <1>2, <1>3, ConcatProperties, Zenon
    <3>2. Len(start) \in Nat /\ Len(typeName) \in Nat
      BY <1>2
    <3>3. \A i \in 1..Len(start) : named[i] = start[i]
      BY <3>1, <3>2
    <3>4. ASSUME NEW i \in 1..Len(typeName)
          PROVE  named[Len(start) + i] = typeName[i]
      <4>1. PICK j \in Nat : j = Len(start) + i
        BY <3>2
      <4>2. j \in 1..Len(start) + Len(typeName) /\ ~(j <= Len(start)) /\ j - Len(start) = i
        BY <3>2, <4>1
      <4>3. named[j] = typeName[j - Len(start)]
        BY <3>1, <4>2
      <4> QED
        BY <4>1, <4>2, <4>3
    <3> QED
      BY <3>1, <3>3, <3>4
  <2>2. Len(start) + Len(typeName) = m + n + 1
    BY <1>2
  <2> QED
    BY <1>2, <2>1, <2>2
<1>5. type = named \o <<end>>
  BY <1>1, <1>3
<1>6. /\ type \in Seq(S) /\ Len(type) = m + n + 2 /\ type[m + n + 2] = end
      /\ \A i \in 1..m + n + 1 : type[i] = named[i]
  BY <1>4, <1>5
<1>7. \A i \in 1..m : namespace[i] # "dds_::"
  BY DEF Unmarked
<1>8. /\ type[m + 1] = "dds_::"
      /\ \A i \in 1..m : type[i] = namespace[i]
      /\ \A i \in 1..n : type[m + 1 + i] = typeName[i]
  <2>1. type[m + 1] = "dds_::" /\ \A i \in 1..m : type[i] = namespace[i]
    BY <1>2, <1>4, <1>6
  <2>2. ASSUME NEW i \in 1..n
        PROVE  type[m + 1 + i] = typeName[i]
    <3>1. PICK j \in 1..m + n + 1 : j = m + 1 + i
      OBVIOUS
    <3>2. type[j] = named[j] /\ named[m + 1 + i] = typeName[i]
      BY <1>4, <1>6
    <3> QED
      BY <3>1, <3>2
  <2> QED
    BY <2>1, <2>2
<1>9. Find(type, "dds_::") = m + 1
  <2>1. PICK at : at = Find(type, "dds_::")
    OBVIOUS
  <2>2. /\ at \in 0..Len(type)
        /\ at # 0 => type[at] = "dds_::"
        /\ \A i \in 1..Len(type) : type[i] = "dds_::" => at # 0 /\ at <= i
    BY <1>6, <2>1, FindIs, Zenon
  <2>3. at # 0 /\ at <= m + 1
    <3>1. m + 1 \in 1..Len(type)
      BY <1>6
    <3> QED
      BY <1>8, <2>2, <3>1
  <2>4. at \notin 1..m
    BY <1>7, <1>8, <2>2, <2>3
  <2> QED
    BY <1>6, <2>1, <2>2, <2>3, <2>4
<1>10. SubSeq(type, 1, m) = namespace
  <2>1. PICK read : read = SubSeq(type, 1, m)
    OBVIOUS
  <2>2. read \in Seq(S) /\ Len(read) = m /\ \A i \in 1..m : read[i] = type[i]
    BY <1>6, <2>1
  <2>3. \A i \in 1..m : read[i] = namespace[i]
    BY <1>8, <2>2
  <2> QED
    BY <2>1, <2>2, <2>3, SeqEqual
<1>11. SubSeq(type, m + 2, m + n + 1) = typeName
  <2>1. PICK read : read = SubSeq(type, m + 2, m + n + 1)
    OBVIOUS
  <2>2. read \in Seq(S) /\ Len(read) = n /\ \A i \in 1..n : read[i] = type[m + 1 + i]
    <3>1. \A i \in m + 2..m + n + 1 : type[i] \in S
      BY <1>6
    <3>2. /\ read \in Seq(S)
          /\ Len(read) = IF m + 2 <= m + n + 1 THEN m + n + 1 - (m + 2) + 1 ELSE 0
          /\ \A i \in 1..m + n + 1 - (m + 2) + 1 : read[i] = type[m + 2 + i - 1]
      BY <2>1, <3>1, SubSeqProperties
    <3>3. m + n + 1 - (m + 2) + 1 = n
      OBVIOUS
    <3>4. \A i \in 1..n : read[i] = type[m + 1 + i]
      <4> SUFFICES ASSUME NEW i \in 1..n
                   PROVE  read[i] = type[m + 1 + i]
        OBVIOUS
      <4>1. m + 2 + i - 1 = m + 1 + i
        OBVIOUS
      <4> QED
        BY <3>2, <3>3, <4>1
    <3> QED
      BY <3>2, <3>4
  <2>3. \A i \in 1..n : read[i] = typeName[i]
    BY <1>8, <2>2
  <2> QED
    BY <2>1, <2>2, <2>3, SeqEqual
<1> QED
  BY <1>6, <1>9, <1>10, <1>11 DEF Parted

Restored(type, namespace, typeName, end) ==
  DemangleIfRosType(type) =
    ReplaceAll(namespace, "::", "/") \o typeName \o Terminated[end]

\* A type that ends in an underscore, with the marker of DDS after its namespace.
LEMMA TypeRestored ==
  ASSUME NEW S, NEW namespace \in Seq(S), NEW typeName \in Seq(S),
         NEW end \in S, end \in DOMAIN Terminated, "dds_::" \in S,
         Unmarked(namespace),
         NEW type, type = namespace \o <<"dds_::">> \o typeName \o <<end>>
  PROVE  Restored(type, namespace, typeName, end)
<1>1. PICK m \in Nat, n \in Nat : m = Len(namespace) /\ n = Len(typeName)
  OBVIOUS
<1>2. /\ type \in Seq(S) /\ Len(type) = m + n + 2
      /\ Find(type, "dds_::") = m + 1
      /\ SubSeq(type, 1, m) = namespace
      /\ SubSeq(type, m + 2, m + n + 1) = typeName
      /\ type[m + n + 2] = end
  <2>1. type \in Seq(S) /\ Parted(type, m, namespace, n, typeName, end)
    BY <1>1, TypeParts
  <2> QED
    BY <2>1 DEF Parted
<1>3. Last(type) = end
  BY <1>2 DEF Last
<1>4. TypeNamespace(type, m + 1) = ReplaceAll(namespace, "::", "/")
  <2>1. (m + 1) - 1 = m
    OBVIOUS
  <2>2. SubSeq(type, 1, (m + 1) - 1) = namespace
    BY <1>2, <2>1, Zenon
  <2> QED
    BY <2>2, Zenon DEF TypeNamespace
<1>5. SubSeq(type, m + 1 + 1, Len(type) - 1) = typeName
  <2>1. m + 1 + 1 = m + 2 /\ Len(type) - 1 = m + n + 1
    BY <1>2
  <2> QED
    BY <1>2, <2>1
<1>6. m + 1 # 0
  OBVIOUS
<1> QED
  BY <1>2, <1>3, <1>4, <1>5, <1>6, Zenon DEF Restored, DemangleIfRosType

\* The namespaces of the types: "::" written "/".
LEMMA NamespaceWritten ==
  /\ ReplaceAll(<<"package", "::", "msg", "::">>, "::", "/") = <<"package", "/", "msg", "/">>
  /\ ReplaceAll(<<"package", "::", "srv", "::">>, "::", "/") = <<"package", "/", "srv", "/">>
  /\ ReplaceAll(<<"package", "::">>, "::", "/") = <<"package", "/">>
  /\ ReplaceAll(<<>>, "::", "/") = <<>>
BY DEF ReplaceAll

\* A sequence and one element more.
LEMMA Extended ==
  ASSUME NEW T, NEW s \in Seq(T), NEW t \in T, NEW n \in Nat, Len(s) = n,
         NEW longer \in Seq(T), Len(longer) = n + 1, longer[n + 1] = t,
         \A i \in 1..n : longer[i] = s[i]
  PROVE  s \o <<t>> = longer
<1>1. PICK whole : whole = s \o <<t>>
  OBVIOUS
<1>2. /\ whole \in Seq(T) /\ Len(whole) = n + 1 /\ whole[n + 1] = t
      /\ \A i \in 1..n : whole[i] = s[i]
  BY <1>1
<1>3. \A i \in 1..n + 1 : whole[i] = longer[i]
  BY <1>2
<1> QED
  BY <1>1, <1>2, <1>3, SeqEqual

\* A type is published under its ROS name, for any name of a type
\* (graph_typesupport.cpp:35-44, demangle.cpp:40-63).
THEOREM TypesArrive == Spec => []TypesRestored
<1>1. Types => TypesRestored
  <2> SUFFICES ASSUME Types
               PROVE  TypesRestored
    OBVIOUS
  <2>1. PICK S : S = Tokens \union {"package", "::", "/", "msg", "srv", "dds_::", "_", "_Request_"}
    OBVIOUS
  <2>2. name \in Seq(S) /\ <<>> \in Seq(S)
    <3>1. Tokens \subseteq S
      BY <2>1
    <3>2. name \in Seq(Tokens)
      BY DEF Types
    <3> QED
      BY <3>1, <3>2, SeqMonotonic
  <2>3. "dds_::" \in S /\ "_" \in S /\ "_Request_" \in S
    BY <2>1
  <2>4. /\ "_" \in DOMAIN Terminated /\ Terminated["_"] = <<>>
        /\ "_Request_" \in DOMAIN Terminated /\ Terminated["_Request_"] = <<"_Request">>
    BY DEF Terminated
  <2>5. PICK msg \in Seq(S) : /\ msg = <<"package", "::", "msg", "::">>
                              /\ Unmarked(msg)
    <3>1. PICK msg : msg = <<"package", "::", "msg", "::">>
      OBVIOUS
    <3>2. Len(msg) = 4 /\ msg[1] = "package" /\ msg[2] = "::"
          /\ msg[3] = "msg" /\ msg[4] = "::"
      BY <3>1
    <3>3. Unmarked(msg)
      BY <3>2 DEF Unmarked
    <3>4. msg \in Seq({"package", "::", "msg"})
      BY <3>1
    <3>5. msg \in Seq(S)
      <4>1. {"package", "::", "msg"} \subseteq S
        BY <2>1
      <4> QED
        BY <3>4, <4>1, SeqMonotonic
    <3> QED
      BY <3>1, <3>3, <3>5
  <2>6. PICK srv \in Seq(S) : /\ srv = <<"package", "::", "srv", "::">>
                              /\ Unmarked(srv)
    <3>1. PICK srv : srv = <<"package", "::", "srv", "::">>
      OBVIOUS
    <3>2. Len(srv) = 4 /\ srv[1] = "package" /\ srv[2] = "::"
          /\ srv[3] = "srv" /\ srv[4] = "::"
      BY <3>1
    <3>3. Unmarked(srv)
      BY <3>2 DEF Unmarked
    <3>4. srv \in Seq({"package", "::", "srv"})
      BY <3>1
    <3>5. srv \in Seq(S)
      <4>1. {"package", "::", "srv"} \subseteq S
        BY <2>1
      <4> QED
        BY <3>4, <4>1, SeqMonotonic
    <3> QED
      BY <3>1, <3>3, <3>5
  <2>7. DemangleIfRosType(TypeName(<<"package", "::", "msg">>, name)) =
          <<"package", "/", "msg", "/">> \o name
    <3>1. TypeName(<<"package", "::", "msg">>, name) =
            msg \o <<"dds_::">> \o name \o <<"_">>
      <4>1. <<"package", "::", "msg">> # <<>>
        OBVIOUS
      <4>2. <<"package", "::", "msg">> \o <<"::">> = <<"package", "::", "msg", "::">>
        <5>1. PICK first : first = <<"package", "::", "msg">>
          OBVIOUS
        <5>2. PICK T : T = {"package", "::", "msg"}
          OBVIOUS
        <5>3. first \in Seq(T) /\ msg \in Seq(T) /\ "::" \in T
          <6>1. first \in Seq({"package", "::", "msg"})
            BY <5>1
          <6>2. msg \in Seq({"package", "::", "msg"})
            BY <2>5
          <6> QED
            BY <5>2, <6>1, <6>2
        <5>4. Len(first) = 3 /\ Len(msg) = 3 + 1 /\ msg[3 + 1] = "::"
              /\ \A i \in 1..3 : msg[i] = first[i]
          <6>1. /\ Len(first) = 3
                /\ first[1] = "package" /\ first[2] = "::" /\ first[3] = "msg"
            BY <5>1
          <6>2. /\ Len(msg) = 4 /\ msg[1] = "package" /\ msg[2] = "::"
                /\ msg[3] = "msg" /\ msg[4] = "::"
            BY <2>5
          <6> QED
            BY <6>1, <6>2
        <5>5. first \o <<"::">> = msg
          BY <5>3, <5>4, Extended, ZenonT(60)
        <5> QED
          BY <2>5, <5>1, <5>5, Zenon
      <4> QED
        BY <2>5, <4>1, <4>2, Zenon DEF TypeName
    <3>2. DemangleIfRosType(TypeName(<<"package", "::", "msg">>, name)) =
            ReplaceAll(msg, "::", "/") \o name \o Terminated["_"]
      <4>1. PICK type : type = msg \o <<"dds_::">> \o name \o <<"_">>
        OBVIOUS
      <4>2. Restored(type, msg, name, "_")
        BY <2>2, <2>3, <2>4, <2>5, <4>1, TypeRestored
      <4> QED
        BY <3>1, <4>1, <4>2, Zenon DEF Restored
    <3>3. PICK whole \in Seq(S) : whole = <<"package", "/", "msg", "/">> \o name
      <4>1. <<"package", "/", "msg", "/">> \in Seq({"package", "/", "msg"})
        OBVIOUS
      <4>2. {"package", "/", "msg"} \subseteq S
        BY <2>1
      <4>3. <<"package", "/", "msg", "/">> \in Seq(S)
        BY <4>1, <4>2, SeqMonotonic
      <4>4. <<"package", "/", "msg", "/">> \o name \in Seq(S)
        BY <2>2, <4>3, ConcatProperties, Zenon
      <4> QED
        BY <4>4, Zenon
    <3>4. whole \o <<>> = whole
      BY <3>3
    <3> QED
      BY <2>4, <2>5, <3>2, <3>3, <3>4, NamespaceWritten, Zenon
  <2>8. DemangleIfRosType(TypeName(<<>>, name)) = name
    <3>1. TypeName(<<>>, name) = <<>> \o <<"dds_::">> \o name \o <<"_">>
      BY DEF TypeName
    <3>2. Unmarked(<<>>)
      BY DEF Unmarked
    <3>3. DemangleIfRosType(TypeName(<<>>, name)) =
            ReplaceAll(<<>>, "::", "/") \o name \o Terminated["_"]
      <4>1. PICK type : type = <<>> \o <<"dds_::">> \o name \o <<"_">>
        OBVIOUS
      <4>2. Restored(type, <<>>, name, "_")
        BY <2>2, <2>3, <2>4, <3>2, <4>1, TypeRestored
      <4> QED
        BY <3>1, <4>1, <4>2, Zenon DEF Restored
    <3>4. <<>> \o name \o <<>> = name
      BY <2>2
    <3> QED
      BY <2>4, <3>3, <3>4, NamespaceWritten, Zenon
  <2>9. DemangleIfRosType(<<"package", "::", "srv", "::", "dds_::">> \o name \o <<"_Request_">>) =
          <<"package", "/", "srv", "/">> \o name \o <<"_Request">>
    <3>1. <<"package", "::", "srv", "::", "dds_::">> = srv \o <<"dds_::">>
      BY <2>6
    <3>2. DemangleIfRosType(srv \o <<"dds_::">> \o name \o <<"_Request_">>) =
            ReplaceAll(srv, "::", "/") \o name \o Terminated["_Request_"]
      <4>1. PICK type : type = srv \o <<"dds_::">> \o name \o <<"_Request_">>
        OBVIOUS
      <4>2. Restored(type, srv, name, "_Request_")
        BY <2>2, <2>3, <2>4, <2>6, <4>1, TypeRestored
      <4> QED
        BY <4>1, <4>2, Zenon DEF Restored
    <3> QED
      BY <2>4, <2>6, <3>1, <3>2, NamespaceWritten, Zenon
  <2> QED
    BY <2>7, <2>8, <2>9, Zenon DEF TypesRestored
<1> QED
  BY <1>1, TypesKept, PTL

\* Servers and clients agree on the type of their service, for any name of a
\* type (demangle.cpp:130-179).
THEOREM ServiceTypesArrive == Spec => []ServiceTypesAgree
<1>1. Types => ServiceTypesAgree
  <2> SUFFICES ASSUME Types, NEW suffix \in {"_Request_", "_Response_"}
               PROVE  DemangleServiceTypeOnly(<<"package", "::", "dds_::">> \o name \o <<suffix>>)
                        = <<"package", "/">> \o name
    BY Zenon DEF ServiceTypesAgree
  <2>1. PICK S : S = Tokens \union {"package", "::", "dds_::", "_Request_", "_Response_"}
    OBVIOUS
  <2>2. name \in Seq(S)
    <3>1. Tokens \subseteq S
      BY <2>1
    <3>2. name \in Seq(Tokens)
      BY DEF Types
    <3> QED
      BY <3>1, <3>2, SeqMonotonic
  <2>3. "dds_::" \in S /\ suffix \in S
    BY <2>1
  <2>4. PICK namespace \in Seq(S) : /\ namespace = <<"package", "::">>
                                    /\ Len(namespace) = 2
                                    /\ Unmarked(namespace)
    <3>1. PICK namespace : namespace = <<"package", "::">>
      OBVIOUS
    <3>2. Len(namespace) = 2 /\ namespace[1] = "package" /\ namespace[2] = "::"
      BY <3>1
    <3>3. namespace \in Seq({"package", "::"})
      BY <3>1
    <3>4. Unmarked(namespace)
      BY <3>2 DEF Unmarked
    <3>5. namespace \in Seq(S)
      <4>1. {"package", "::"} \subseteq S
        BY <2>1
      <4> QED
        BY <3>3, <4>1, SeqMonotonic
    <3> QED
      BY <3>1, <3>2, <3>4, <3>5
  <2>5. PICK n \in Nat : n = Len(name)
    BY <2>2
  <2>6. PICK type : type = <<"package", "::", "dds_::">> \o name \o <<suffix>>
    OBVIOUS
  <2>7. type = namespace \o <<"dds_::">> \o name \o <<suffix>>
    <3>1. <<"package", "::", "dds_::">> = namespace \o <<"dds_::">>
      BY <2>4
    <3> QED
      BY <2>6, <3>1
  <2>8. /\ type \in Seq(S) /\ Len(type) = 2 + n + 2
        /\ Find(type, "dds_::") = 2 + 1
        /\ SubSeq(type, 1, 2) = namespace
        /\ SubSeq(type, 2 + 2, 2 + n + 1) = name
        /\ type[2 + n + 2] = suffix
    <3>1. type \in Seq(S) /\ Parted(type, 2, namespace, n, name, suffix)
      BY <2>2, <2>3, <2>4, <2>5, <2>7, TypeParts, ZenonT(60)
    <3> QED
      BY <3>1 DEF Parted
  <2>9. /\ Len(type) = n + 4 /\ Find(type, "dds_::") = 3
        /\ SubSeq(type, 4, n + 3) = name /\ type[n + 4] = suffix
    <3>1. 2 + n + 2 = n + 4 /\ 2 + n + 1 = n + 3
      OBVIOUS
    <3> QED
      BY <2>8, <3>1
  <2>10. SuffixPosition(type) = n + 4
    <3>1. \A t : /\ Rfind(type, t) \in 0..Len(type)
                 /\ Rfind(type, t) # 0 => type[Rfind(type, t)] = t
                 /\ \A i \in 1..Len(type) : type[i] = t => i <= Rfind(type, t)
      BY <2>8, RfindIs, Zenon
    <3>2. Rfind(type, suffix) = n + 4
      BY <2>9, <3>1
    <3>3. CASE suffix = "_Response_"
      BY <2>9, <3>2, <3>3 DEF SuffixPosition
    <3>4. CASE suffix = "_Request_"
      <4>1. Rfind(type, "_Response_") # Len(type)
        BY <2>9, <3>1, <3>4
      <4> QED
        BY <3>2, <3>4, <4>1 DEF SuffixPosition
    <3> QED
      BY <3>3, <3>4
  <2>11. TypeNamespace(type, 3) = <<"package", "/">>
    <3>1. SubSeq(type, 1, 3 - 1) = <<"package", "::">>
      BY <2>4, <2>8
    <3> QED
      BY <3>1, NamespaceWritten, Zenon DEF TypeNamespace
  <2>12. DemangleServiceTypeOnly(type) = TypeNamespace(type, 3) \o SubSeq(type, 3 + 1, (n + 4) - 1)
    <3>1. 3 # 0 /\ n + 4 # 0 /\ n + 4 > 3
      OBVIOUS
    <3> QED
      BY <2>9, <2>10, <3>1, Zenon DEF DemangleServiceTypeOnly
  <2>13. SubSeq(type, 3 + 1, (n + 4) - 1) = name
    <3>1. 3 + 1 = 4 /\ (n + 4) - 1 = n + 3
      OBVIOUS
    <3> QED
      BY <2>9, <3>1
  <2> QED
    BY <2>6, <2>11, <2>12, <2>13
<1> QED
  BY <1>1, TypesKept, PTL

\* A service type is cut at a suffix or not at all, for any tokens and any
\* length, wherever the suffixes are (demangle.cpp:137-179).
THEOREM ServiceTypesAreCut == Spec => []ServiceTypesCut
<1>1. Types => ServiceTypesCut
  <2> DEFINE at     == Find(name, "dds_::")
             suffix == SuffixPosition(name)
             last   == IF suffix > at THEN suffix - 1 ELSE Len(name)
             result == DemangleServiceTypeOnly(name)
  <2> SUFFICES ASSUME Types, result # None
               PROVE  \E end \in at..Len(name) :
                        /\ result = TypeNamespace(name, at) \o SubSeq(name, at + 1, end)
                        /\ end < Len(name) => name[end + 1] \in {"_Request_", "_Response_"}
    BY Zenon DEF ServiceTypesCut
  <2>1. name \in Seq(Tokens) /\ Len(name) \in Nat
    BY DEF Types
  <2>2. at \in 0..Len(name)
    BY <2>1, FindIs, Zenon
  <2>3. suffix \in 0..Len(name)
        /\ (suffix # 0 => name[suffix] \in {"_Request_", "_Response_"})
    <3>1. \A t : /\ Rfind(name, t) \in 0..Len(name)
                 /\ Rfind(name, t) # 0 => name[Rfind(name, t)] = t
      BY <2>1, RfindIs, Zenon
    <3> QED
      BY <2>1, <3>1 DEF SuffixPosition
  <2>4. result = TypeNamespace(name, at) \o SubSeq(name, at + 1, last)
    BY Zenon DEF DemangleServiceTypeOnly
  <2>5. last \in at..Len(name)
        /\ (last < Len(name) => name[last + 1] \in {"_Request_", "_Response_"})
    <3> HIDE DEF at, suffix, result
    <3>1. CASE suffix > at
      BY <2>1, <2>2, <2>3, <3>1
    <3>2. CASE ~(suffix > at)
      BY <2>1, <2>2, <3>2
    <3> QED
      BY <3>1, <3>2
  <2> HIDE DEF at, result, last
  <2> QED
    BY <2>4, <2>5, Zenon
<1> QED
  BY <1>1, TypesKept, PTL

-----------------------------------------------------------------------------
(***************************************************************************)
(* Node names.  The two loops of get_name_and_namespace are functions that *)
(* are defined recursively: they exist, and they are followed character by *)
(* character and segment by segment.                                       *)
(***************************************************************************)
LEMMA UpTo ==
  ASSUME NEW n \in Nat, NEW I, 0 \in I,
         \A i \in 0..n : i < n /\ i \in I => i + 1 \in I
  PROVE  \A i \in 0..n : i \in I
<1> DEFINE Missing == {i \in 0..n : i \notin I}
<1>1. SUFFICES ASSUME Missing # {} PROVE FALSE
  OBVIOUS
<1>2. PICK m \in Missing : \A i \in Missing : m <= i
  <2>1. Missing \subseteq Nat
    OBVIOUS
  <2> HIDE DEF Missing
  <2> QED
    BY <1>1, <2>1, LeastNumber
<1>3. m - 1 \in 0..n /\ m - 1 < n /\ (m - 1) + 1 = m
  BY <1>2
<1>4. m - 1 \notin I
  BY <1>2, <1>3
<1> QED
  BY <1>2, <1>3, <1>4

\* What std::getline has read after so many characters of s.
Reading(s) ==
  CHOOSE r : r = [i \in 0..Len(s) |->
                    IF i = 0 THEN [done |-> <<>>, token |-> <<>>]
                    ELSE Read(r[i - 1], s[i])]

LEMMA ReadingIs ==
  ASSUME NEW S, NEW s \in Seq(S)
  PROVE  /\ Reading(s)[0] = [done |-> <<>>, token |-> <<>>]
         /\ \A i \in 0..Len(s) : i < Len(s) =>
              Reading(s)[i + 1] = Read(Reading(s)[i], s[i + 1])
<1> DEFINE start == [done |-> <<>>, token |-> <<>>]
           Is(n, r) == r = [i \in 0..n |-> IF i = 0 THEN start ELSE Read(r[i - 1], s[i])]
           I == {n \in Nat : \E r : Is(n, r)}
<1>1. Len(s) \in Nat
  OBVIOUS
<1>2. 0 \in I
  <2> DEFINE r0 == [i \in 0..0 |-> start]
  <2>1. Is(0, r0)
    OBVIOUS
  <2> QED
    BY <2>1
<1>3. ASSUME NEW n \in Nat, n \in I
      PROVE  n + 1 \in I
  <2>1. PICK r : Is(n, r)
    BY <1>3
  <2> DEFINE q == [i \in 0..n + 1 |-> IF i = n + 1 THEN Read(r[n], s[n + 1]) ELSE r[i]]
  <2>2. \A i \in 0..n : q[i] = r[i]
    OBVIOUS
  <2>3. \A i \in 0..n : r[i] = IF i = 0 THEN start ELSE Read(r[i - 1], s[i])
    BY <2>1
  <2> HIDE DEF start
  <2>4. ASSUME NEW i \in 0..n + 1
        PROVE  q[i] = IF i = 0 THEN start ELSE Read(q[i - 1], s[i])
    <3>1. CASE i = n + 1
      <4>1. i # 0 /\ i - 1 = n /\ n \in 0..n
        BY <3>1
      <4>2. q[i] = Read(r[n], s[n + 1])
        BY <3>1
      <4> HIDE DEF q
      <4> QED
        BY <2>2, <3>1, <4>1, <4>2
    <3>2. CASE i \in 0..n /\ i # 0
      <4>1. i - 1 \in 0..n
        BY <3>2
      <4> HIDE DEF q
      <4> QED
        BY <2>2, <2>3, <3>2, <4>1
    <3>3. CASE i = 0
      <4> HIDE DEF q
      <4> QED
        BY <2>2, <2>3, <3>3
    <3> QED
      BY <3>1, <3>2, <3>3
  <2>5. Is(n + 1, q)
    <3>1. q = [i \in 0..n + 1 |-> q[i]]
      OBVIOUS
    <3> HIDE DEF q
    <3> QED
      BY <2>4, <3>1
  <2>6. \E w : Is(n + 1, w)
    <3> HIDE DEF q, Is
    <3> QED
      BY <2>5
  <2> HIDE DEF q, Is
  <2> QED
    BY <2>6
<1>4. Len(s) \in I
  <2>1. \A i \in 0..Len(s) : i < Len(s) /\ i \in I => i + 1 \in I
    BY <1>3
  <2> HIDE DEF I
  <2>2. \A i \in 0..Len(s) : i \in I
    BY <1>1, <1>2, <2>1, UpTo, Zenon
  <2> QED
    BY <1>1, <2>2
<1>5. Is(Len(s), Reading(s))
  BY <1>4 DEF Reading
<1>6. \A i \in 0..Len(s) :
        Reading(s)[i] = IF i = 0 THEN start ELSE Read(Reading(s)[i - 1], s[i])
  BY <1>5
<1>7. ASSUME NEW i \in 0..Len(s), i < Len(s)
      PROVE  Reading(s)[i + 1] = Read(Reading(s)[i], s[i + 1])
  <2>1. i + 1 \in 0..Len(s) /\ i + 1 # 0 /\ (i + 1) - 1 = i
    BY <1>1, <1>7
  <2> QED
    BY <1>6, <2>1
<1> QED
  BY <1>1, <1>6, <1>7

\* The segments written so far, each with its slash.
Appending(segments) ==
  CHOOSE r : r = [i \in 0..Len(segments) |->
                    IF i = 0 THEN <<>> ELSE r[i - 1] \o segments[i] \o Slash]

LEMMA AppendingIs ==
  ASSUME NEW S, NEW s \in Seq(S)
  PROVE  /\ Appending(s)[0] = <<>>
         /\ \A i \in 0..Len(s) : i < Len(s) =>
              Appending(s)[i + 1] = Appending(s)[i] \o s[i + 1] \o Slash
<1> DEFINE Step(x, y) == x \o y \o Slash
           Is(n, r) == r = [i \in 0..n |-> IF i = 0 THEN <<>> ELSE Step(r[i - 1], s[i])]
           I == {n \in Nat : \E r : Is(n, r)}
<1>1. Len(s) \in Nat
  OBVIOUS
<1>2. 0 \in I
  <2> DEFINE r0 == [i \in 0..0 |-> <<>>]
  <2>1. Is(0, r0)
    OBVIOUS
  <2> QED
    BY <2>1
<1>3. ASSUME NEW n \in Nat, n \in I
      PROVE  n + 1 \in I
  <2>1. PICK r : Is(n, r)
    BY <1>3
  <2> DEFINE q == [i \in 0..n + 1 |-> IF i = n + 1 THEN Step(r[n], s[n + 1]) ELSE r[i]]
  <2> HIDE DEF Step
  <2>2. \A i \in 0..n : q[i] = r[i]
    OBVIOUS
  <2>3. \A i \in 0..n : r[i] = IF i = 0 THEN <<>> ELSE Step(r[i - 1], s[i])
    BY <2>1
  <2>4. ASSUME NEW i \in 0..n + 1
        PROVE  q[i] = IF i = 0 THEN <<>> ELSE Step(q[i - 1], s[i])
    <3>1. CASE i = n + 1
      <4>1. i # 0 /\ i - 1 = n /\ n \in 0..n
        BY <3>1
      <4>2. q[i] = Step(r[n], s[n + 1])
        BY <3>1
      <4> HIDE DEF q
      <4> QED
        BY <2>2, <3>1, <4>1, <4>2
    <3>2. CASE i \in 0..n /\ i # 0
      <4>1. i - 1 \in 0..n
        BY <3>2
      <4> HIDE DEF q
      <4> QED
        BY <2>2, <2>3, <3>2, <4>1
    <3>3. CASE i = 0
      <4> HIDE DEF q
      <4> QED
        BY <2>2, <2>3, <3>3
    <3> QED
      BY <3>1, <3>2, <3>3
  <2>5. Is(n + 1, q)
    <3>1. q = [i \in 0..n + 1 |-> q[i]]
      OBVIOUS
    <3> HIDE DEF q
    <3> QED
      BY <2>4, <3>1
  <2>6. \E w : Is(n + 1, w)
    <3> HIDE DEF q, Is
    <3> QED
      BY <2>5
  <2> HIDE DEF q, Is
  <2> QED
    BY <2>6
<1>4. Len(s) \in I
  <2>1. \A i \in 0..Len(s) : i < Len(s) /\ i \in I => i + 1 \in I
    BY <1>3
  <2> HIDE DEF I
  <2>2. \A i \in 0..Len(s) : i \in I
    BY <1>1, <1>2, <2>1, UpTo, Zenon
  <2> QED
    BY <1>1, <2>2
<1>5. Is(Len(s), Appending(s))
  BY <1>4 DEF Appending
<1> HIDE DEF Step
<1>6. \A i \in 0..Len(s) :
        Appending(s)[i] = IF i = 0 THEN <<>> ELSE Step(Appending(s)[i - 1], s[i])
  BY <1>5
<1>7. ASSUME NEW i \in 0..Len(s), i < Len(s)
      PROVE  Appending(s)[i + 1] = Step(Appending(s)[i], s[i + 1])
  <2>1. i + 1 \in 0..Len(s) /\ i + 1 # 0 /\ (i + 1) - 1 = i
    BY <1>1, <1>7
  <2> QED
    BY <1>6, <2>1
<1>8. Appending(s)[0] = <<>>
  BY <1>1, <1>6
<1> QED
  BY <1>7, <1>8 DEF Step

\* What is written after one more segment, and of what type.
LEMMA AppendingType ==
  ASSUME NEW S, "/" \in S, NEW g \in Seq(Seq(S))
  PROVE  \A i \in 0..Len(g) : Appending(g)[i] \in Seq(S)
<1> DEFINE I == {i \in 0..Len(g) : Appending(g)[i] \in Seq(S)}
<1>1. Len(g) \in Nat /\ <<"/">> \in Seq(S)
  OBVIOUS
<1>2. 0 \in I
  <2>1. Appending(g)[0] = <<>>
    BY AppendingIs, Zenon
  <2>2. <<>> \in Seq(S) /\ 0 \in 0..Len(g)
    BY <1>1
  <2> QED
    BY <2>1, <2>2
<1>3. ASSUME NEW i \in 0..Len(g), i < Len(g), i \in I
      PROVE  i + 1 \in I
  <2>1. g[i + 1] \in Seq(S) /\ i + 1 \in 0..Len(g)
    BY <1>3
  <2>2. Appending(g)[i] \in Seq(S)
    BY <1>3
  <2>3. Appending(g)[i + 1] = Appending(g)[i] \o g[i + 1] \o Slash
    BY <1>3, AppendingIs
  <2>4. \A x, y, z \in Seq(S) : x \o y \o z \in Seq(S)
    OBVIOUS
  <2> QED
    BY <1>1, <2>1, <2>2, <2>3, <2>4 DEF Slash
<1> HIDE DEF I
<1>4. \A i \in 0..Len(g) : i \in I
  BY <1>1, <1>2, <1>3, UpTo, Zenon
<1> QED
  BY <1>4 DEF I

LEMMA WithSlashesIs ==
  ASSUME NEW S, "/" \in S, NEW g \in Seq(Seq(S))
  PROVE  /\ WithSlashes(g) = Appending(g)[Len(g)]
         /\ WithSlashes(g) \in Seq(S)
         /\ g = <<>> => WithSlashes(g) = <<>>
<1>1. WithSlashes(g) = Appending(g)[Len(g)]
  BY Zenon DEF WithSlashes, Appending
<1>2. Len(g) \in 0..Len(g) /\ (g = <<>> => Len(g) = 0)
  OBVIOUS
<1>3. Appending(g)[Len(g)] \in Seq(S)
  BY <1>2, AppendingType, Zenon
<1>4. Appending(g)[0] = <<>>
  BY AppendingIs
<1> QED
  BY <1>1, <1>2, <1>3, <1>4

\* One more segment at the end.
LEMMA WithSlashesAppend ==
  ASSUME NEW S, "/" \in S, NEW g \in Seq(Seq(S)), NEW x \in Seq(S)
  PROVE  WithSlashes(Append(g, x)) = WithSlashes(g) \o x \o Slash
<1> DEFINE h == Append(g, x)
           I == {i \in 0..Len(g) : Appending(h)[i] = Appending(g)[i]}
<1>1. /\ h \in Seq(Seq(S)) /\ Len(g) \in Nat /\ Len(h) = Len(g) + 1
      /\ h[Len(g) + 1] = x /\ \A i \in 1..Len(g) : h[i] = g[i]
  OBVIOUS
<1> HIDE DEF h
<1>2. 0 \in I
  <2>1. Appending(g)[0] = <<>> /\ Appending(h)[0] = <<>>
    BY <1>1, AppendingIs, Zenon
  <2> QED
    BY <1>1, <2>1
<1>3. ASSUME NEW i \in 0..Len(g), i < Len(g), i \in I
      PROVE  i + 1 \in I
  <2>1. h[i + 1] = g[i + 1] /\ i \in 0..Len(h) /\ i < Len(h) /\ i + 1 \in 0..Len(g)
    BY <1>1, <1>3
  <2>2. Appending(g)[i + 1] = Appending(g)[i] \o g[i + 1] \o Slash
    BY <1>3, AppendingIs
  <2>3. Appending(h)[i + 1] = Appending(h)[i] \o h[i + 1] \o Slash
    BY <1>1, <2>1, AppendingIs
  <2> QED
    BY <1>3, <2>1, <2>2, <2>3
<1> HIDE DEF I
<1>4. \A i \in 0..Len(g) : i \in I
  BY <1>1, <1>2, <1>3, UpTo, Zenon
<1>5. Appending(h)[Len(g)] = Appending(g)[Len(g)]
  BY <1>1, <1>4 DEF I
<1>6. Appending(h)[Len(g) + 1] = Appending(h)[Len(g)] \o h[Len(g) + 1] \o Slash
  <2>1. Len(g) \in 0..Len(h) /\ Len(g) < Len(h)
    BY <1>1
  <2> QED
    BY <1>1, <2>1, AppendingIs
<1>7. WithSlashes(h) = Appending(h)[Len(h)] /\ WithSlashes(g) = Appending(g)[Len(g)]
  BY <1>1, WithSlashesIs
<1> QED
  BY <1>1, <1>5, <1>6, <1>7 DEF h

\* Sequences written one by one, or the last three of them at once.
Together(a, b, c, d) == a \o b \o c \o d = a \o (b \o c \o d)

LEMMA FourTogether ==
  ASSUME NEW S, NEW a \in Seq(S), NEW b \in Seq(S), NEW c \in Seq(S), NEW d \in Seq(S)
  PROVE  Together(a, b, c, d)
<1>1. b \o c \in Seq(S)
  OBVIOUS
<1>2. (a \o b) \o c = a \o (b \o c)
  BY ConcatAssociative
<1>3. (a \o (b \o c)) \o d = a \o ((b \o c) \o d)
  BY <1>1, ConcatAssociative
<1> QED
  BY <1>2, <1>3 DEF Together

\* The first segment, and the others after it.
LEMMA WithSlashesFirst ==
  ASSUME NEW S, "/" \in S, NEW g \in Seq(Seq(S)), g # <<>>
  PROVE  /\ g[1] \in Seq(S) /\ Tail(g) \in Seq(Seq(S))
         /\ WithSlashes(g) = g[1] \o Slash \o WithSlashes(Tail(g))
<1> DEFINE t == Tail(g)
           I == {i \in 0..Len(t) : Appending(g)[i + 1] = g[1] \o Slash \o Appending(t)[i]}
<1>1. /\ g[1] \in Seq(S) /\ t \in Seq(Seq(S)) /\ Len(t) \in Nat /\ Len(g) = Len(t) + 1
      /\ \A i \in 1..Len(t) : t[i] = g[i + 1]
  OBVIOUS
<1> HIDE DEF t
<1>2. Slash \in Seq(S) /\ g[1] \o Slash \in Seq(S)
  BY <1>1 DEF Slash
<1>3. 0 \in I
  <2>1. Appending(g)[0 + 1] = Appending(g)[0] \o g[0 + 1] \o Slash
    <3>1. 0 \in 0..Len(g) /\ 0 < Len(g)
      BY <1>1
    <3> QED
      BY <3>1, AppendingIs
  <2>2. Appending(g)[0] = <<>> /\ Appending(t)[0] = <<>>
    BY <1>1, AppendingIs
  <2>3. <<>> \o g[1] = g[1] /\ g[1] \o Slash \o <<>> = g[1] \o Slash
    BY <1>1, <1>2, ConcatEmptySeq
  <2>4. Appending(g)[0 + 1] = g[1] \o Slash \o Appending(t)[0]
    <3>1. 0 + 1 = 1
      OBVIOUS
    <3> QED
      BY <2>1, <2>2, <2>3, <3>1, Zenon
  <2>5. 0 \in 0..Len(t)
    BY <1>1
  <2> QED
    BY <2>4, <2>5
<1>4. ASSUME NEW i \in 0..Len(t), i < Len(t), i \in I
      PROVE  i + 1 \in I
  <2>1. /\ i + 1 \in 0..Len(t) /\ t[i + 1] = g[i + 2] /\ (i + 1) + 1 = i + 2
        /\ i + 1 \in 0..Len(g) /\ i + 1 < Len(g) /\ t[i + 1] \in Seq(S)
    BY <1>1, <1>4
  <2>2. Appending(g)[i + 2] = Appending(g)[i + 1] \o g[i + 2] \o Slash
    BY <2>1, AppendingIs
  <2>3. Appending(t)[i + 1] = Appending(t)[i] \o t[i + 1] \o Slash
    BY <1>1, <1>4, AppendingIs
  <2>4. Appending(t)[i] \in Seq(S)
    BY <1>1, <1>4, AppendingType
  <2>5. Appending(g)[i + 1] = g[1] \o Slash \o Appending(t)[i]
    BY <1>4
  <2>6. (g[1] \o Slash) \o Appending(t)[i] \o t[i + 1] \o Slash =
          (g[1] \o Slash) \o (Appending(t)[i] \o t[i + 1] \o Slash)
    <3>1. /\ g[1] \o Slash \in Seq(S) /\ Appending(t)[i] \in Seq(S)
          /\ t[i + 1] \in Seq(S) /\ Slash \in Seq(S)
      BY <1>2, <2>1, <2>4
    <3>2. Together(g[1] \o Slash, Appending(t)[i], t[i + 1], Slash)
      BY <3>1, FourTogether, Zenon
    <3> QED
      BY <3>2, Zenon DEF Together
  <2> QED
    BY <2>1, <2>2, <2>3, <2>5, <2>6
<1> HIDE DEF I
<1>5. \A i \in 0..Len(t) : i \in I
  BY <1>1, <1>3, <1>4, UpTo, Zenon
<1>6. Appending(g)[Len(t) + 1] = g[1] \o Slash \o Appending(t)[Len(t)]
  <2>1. Len(t) \in 0..Len(t)
    BY <1>1
  <2>2. Len(t) \in I
    BY <1>5, <2>1, Zenon
  <2> QED
    BY <2>2 DEF I
<1>7. WithSlashes(t) = Appending(t)[Len(t)] /\ WithSlashes(g) = Appending(g)[Len(g)]
  BY <1>1, WithSlashesIs
<1> QED
  BY <1>1, <1>6, <1>7 DEF t

\* A prefix, and the prefix that is one longer.
LEMMA PrefixGrows ==
  ASSUME NEW S, NEW s \in Seq(S), NEW i \in 0..Len(s), i < Len(s)
  PROVE  SubSeq(s, 1, i + 1) = Append(SubSeq(s, 1, i), s[i + 1])
<1> DEFINE x == SubSeq(s, 1, i)  y == SubSeq(s, 1, i + 1)  z == Append(x, s[i + 1])
<1>1. s[i + 1] \in S /\ i + 1 \in 1..Len(s) /\ i \in Nat
  OBVIOUS
<1>2. x \in Seq(S) /\ Len(x) = i /\ \A k \in 1..i : x[k] = s[k]
  OBVIOUS
<1>3. y \in Seq(S) /\ Len(y) = i + 1 /\ \A k \in 1..i + 1 : y[k] = s[k]
  BY <1>1
<1> HIDE DEF x, y
<1>4. z \in Seq(S) /\ Len(z) = i + 1 /\ z[i + 1] = s[i + 1] /\ \A k \in 1..i : z[k] = x[k]
  BY <1>1, <1>2
<1> HIDE DEF z
<1>5. \A k \in 1..i + 1 : y[k] = z[k]
  BY <1>1, <1>2, <1>3, <1>4
<1>6. y = z
  BY <1>3, <1>4, <1>5, SeqEqual
<1> QED
  BY <1>6 DEF x, y, z

\* The two parts of a sequence.
Parts(s, a, b) == s = a \o b

LEMMA AppendLast ==
  ASSUME NEW S, NEW a \in Seq(S), NEW b \in Seq(S), NEW x \in S
  PROVE  /\ Parts(Append(a \o b, x), a, Append(b, x))
         /\ Append(b, x) \in Seq(S) /\ Append(b, x) # <<>>
  BY DEF Parts

\* The segments read so far, with their slashes, and the characters after them
\* are what was read of s.
ReadSoFar(S, s, i) ==
  /\ Reading(s)[i].done \in Seq(Seq(S))
  /\ Reading(s)[i].token \in Seq(S)
  /\ WithSlashes(Reading(s)[i].done) \o Reading(s)[i].token = SubSeq(s, 1, i)
  /\ i # 0 /\ s[i] # "/" => Reading(s)[i].token # <<>>

LEMMA NothingLost ==
  ASSUME NEW S, "/" \in S, NEW s \in Seq(S)
  PROVE  \A i \in 0..Len(s) : ReadSoFar(S, s, i)
<1> DEFINE I == {i \in 0..Len(s) : ReadSoFar(S, s, i)}
<1>1. Len(s) \in Nat
  OBVIOUS
<1>2. 0 \in I
  <2>1. Reading(s)[0] = [done |-> <<>>, token |-> <<>>]
    BY ReadingIs, Zenon
  <2>2. <<>> \in Seq(Seq(S)) /\ <<>> \in Seq(S) /\ SubSeq(s, 1, 0) = <<>> /\ 0 \in 0..Len(s)
    BY <1>1
  <2>3. WithSlashes(<<>>) = <<>>
    BY <2>2, WithSlashesIs, Zenon
  <2>4. <<>> \o <<>> = <<>>
    OBVIOUS
  <2>5. ReadSoFar(S, s, 0)
    <3>1. Reading(s)[0].done = <<>> /\ Reading(s)[0].token = <<>>
      BY <2>1
    <3> QED
      BY <2>2, <2>3, <2>4, <3>1, Zenon DEF ReadSoFar
  <2> QED
    BY <2>2, <2>5
<1>3. ASSUME NEW i \in 0..Len(s), i < Len(s), i \in I
      PROVE  i + 1 \in I
  <2>1. PICK done \in Seq(Seq(S)), token \in Seq(S) :
          /\ Reading(s)[i].done = done /\ Reading(s)[i].token = token
          /\ WithSlashes(done) \o token = SubSeq(s, 1, i)
    BY <1>3, Zenon DEF ReadSoFar
  <2>2. PICK ch \in S : ch = s[i + 1]
    <3>1. i + 1 \in 1..Len(s)
      BY <1>1, <1>3
    <3> HIDE DEF I
    <3>2. s[i + 1] \in S
      BY <3>1
    <3> QED
      BY <3>2, Zenon
  <2>3. Reading(s)[i + 1] =
          IF ch = "/" THEN [done |-> Append(done, token), token |-> <<>>]
          ELSE [done |-> done, token |-> Append(token, ch)]
    <3>1. Reading(s)[i + 1] = Read(Reading(s)[i], s[i + 1])
      BY <1>3, ReadingIs
    <3> QED
      BY <2>1, <2>2, <3>1 DEF Read
  <2>4. SubSeq(s, 1, i + 1) = Append(WithSlashes(done) \o token, ch)
    <3>1. SubSeq(s, 1, i + 1) = Append(SubSeq(s, 1, i), s[i + 1])
      BY <1>3, PrefixGrows, Zenon
    <3> QED
      BY <2>1, <2>2, <3>1, Zenon
  <2>5. WithSlashes(done) \in Seq(S)
    BY WithSlashesIs, Zenon
  <2>6. PICK w \in Seq(S) : w = WithSlashes(done)
    BY <2>5, Zenon
  <2>7. i + 1 \in 0..Len(s) /\ i + 1 # 0
    BY <1>1, <1>3
  <2>8. CASE ch = "/"
    <3>1. Reading(s)[i + 1].done = Append(done, token) /\ Reading(s)[i + 1].token = <<>>
      BY <2>3, <2>8
    <3>2. Append(done, token) \in Seq(Seq(S)) /\ <<>> \in Seq(S)
      OBVIOUS
    <3>3. WithSlashes(Append(done, token)) = w \o token \o Slash
      BY <2>6, WithSlashesAppend, Zenon
    <3>4. PICK x \in Seq(S) : x = w \o token
      <4>1. w \o token \in Seq(S)
        OBVIOUS
      <4> QED
        BY <4>1, Zenon
    <3>5. (x \o <<ch>>) \o <<>> = Append(x, ch)
      OBVIOUS
    <3>6. WithSlashes(Append(done, token)) \o <<>> = SubSeq(s, 1, i + 1)
      BY <2>4, <2>6, <2>8, <3>3, <3>4, <3>5, Zenon DEF Slash
    <3>7. ReadSoFar(S, s, i + 1)
      BY <2>2, <2>8, <3>1, <3>2, <3>6, Zenon DEF ReadSoFar
    <3> QED
      BY <2>7, <3>7
  <2>9. CASE ch # "/"
    <3>1. Reading(s)[i + 1].done = done /\ Reading(s)[i + 1].token = Append(token, ch)
      BY <2>3, <2>9
    <3>2. Append(token, ch) \in Seq(S) /\ Append(token, ch) # <<>>
      BY AppendLast, Zenon
    <3>3. Parts(Append(w \o token, ch), w, Append(token, ch))
      BY AppendLast, Zenon
    <3>4. WithSlashes(done) \o Append(token, ch) = SubSeq(s, 1, i + 1)
      BY <2>4, <2>6, <3>3, Zenon DEF Parts
    <3>5. ReadSoFar(S, s, i + 1)
      BY <3>1, <3>2, <3>4, Zenon DEF ReadSoFar
    <3> QED
      BY <2>7, <3>5
  <2> QED
    BY <2>8, <2>9
<1> HIDE DEF I
<1>4. \A i \in 0..Len(s) : i \in I
  BY <1>1, <1>2, <1>3, UpTo, Zenon
<1> QED
  BY <1>4 DEF I

\* The segments of a path, with a slash after each, are the path and a slash.
LEMMA SegmentsRestored ==
  ASSUME NEW S, "/" \in S, NEW s \in Seq(S), IsPath(s)
  PROVE  Segments(s) \in Seq(Seq(S)) /\ WithSlashes(Segments(s)) = s \o Slash
<1>1. Len(s) \in 0..Len(s) /\ Len(s) # 0 /\ SubSeq(s, 1, Len(s)) = s
  BY DEF IsPath
<1>2. ReadSoFar(S, s, Len(s))
  BY <1>1, NothingLost, Zenon
<1>3. PICK done \in Seq(Seq(S)), token \in Seq(S) :
        /\ Reading(s)[Len(s)].done = done /\ Reading(s)[Len(s)].token = token
        /\ WithSlashes(done) \o token = s
        /\ s[Len(s)] # "/" => token # <<>>
  BY <1>1, <1>2, Zenon DEF ReadSoFar
<1>4. token # <<>>
  BY <1>3 DEF IsPath, Last
<1>5. Segments(s) = IF Reading(s)[Len(s)].token = <<>> THEN Reading(s)[Len(s)].done
                    ELSE Append(Reading(s)[Len(s)].done, Reading(s)[Len(s)].token)
  BY Zenon DEF Segments, Reading
<1>6. Segments(s) = Append(done, token)
  BY <1>3, <1>4, <1>5, Zenon
<1>7. Append(done, token) \in Seq(Seq(S))
  OBVIOUS
<1>8. WithSlashes(Append(done, token)) = WithSlashes(done) \o token \o Slash
  BY WithSlashesAppend, Zenon
<1> QED
  BY <1>3, <1>6, <1>7, <1>8, Zenon

\* A last character in common is taken off both sides.
LEMMA LastTakenOff ==
  ASSUME NEW S, NEW x \in S, NEW a \in Seq(S), NEW b \in Seq(S), NEW c \in Seq(S), c # <<>>,
         Parts(a \o <<x>>, b, c)
  PROVE  Front(c) \in Seq(S) /\ Parts(a, b, Front(c))
<1>1. Len(a) \in Nat /\ Len(b) \in Nat /\ Len(c) \in Nat /\ Len(c) > 0
  OBVIOUS
<1>2. /\ Front(c) \in Seq(S) /\ Len(Front(c)) = Len(c) - 1
      /\ \A i \in 1..Len(c) - 1 : Front(c)[i] = c[i]
  BY <1>1 DEF Front
<1>3. PICK f \in Seq(S) : f = Front(c)
  BY <1>2, Zenon
<1>4. PICK l \in Seq(S) : l = a \o <<x>>
  <2>1. a \o <<x>> \in Seq(S)
    OBVIOUS
  <2> QED
    BY <2>1, Zenon
<1>5. Len(l) = Len(a) + 1 /\ \A i \in 1..Len(a) : l[i] = a[i]
  BY <1>1, <1>4
<1>6. /\ Len(l) = Len(b) + Len(c)
      /\ \A i \in 1..Len(b) : l[i] = b[i]
      /\ \A i \in 1..Len(c) : l[Len(b) + i] = c[i]
  BY <1>1, <1>4 DEF Parts
<1>7. PICK r \in Seq(S) : r = b \o f
  <2>1. b \o f \in Seq(S)
    OBVIOUS
  <2> QED
    BY <2>1, Zenon
<1>8. /\ Len(r) = Len(b) + Len(f)
      /\ \A i \in 1..Len(b) : r[i] = b[i]
      /\ \A i \in 1..Len(f) : r[Len(b) + i] = f[i]
  BY <1>7
<1>9. Len(r) = Len(a) /\ Len(f) = Len(c) - 1
  BY <1>1, <1>2, <1>3, <1>5, <1>6, <1>8
<1>10. ASSUME NEW i \in 1..Len(a)
       PROVE  a[i] = r[i]
  <2>1. CASE i <= Len(b)
    BY <1>1, <1>5, <1>6, <1>8, <2>1
  <2>2. CASE i > Len(b)
    <3>1. PICK k \in 1..Len(f) : i = Len(b) + k
      <4>1. i - Len(b) \in 1..Len(f) /\ i = Len(b) + (i - Len(b))
        BY <1>1, <1>5, <1>6, <1>9, <2>2
      <4> QED
        BY <4>1
    <3>2. k \in 1..Len(c) - 1 /\ k \in 1..Len(c)
      BY <1>1, <1>9, <3>1
    <3>3. f[k] = c[k]
      BY <1>2, <1>3, <3>2
    <3> QED
      BY <1>5, <1>6, <1>8, <3>1, <3>2, <3>3
  <2> QED
    BY <1>1, <2>1, <2>2
<1>11. a = r
  BY <1>9, <1>10, SeqEqual
<1> QED
  BY <1>2, <1>3, <1>7, <1>11, Zenon DEF Parts

LEMMA OthersRemain ==
  ASSUME NEW S, NEW g \in Seq(S), Len(g) > 1
  PROVE  g # <<>> /\ Tail(g) # <<>> /\ Tail(g) \in Seq(S)
<1>1. Tail(g) \in Seq(S) /\ Len(Tail(g)) = Len(g) - 1 /\ Len(g) \in Nat /\ g # <<>>
  OBVIOUS
<1>2. Len(Tail(g)) # 0
  BY <1>1
<1>3. Len(<<>>) = 0
  OBVIOUS
<1>4. Tail(g) # <<>>
  BY <1>2, <1>3, Zenon
<1> QED
  BY <1>1, <1>4, Zenon

\* A path of several segments: the first, and the others joined.
LEMMA PathDivided ==
  ASSUME NEW S, "/" \in S, NEW s \in Seq(S), IsPath(s), Len(Segments(s)) > 1
  PROVE  /\ Segments(s)[1] \in Seq(S) /\ Segments(s)[1] # <<>>
         /\ Join(Tail(Segments(s))) \in Seq(S)
         /\ Parts(s, Segments(s)[1] \o Slash, Join(Tail(Segments(s))))
<1>1. PICK g \in Seq(Seq(S)) : g = Segments(s) /\ WithSlashes(g) = s \o Slash
  BY SegmentsRestored, Zenon
<1>2. g # <<>> /\ Tail(g) # <<>> /\ Tail(g) \in Seq(Seq(S))
  <2>1. Len(g) > 1
    BY <1>1, Zenon
  <2> QED
    BY <2>1, OthersRemain, Zenon
<1>3. PICK first \in Seq(S) : first = g[1]
  <2>1. g[1] \in Seq(S)
    BY <1>2
  <2> QED
    BY <2>1, Zenon
<1>4. PICK t \in Seq(Seq(S)) : t = Tail(g) /\ t # <<>>
  BY <1>2, Zenon
<1>5. PICK w \in Seq(S) : w = WithSlashes(t)
  BY <1>4, WithSlashesIs, Zenon
<1>6. s \o Slash = first \o Slash \o w
  <2>1. WithSlashes(g) = g[1] \o Slash \o WithSlashes(Tail(g))
    BY <1>2, WithSlashesFirst, Zenon
  <2> QED
    BY <1>1, <1>3, <1>4, <1>5, <2>1, Zenon
<1>7. w # <<>>
  <2>1. PICK h \in Seq(S), v \in Seq(S) : w = h \o Slash \o v
    <3>1. t[1] \in Seq(S) /\ Tail(t) \in Seq(Seq(S))
      BY <1>4
    <3>2. WithSlashes(Tail(t)) \in Seq(S)
      BY <3>1, WithSlashesIs, Zenon
    <3>3. WithSlashes(t) = t[1] \o Slash \o WithSlashes(Tail(t))
      BY <1>4, WithSlashesFirst, Zenon
    <3> QED
      BY <1>5, <3>1, <3>2, <3>3, Zenon
  <2>2. Len(h \o <<"/">> \o v) > 0
    OBVIOUS
  <2> QED
    BY <2>1, <2>2 DEF Slash
<1>8. PICK b \in Seq(S) : b = first \o Slash
  <2>1. first \o <<"/">> \in Seq(S)
    OBVIOUS
  <2> QED
    BY <2>1, Zenon DEF Slash
<1>9. Front(w) \in Seq(S) /\ Parts(s, b, Front(w))
  <2>1. Parts(s \o <<"/">>, b, w)
    BY <1>6, <1>8, Zenon DEF Slash, Parts
  <2> QED
    BY <1>7, <2>1, LastTakenOff, Zenon
<1>10. Join(t) = Front(w)
  BY <1>5, Zenon DEF Join
<1>11. first # <<>>
  <2> SUFFICES ASSUME first = <<>> PROVE FALSE
    OBVIOUS
  <2>1. b = <<"/">>
    <3>1. <<>> \o <<"/">> = <<"/">>
      OBVIOUS
    <3> QED
      BY <1>8, <3>1, Zenon DEF Slash
  <2>2. PICK f \in Seq(S) : s = <<"/">> \o f
    BY <1>9, <2>1, Zenon DEF Parts
  <2>3. s[1] = "/"
    BY <2>2
  <2> QED
    BY <2>3 DEF IsPath
<1> QED
  BY <1>1, <1>3, <1>4, <1>8, <1>9, <1>10, <1>11, Zenon

(***************************************************************************)
(* Nothing of a client's name is lost or made up: namespace and node name  *)
(* put together are that name (graph_manager.cpp:565-600).                 *)
(***************************************************************************)
THEOREM NodeNamesArrive == Spec => []NameKept
<1>1. ASSUME Types PROVE NameKept
  <2> DEFINE S == Tokens \cup {"/"}
             s == WithoutFirstSlash(name)
  <2>1. "/" \in S
    OBVIOUS
  <2>2. s \in Seq(S)
    <3>1. name \in Seq(S)
      BY <1>1 DEF Types
    <3>2. IsPrefix(Slash, name) => name # <<>>
      BY <3>1 DEF IsPrefix, Slash
    <3>3. name # <<>> => Tail(name) \in Seq(S)
      BY <3>1
    <3> HIDE DEF S
    <3> QED
      BY <3>1, <3>2, <3>3, Zenon DEF WithoutFirstSlash
  <2> SUFFICES ASSUME IsPath(s)
               PROVE  FullyQualified(NameAndNamespace(name)) = Slash \o s
    BY Zenon DEF NameKept
  <2> DEFINE g == Segments(s)
  <2>3. NameAndNamespace(name) =
          IF Len(g) > 1 THEN [namespace |-> Slash \o g[1], name |-> Join(Tail(g))]
          ELSE [namespace |-> Slash, name |-> s]
    BY Zenon DEF NameAndNamespace
  <2> HIDE DEF S, s, g
  <2>4. CASE ~(Len(g) > 1)
    BY <2>3, <2>4 DEF FullyQualified
  <2>5. CASE Len(g) > 1
    <3>1. PICK first \in Seq(S), rest \in Seq(S) :
            /\ first = g[1] /\ rest = Join(Tail(g)) /\ first # <<>>
            /\ s = first \o Slash \o rest
      <4>1. /\ g[1] \in Seq(S) /\ g[1] # <<>> /\ Join(Tail(g)) \in Seq(S)
            /\ Parts(s, g[1] \o Slash, Join(Tail(g)))
        BY <2>1, <2>2, <2>5, PathDivided, Zenon DEF g
      <4> QED
        BY <4>1, Zenon DEF Parts
    <3>2. Slash \o first # Slash
      <4>1. Len(<<"/">> \o first) > 1
        BY <3>1
      <4> QED
        BY <4>1 DEF Slash
    <3>3. FullyQualified(NameAndNamespace(name)) = Slash \o first \o Slash \o rest
      BY <2>3, <2>5, <3>1, <3>2 DEF FullyQualified
    <3>4. Slash \in Seq(S)
      BY <2>1 DEF Slash
    <3>5. Together(Slash, first, Slash, rest)
      BY <3>4, FourTogether, Zenon
    <3> QED
      BY <3>1, <3>3, <3>5, Zenon DEF Together
  <2> QED
    BY <2>4, <2>5
<1> QED
  BY <1>1, TypesKept, PTL
=============================================================================
