------------------------------ MODULE TypeSupport ---------------------------
(***************************************************************************)
(* The type supports of ros_discovery_info and ros_to_microros_graph       *)
(* (graph_typesupport.cpp), which are the same but for the message's type. *)
(*                                                                         *)
(* A message is the sequence of the words of its CDR form, which the       *)
(* generated callbacks write and read; a word has four bytes.  A payload   *)
(* is a buffer that may hold an earlier sample.                            *)
(***************************************************************************)
EXTENDS Naturals, Sequences

CONSTANT
  MaxSerializedSize   \* bytes, what the callbacks say of a type without bound

ASSUME SizeAssumption == MaxSerializedSize \in Nat

Encapsulation == <<"CDR_LE">>
WordSize == 4

\* callbacks_->get_serialized_size
GetSerializedSize(message) == WordSize * Len(message)

MaxSerializedTypeSize == 4 + MaxSerializedSize

\* The name of the DDS type of a message: tokens, as in Demangle.
TypeName(messageNamespace, messageName) ==
  (IF messageNamespace = <<>> THEN <<>> ELSE messageNamespace \o <<"::">>)
    \o <<"dds_::">> \o messageName \o <<"_">>

-----------------------------------------------------------------------------
\* A plausible bug: the encapsulation is forgotten.
SizeWithoutEncapsulation(message) == GetSerializedSize(message)

CalculateSerializedSize(message) == 4 + GetSerializedSize(message)

EmptyPayload == [words |-> <<>>, maxSize |-> 0, length |-> 0]

\* The history memory policy of the writers and of the reader is
\* PREALLOCATED_WITH_REALLOC: a payload of the maximal size of the type, which
\* is enlarged for a sample that needs more.
Reserve(payload, message) ==
  LET Larger(a, b) == IF a > b THEN a ELSE b
  IN  [payload EXCEPT !.maxSize =
         Larger(Larger(@, MaxSerializedTypeSize), CalculateSerializedSize(message))]

\* What serialize leaves in the buffer: the rest of an earlier sample is not erased.
Overwrite(words, new) == new \o SubSeq(words, Len(new) + 1, Len(words))

Fits(payload, message) ==
  WordSize * Len(Encapsulation \o message) <= payload.maxSize

\* A plausible bug: the length of the payload is that of its buffer.
SerializeToTheEnd(message, payload) ==
  IF Fits(payload, message)
  THEN [payload EXCEPT !.words  = Overwrite(@, Encapsulation \o message),
                       !.length = WordSize * Len(Overwrite(payload.words, Encapsulation \o message))]
  ELSE payload

\* A sample that does not fit is not sent.
Serialize(message, payload) ==
  IF Fits(payload, message)
  THEN [payload EXCEPT !.words  = Overwrite(@, Encapsulation \o message),
                       !.length = WordSize * Len(Encapsulation \o message)]
  ELSE payload

\* The words between the encapsulation and the payload's length.
Deserialize(payload) == SubSeq(payload.words, 2, payload.length \div WordSize)
=============================================================================
