------------------------------- MODULE Demangle -----------------------------
(***************************************************************************)
(* The ROS names behind the DDS names of topics and types (demangle.cpp).  *)
(*                                                                         *)
(* A name is a sequence of tokens, the pieces that the functions look for  *)
(* and identifiers between them.  "Not a ROS name" is the empty sequence.  *)
(***************************************************************************)
EXTENDS Naturals, SequencesExt

None == <<>>

\* namespace_prefix.hpp of rmw_fastrtps: the rest of a name after prefix, from
\* its slash on; nothing if the name has another prefix.
ResolvePrefix(topic, prefix) ==
  IF IsPrefix(<<prefix, "/">>, topic) THEN Tail(topic) ELSE None

StripRosPrefixIfExists(topic) ==
  IF \E prefix \in {"rt", "rq", "rr"} : IsPrefix(<<prefix, "/">>, topic)
  THEN Tail(topic) ELSE topic

\* std::string::find and rfind of a token: a position, 0 for npos.
Find(text, token) == SelectInSeq(text, LAMBDA t : t = token)
Rfind(text, token) == SelectLastInSeq(text, LAMBDA t : t = token)

-----------------------------------------------------------------------------
DemangleIfRosTopic(topic) == StripRosPrefixIfExists(topic)

\* A plausible bug: the other helper of namespace_prefix.hpp is called.
StripAnyPrefix(topic) == StripRosPrefixIfExists(topic)

DemangleRosTopicFromTopic(topic) == ResolvePrefix(topic, "rt")

\* A plausible bug: the suffix is searched from the front.
ServiceFromFirstSuffix(prefix, topic, suffix) ==
  LET service == ResolvePrefix(topic, prefix)
      at      == Find(service, suffix)
  IN  IF at = 0 \/ at # Len(service) THEN None ELSE SubSeq(service, 1, at - 1)

\* A plausible bug: a suffix is cut off wherever it is.
ServiceFromAnySuffix(prefix, topic, suffix) ==
  LET service == ResolvePrefix(topic, prefix)
      at      == Rfind(service, suffix)
  IN  IF at = 0 THEN None ELSE SubSeq(service, 1, at - 1)

DemangleServiceFromPrefixed(prefix, topic, suffix) ==
  LET service == ResolvePrefix(topic, prefix)
      at      == Rfind(service, suffix)
  IN  IF at = 0 \/ at # Len(service) THEN None ELSE SubSeq(service, 1, at - 1)

DemangleServiceRequestFromTopic(topic) ==
  DemangleServiceFromPrefixed("rq", topic, "Request")
DemangleServiceReplyFromTopic(topic) ==
  DemangleServiceFromPrefixed("rr", topic, "Reply")

DemangleServiceFromTopic(topic) ==
  IF DemangleServiceReplyFromTopic(topic) # None
  THEN DemangleServiceReplyFromTopic(topic)
  ELSE DemangleServiceRequestFromTopic(topic)

-----------------------------------------------------------------------------
\* The tokens that end in an underscore, and what is left without it.
Terminated == [t \in {"_", "_Request_", "_Response_"} |->
                 CASE t = "_"          -> <<>>
                   [] t = "_Request_"  -> <<"_Request">>
                   [] t = "_Response_" -> <<"_Response">>]

\* The type namespace before position at, with "::" written "/".
TypeNamespace(type, at) == ReplaceAll(SubSeq(type, 1, at - 1), "::", "/")

\* A plausible bug: the final underscore is kept.
DemangleKeepingUnderscore(type) ==
  LET at == Find(type, "dds_::") IN
  IF Last(type) \notin DOMAIN Terminated \/ at = 0 THEN type
  ELSE TypeNamespace(type, at) \o SubSeq(type, at + 1, Len(type))

\* Called with the type of an endpoint, which is not empty.
DemangleIfRosType(type) ==
  LET at == Find(type, "dds_::") IN
  IF Last(type) \notin DOMAIN Terminated \/ at = 0 THEN type
  ELSE TypeNamespace(type, at) \o SubSeq(type, at + 1, Len(type) - 1)
         \o Terminated[Last(type)]

\* A plausible bug: a suffix that is not at the end ends the loop.
SuffixPositionGivingUp(type) ==
  IF Rfind(type, "_Response_") # 0
  THEN IF Rfind(type, "_Response_") = Len(type) THEN Len(type) ELSE 0
  ELSE Rfind(type, "_Request_")

\* Where the loop over the suffixes ends: at the first suffix found at the end
\* of the type; otherwise with what the search for the last one returned.
SuffixPosition(type) ==
  IF Rfind(type, "_Response_") = Len(type)
  THEN Len(type)
  ELSE Rfind(type, "_Request_")

\* A plausible bug: a length that wraps around is taken to be none.
DemangleServiceTypeOnlyUnwrapped(type) ==
  LET at     == Find(type, "dds_::")
      suffix == SuffixPosition(type)
  IN  IF at = 0 \/ suffix = 0 THEN None
      ELSE TypeNamespace(type, at) \o SubSeq(type, at + 1, suffix - 1)

\* The length of a suffix that lies before the type name wraps around: the
\* substring then extends to the end.
DemangleServiceTypeOnly(type) ==
  LET at     == Find(type, "dds_::")
      suffix == SuffixPosition(type)
      last   == IF suffix > at THEN suffix - 1 ELSE Len(type)
  IN  IF at = 0 \/ suffix = 0 THEN None
      ELSE TypeNamespace(type, at) \o SubSeq(type, at + 1, last)
=============================================================================
