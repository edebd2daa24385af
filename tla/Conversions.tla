----------------------------- MODULE Conversions ----------------------------
(***************************************************************************)
(* What the program's pure parts promise: the names of DDS and of ROS      *)
(* (Demangle, NodeName), the samples of the two type supports              *)
(* (TypeSupport), the QoS of endpoints (Qos) and the command line          *)
(* (AgentMain).                                                            *)
(*                                                                         *)
(* The inputs grow a piece at a time, one of them in each behaviour, so    *)
(* that TLC sees every input within the bounds: a name of tokens, two      *)
(* samples that share a payload, a QoS, a command line.                    *)
(***************************************************************************)
EXTENDS Demangle, NodeName, TypeSupport, Qos, AgentMain

CONSTANTS
  Tokens,       \* what names are made of
  MaxLength,    \* bound on the tokens of a name
  Words,        \* what messages are made of
  MaxWords,     \* bound on the words of a message
  MaxArguments  \* bound on the arguments of a command line

VARIABLES
  name,   \* of a topic, a type or a participant
  before, now,   \* messages, written one after the other
  qos,    \* the policies of an endpoint
  argv    \* the command line

vars == <<name, before, now, qos, argv>>

\* Arguments: the flag, words, and several words in one argument.
Arguments == {RosArgs, <<"udp4">>, <<"-p">>, <<"8888">>, <<"udp4", "-p", "8888">>}
CommandLine == <<<<"micro_ros_agent">>>>

Init ==
  /\ name = <<>>
  /\ before = <<>>
  /\ now = <<>>
  /\ qos = DefaultWriterQos
  /\ argv = CommandLine

NameGrows ==
  /\ <<before, now, qos, argv>> = <<<<>>, <<>>, DefaultWriterQos, CommandLine>>
  /\ Len(name) < MaxLength
  /\ \E t \in Tokens : name' = Append(name, t)
  /\ UNCHANGED <<before, now, qos, argv>>

MessageGrows ==
  /\ <<name, qos, argv>> = <<<<>>, DefaultWriterQos, CommandLine>>
  /\ \E word \in Words :
       \/ Len(before) < MaxWords /\ before' = Append(before, word) /\ UNCHANGED now
       \/ Len(now) < MaxWords /\ now' = Append(now, word) /\ UNCHANGED before
  /\ UNCHANGED <<name, qos, argv>>

QosChanges ==
  /\ <<name, before, now, argv>> = <<<<>>, <<>>, <<>>, CommandLine>>
  /\ qos' \in Announced
  /\ UNCHANGED <<name, before, now, argv>>

ArgumentIsAdded ==
  /\ <<name, before, now, qos>> = <<<<>>, <<>>, <<>>, DefaultWriterQos>>
  /\ Len(argv) <= MaxArguments
  /\ \E arg \in Arguments : argv' = Append(argv, arg)
  /\ UNCHANGED <<name, before, now, qos>>

Next == NameGrows \/ MessageGrows \/ QosChanges \/ ArgumentIsAdded

Spec == Init /\ [][Next]_vars

-----------------------------------------------------------------------------
(***************************************************************************)
(* Names.                                                                  *)
(***************************************************************************)

\* A topic is published as a publisher's or subscriber's, as a server's or as
\* a client's, never as two of them: at most one of the demanglers that
\* publish_microros_graph passes to the cache accepts its name
\* (graph_manager.cpp:182, 207, 233, 258).
OneKind ==
  LET kinds == <<DemangleRosTopicFromTopic(name),
                 DemangleServiceRequestFromTopic(name),
                 DemangleServiceReplyFromTopic(name)>>
  IN  \A i, j \in 1..3 : kinds[i] # None /\ kinds[j] # None => i = j

\* A service keeps its name over its request and reply topics, even when the
\* name contains or ends in a suffix itself (demangle.cpp:71-104).
ServicesRestored ==
  LET service == <<"/">> \o name
      request == <<"rq">> \o service \o <<"Request">>
      reply   == <<"rr">> \o service \o <<"Reply">>
  IN  /\ DemangleServiceRequestFromTopic(request) = service
      /\ DemangleServiceReplyFromTopic(reply) = service
      /\ DemangleServiceFromTopic(request) = service
      /\ DemangleServiceFromTopic(reply) = service

\* The converse: a topic taken for a service's is the mangled name of that
\* service, and of no other one (demangle.cpp:82-103).
OnlyServices ==
  LET request == DemangleServiceRequestFromTopic(name)
      reply   == DemangleServiceReplyFromTopic(name)
  IN  /\ request # None => name = <<"rq">> \o request \o <<"Request">>
      /\ reply # None => name = <<"rr">> \o reply \o <<"Reply">>

\* The DDS name that a type support gives to a type, its namespace empty or not,
\* is published as "package/Type": the demangler undoes the mangling, whatever
\* the type's own name contains (graph_typesupport.cpp:35-44, demangle.cpp:40-63).
TypesRestored ==
  /\ DemangleIfRosType(TypeName(<<"package", "::", "msg">>, name)) =
       <<"package", "/", "msg", "/">> \o name
  /\ DemangleIfRosType(TypeName(<<>>, name)) = name
  /\ DemangleIfRosType(<<"package", "::", "srv", "::", "dds_::">> \o name \o <<"_Request_">>) =
       <<"package", "/", "srv", "/">> \o name \o <<"_Request">>

\* The request and the reply type of a service name the same service type, so
\* servers and clients agree on it, whatever the type's name contains
\* (demangle.cpp:130-179).
ServiceTypesAgree ==
  LET prefix == <<"package", "::", "dds_::">> IN
  \A suffix \in {"_Request_", "_Response_"} :
    DemangleServiceTypeOnly(prefix \o name \o <<suffix>>) =
      <<"package", "/">> \o name

\* Whatever name comes in, a service type made of it is the namespace and the
\* type's own name up to its end or to a suffix.  A suffix that is not at the end
\* stays in use after the warning, and before the "dds_::" it makes the length of
\* the name wrap around: the name is still neither cut elsewhere nor taken from
\* elsewhere (demangle.cpp:137-179).
ServiceTypesCut ==
  LET at     == Find(name, "dds_::")
      result == DemangleServiceTypeOnly(name)
  IN  result # None =>
        \E end \in at..Len(name) :
          /\ result = TypeNamespace(name, at) \o SubSeq(name, at + 1, end)
          /\ end < Len(name) => name[end + 1] \in {"_Request_", "_Response_"}

\* ROS's name for the node: its namespace and its name, a slash between them.
FullyQualified(node) ==
  IF node.namespace = Slash THEN Slash \o node.name
  ELSE node.namespace \o Slash \o node.name

\* A path has no slash at its start or end.
IsPath(s) == s # <<>> /\ s[1] # "/" /\ Last(s) # "/"

\* Nothing of a participant's name is lost or made up: namespace and node name
\* put together are that name, with or without its first slash, however many
\* segments it has (graph_manager.cpp:565-600).
NameKept ==
  LET path == WithoutFirstSlash(name) IN
  IsPath(path) =>
    FullyQualified(NameAndNamespace(name)) = Slash \o path

-----------------------------------------------------------------------------
(***************************************************************************)
(* Samples.                                                                *)
(***************************************************************************)

\* The payloads of two samples that one after the other use the same buffer.
FirstPayload == Serialize(before, Reserve(EmptyPayload, before))
SecondPayload == Serialize(now, Reserve(FirstPayload, now))

\* Every message fits its payload, also one longer than the size that the
\* callbacks give for a type without bound: the size that the type support
\* calculates is the one it needs (graph_typesupport.cpp:47, 57-63, 89-96).
MessagesFit ==
  /\ Fits(Reserve(EmptyPayload, before), before)
  /\ Fits(Reserve(FirstPayload, now), now)

\* A reader gets the message that was written, and nothing of an earlier and
\* longer sample in the same buffer (graph_typesupport.cpp:62-68, 80-86).
MessagesRestored ==
  /\ Deserialize(FirstPayload) = before
  /\ Deserialize(SecondPayload) = now

-----------------------------------------------------------------------------
(***************************************************************************)
(* QoS.                                                                    *)
(***************************************************************************)

\* Callback and discovery may add an endpoint in either order and the cache
\* keeps the first: its profile is the same either way (graph_manager.cpp:356-424,
\* 650-698).
SameProfile ==
  /\ FastddsQosToRmwQos(WriterQosConversion(qos)) = FastddsQosToRmwQos(qos)
  /\ FastddsQosToRmwQos(ReaderQosConversion(qos)) = FastddsQosToRmwQos(qos)

\* Endpoints with different policies have different profiles, unless ROS has no
\* name for either policy (graph_manager.cpp:477-549).
ProfileTells ==
  [][FastddsQosToRmwQos(qos') = FastddsQosToRmwQos(qos) =>
       /\ \A p \in {"reliability", "deadline", "lifespan", "leaseDuration"} :
            qos'[p] = qos[p]
       /\ qos.durability \in RosDurabilities => qos'.durability = qos.durability
       /\ qos.liveliness \in RosLivelinesses => qos'.liveliness = qos.liveliness]_qos

-----------------------------------------------------------------------------
(***************************************************************************)
(* Command line.                                                           *)
(***************************************************************************)

\* Nothing of a command line is lost or reordered: the agent gets the arguments
\* before the first --ros-args and none from there on, and never refuses them
\* (main.cpp:30-39, 85).
ArgumentsKept ==
  LET arguments == CreateArguments(argv) IN
  /\ arguments # Refused
  /\ IsPrefix(arguments, argv)
  /\ \A i \in 1..Len(arguments) : arguments[i] # RosArgs
  /\ arguments # argv => argv[Len(arguments) + 1] = RosArgs

\* Stated by the comment of main ("arguments will be passed from ros2launch as a
\* single token with spaces, to preserve the correct argument order; split it
\* here.", main.cpp:25-27): the words of a launch file's single token, which
\* the flag follows, arrive one by one.
LaunchTokenSplit ==
  Len(argv) > 2 /\ argv[2] # RosArgs /\ argv[3] = RosArgs =>
    CreateArguments(argv) = CommandLine \o Split(argv[2])
=============================================================================
