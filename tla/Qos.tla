--------------------------------- MODULE Qos --------------------------------
(***************************************************************************)
(* The QoS of an endpoint on its way into the graph cache.                 *)
(*                                                                         *)
(* A client's endpoint reaches the cache twice: its callback passes the    *)
(* QoS that the endpoint itself has, its discovery the QoS that a peer can *)
(* see, as conversions of the announced policies restore it.  Both are     *)
(* then converted to a profile of ROS (graph_manager.cpp:477-698).         *)
(***************************************************************************)
EXTENDS Naturals

CONSTANT
  Durations   \* the durations that policies have, their default among them

NoLimit == "infinite"   \* the default duration of every policy here

ASSUME DurationsAssumption == NoLimit \in Durations

\* The policies of Fast DDS that a profile tells of, and, for those that it
\* does not, ownership and history: the history is not announced to peers.
Reliabilities == {"BEST_EFFORT", "RELIABLE"}
Durabilities  == {"VOLATILE", "TRANSIENT_LOCAL", "TRANSIENT", "PERSISTENT"}
Livelinesses  == {"AUTOMATIC", "MANUAL_BY_PARTICIPANT", "MANUAL_BY_TOPIC"}

Announced ==
  [reliability : Reliabilities, durability : Durabilities,
   liveliness : Livelinesses, leaseDuration : Durations,
   deadline : Durations, lifespan : Durations,
   ownership : {"SHARED", "EXCLUSIVE"}]

\* The QoS of a default-constructed DataWriterQos and DataReaderQos.
DefaultOf(reliability, durability) ==
  [reliability |-> reliability, durability |-> durability,
   liveliness |-> "AUTOMATIC", leaseDuration |-> NoLimit,
   deadline |-> NoLimit, lifespan |-> NoLimit,
   ownership |-> "SHARED"]

DefaultWriterQos == DefaultOf("RELIABLE", "TRANSIENT_LOCAL")
DefaultReaderQos == DefaultOf("BEST_EFFORT", "VOLATILE")

-----------------------------------------------------------------------------
\* A plausible bug: a policy is not copied.
WriterQosWithoutLifespan(info) ==
  [info EXCEPT !.lifespan = DefaultWriterQos.lifespan]

WriterQosConversion(info) ==
  [DefaultWriterQos EXCEPT
     !.durability = info.durability, !.deadline = info.deadline,
     !.liveliness = info.liveliness, !.leaseDuration = info.leaseDuration,
     !.reliability = info.reliability, !.lifespan = info.lifespan,
     !.ownership = info.ownership]

ReaderQosConversion(info) ==
  [DefaultReaderQos EXCEPT
     !.durability = info.durability, !.deadline = info.deadline,
     !.lifespan = info.lifespan, !.liveliness = info.liveliness,
     !.leaseDuration = info.leaseDuration, !.reliability = info.reliability,
     !.ownership = info.ownership]

-----------------------------------------------------------------------------
\* The policies that ROS has a name for.
RosDurabilities == {"VOLATILE", "TRANSIENT_LOCAL"}
RosLivelinesses == {"AUTOMATIC", "MANUAL_BY_TOPIC"}

KnownTo(names, policy) == IF policy \in names THEN policy ELSE "UNKNOWN"

\* A plausible bug: a duration is taken from the policy above it.
RmwQosWithoutLease(qos) ==
  [history       |-> "UNKNOWN",
   reliability   |-> KnownTo(Reliabilities, qos.reliability),
   durability    |-> KnownTo(RosDurabilities, qos.durability),
   deadline      |-> qos.deadline,
   lifespan      |-> qos.lifespan,
   liveliness    |-> KnownTo(RosLivelinesses, qos.liveliness),
   leaseDuration |-> qos.lifespan]

\* The history stays as it is in rmw_qos_profile_unknown.
FastddsQosToRmwQos(qos) ==
  [history       |-> "UNKNOWN",
   reliability   |-> KnownTo(Reliabilities, qos.reliability),
   durability    |-> KnownTo(RosDurabilities, qos.durability),
   deadline      |-> qos.deadline,
   lifespan      |-> qos.lifespan,
   liveliness    |-> KnownTo(RosLivelinesses, qos.liveliness),
   leaseDuration |-> qos.leaseDuration]
=============================================================================
