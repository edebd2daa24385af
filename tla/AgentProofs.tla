----------------------------- MODULE AgentProofs ----------------------------
(***************************************************************************)
(* Proofs about Agent, for any domains and clients: every client is with   *)
(* the manager of its domain, which is never replaced, only early clients  *)
(* lack an auxiliary datawriter, and no client's graph misses the peers    *)
(* that were discovered while its manager was made.                        *)
(***************************************************************************)
EXTENDS Agent, TLAPS

(***************************************************************************)
(* The inductive invariant.                                                *)
(***************************************************************************)
Calling(c) == IF xrce = Idle THEN FALSE ELSE xrce.client = c

\* The participant of c is about to get its auxiliary datawriter.
BeingAdded(c) == Calling(c) /\ xrce.call = "add_participant"

\* Exactly the participants that were added, and not removed, have one.
Kept ==
  \A c \in Clients, d \in Domains :
    c \in auxWriters[d] <=>
      DomainOf[c] = d /\ life[c] \in {"live", "forgotten"} /\ ~BeingAdded(c)

\* Only a participant that is there has objects, or is in a callback.
Alive ==
  /\ \A c \in Clients :
       objects[c] # {} \/ Calling(c) => life[c] \in {"live", "unreported"}
  /\ xrce # Idle =>
       /\ xrce.call = "add_participant" => life[xrce.client] = "live"
       /\ xrce.call = "remove_participant" => objects[xrce.client] = {}

\* The phases of a manager that is made.
Phase == [create_datareader |-> "listening", store_datareader |-> "receiving",
          set_callback |-> "stored"]

\* The server's thread makes a manager before it uses it.
Built ==
  /\ xrce # Idle =>
       /\ xrce.at \in Calls =>
            xrce.at = xrce.call /\ managers[DomainOf[xrce.client]] = "up"
       /\ xrce.at \in DOMAIN Phase =>
            managers[DomainOf[xrce.client]] = Phase[xrce.at]
  /\ \A d \in Domains : auxWriters[d] # {} => managers[d] = "up"

\* Before the server is launched and after it has ended no callback runs.
Served == main \notin {"install", "run"} => xrce = Idle

\* In the loop there is a callback left to install.
Installing ==
  main \in {"create", "install", "failed"} => installed < Len(Callbacks)

IInv ==
  /\ TypeOK /\ Kept /\ Alive /\ Built /\ Served /\ Installing
  /\ PeersNoticed

-----------------------------------------------------------------------------
LEMMA CallbacksLength == Len(Callbacks) = 10
  BY DEF Callbacks

LEMMA InitInv == Init => IInv
<1> SUFFICES ASSUME Init PROVE IInv
  OBVIOUS
<1> USE DomainsAssumption, CallbacksLength
<1>1. TypeOK /\ Served /\ Installing
  BY DEF Init, TypeOK, Served, Installing, Idle, Kinds
<1>2. Kept /\ Alive /\ Built /\ PeersNoticed
  BY DEF Init, Kept, Alive, Built, PeersNoticed, BeingAdded, Calling
<1> QED
  BY <1>1, <1>2 DEF IInv

-----------------------------------------------------------------------------
(***************************************************************************)
(* The main thread touches neither the callbacks nor the managers.         *)
(***************************************************************************)
LEMMA MainInv ==
  ASSUME IInv, LaunchServer \/ InstallCallback \/ Run \/ ReturnFromMain
  PROVE  IInv'
<1> USE DomainsAssumption, CallbacksLength DEF IInv, MainStep, clientVars, managerVars
<1>1. Kept' /\ Alive' /\ Built' /\ PeersNoticed'
  BY DEF LaunchServer, InstallCallback, Run, ReturnFromMain,
         Kept, Alive, Built, PeersNoticed, BeingAdded, Calling
<1>2. CASE LaunchServer
  <2>1. TypeOK' /\ Served' /\ Installing'
    BY <1>2 DEF LaunchServer, TypeOK, Served, Installing
  <2> QED
    BY <1>1, <2>1
<1>3. CASE InstallCallback
  <2>1. TypeOK' /\ Served' /\ Installing'
    BY <1>3 DEF InstallCallback, TypeOK, Served, Installing
  <2> QED
    BY <1>1, <2>1
<1>4. CASE Run
  <2>1. TypeOK' /\ Served' /\ Installing'
    BY <1>4 DEF Run, TypeOK, Served, Installing
  <2> QED
    BY <1>1, <2>1
<1>5. CASE ReturnFromMain
  <2>1. TypeOK' /\ Served' /\ Installing'
    BY <1>5 DEF ReturnFromMain, TypeOK, Served, Installing
  <2> QED
    BY <1>1, <2>1
<1> QED
  BY <1>2, <1>3, <1>4, <1>5

-----------------------------------------------------------------------------
(***************************************************************************)
(* Requests of clients come when no callback runs, and may start one.      *)
(***************************************************************************)
LEMMA RequestInv ==
  ASSUME IInv, Requests
  PROVE  IInv'
<1> USE DomainsAssumption DEF IInv, clientVars, managerVars
<1> PICK c \in Clients :
      \/ CreateParticipant(c) \/ DeleteParticipant(c)
      \/ \E kind \in Kinds : CreateObject(c, kind) \/ DeleteObject(c, kind)
  BY DEF Requests
<1>1. CASE CreateParticipant(c)
  <2>1. TypeOK' /\ Served' /\ Installing'
    BY <1>1 DEF CreateParticipant, Serving, Start, TypeOK, Calls, Idle,
                Served, Installing
  <2>2. objects[c] = {}
    BY <1>1 DEF CreateParticipant, Alive, TypeOK
  <2>3. Kept'
    BY <1>1 DEF CreateParticipant, Serving, Start, TypeOK, Kept, Idle,
                BeingAdded, Calling
  <2>4. Alive' /\ Built' /\ PeersNoticed'
    BY <1>1, <2>2 DEF CreateParticipant, Serving, Start, TypeOK, Idle, Calls,
                      Alive, Built, Phase, PeersNoticed, Calling
  <2> QED
    BY <2>1, <2>3, <2>4
<1>2. CASE DeleteParticipant(c)
  <2>1. TypeOK' /\ Served' /\ Installing'
    BY <1>2 DEF DeleteParticipant, Serving, Start, TypeOK, Calls, Idle,
                Served, Installing
  <2>2. Kept'
    BY <1>2 DEF DeleteParticipant, Serving, Start, TypeOK, Kept, Idle,
                BeingAdded, Calling
  <2>3. Alive' /\ Built' /\ PeersNoticed'
    BY <1>2 DEF DeleteParticipant, Serving, Start, TypeOK, Idle, Calls,
                Alive, Built, Phase, PeersNoticed, Calling
  <2> QED
    BY <2>1, <2>2, <2>3
<1>3. ASSUME NEW kind \in Kinds, CreateObject(c, kind)
      PROVE  IInv'
  <2>1. TypeOK' /\ Served' /\ Installing'
    BY <1>3 DEF CreateObject, Serving, Start, TypeOK, Calls, Idle,
                Served, Installing
  <2>2. Kept'
    BY <1>3 DEF CreateObject, Serving, Start, TypeOK, Kept, Idle,
                BeingAdded, Calling
  <2>3. Alive' /\ Built' /\ PeersNoticed'
    BY <1>3 DEF CreateObject, Serving, Start, TypeOK, Idle, Calls,
                Alive, Built, Phase, PeersNoticed, Calling
  <2> QED
    BY <2>1, <2>2, <2>3
<1>4. ASSUME NEW kind \in Kinds, DeleteObject(c, kind)
      PROVE  IInv'
  <2>1. TypeOK' /\ Served' /\ Installing'
    BY <1>4 DEF DeleteObject, Serving, Start, TypeOK, Calls, Idle,
                Served, Installing
  <2>2. Kept'
    BY <1>4 DEF DeleteObject, Serving, Start, TypeOK, Kept, Idle,
                BeingAdded, Calling
  <2>3. Alive' /\ Built' /\ PeersNoticed'
    BY <1>4 DEF DeleteObject, Serving, Start, TypeOK, Idle, Calls,
                Alive, Built, Phase, PeersNoticed, Calling
  <2> QED
    BY <2>1, <2>2, <2>3
<1> QED
  BY <1>1, <1>2, <1>3, <1>4

-----------------------------------------------------------------------------
(***************************************************************************)
(* Callbacks: the search for the manager, its construction and the calls   *)
(* into it.                                                                *)
(***************************************************************************)
LEMMA InCallbackFacts ==
  ASSUME IInv, RunCallback
  PROVE  /\ xrce # Idle
         /\ xrce \in [at : {"find", "create_datareader", "store_datareader",
                            "set_callback"} \union Calls,
                      client : Clients, call : Calls]
         /\ DomainOf[xrce.client] \in Domains
         /\ main \in {"install", "run"}
<1>1. xrce # Idle
  BY DEF RunCallback, FindOrCreateGraphManager, CreateDatareader, StoreDatareader,
         SetOnChangeCallback, AddParticipant, RemoveParticipant, AssociateEntity,
         RemoveEntity, Return, Idle
<1> QED
  BY <1>1, DomainsAssumption DEF IInv, TypeOK, Served

LEMMA FindInv ==
  ASSUME IInv, RunCallback,
         \/ FindOrCreateGraphManager \/ CreateDatareader
         \/ StoreDatareader \/ SetOnChangeCallback
  PROVE  IInv'
<1> USE DEF IInv, CallbackStep, clientVars, Own, ManagerOf
<1>1. /\ xrce' = [xrce EXCEPT !.at = xrce'.at]
      /\ xrce'.at \in {"create_datareader", "store_datareader", "set_callback", xrce.call}
      /\ xrce' # Idle
  BY InCallbackFacts DEF FindOrCreateGraphManager, CreateDatareader, StoreDatareader,
         SetOnChangeCallback, Continue, Idle
<1>2. TypeOK' /\ Served' /\ Installing'
  BY <1>1, InCallbackFacts
     DEF FindOrCreateGraphManager, CreateDatareader, StoreDatareader,
         SetOnChangeCallback, Build, TypeOK, Calls, Served, Installing
<1>3. Kept' /\ Alive' /\ PeersNoticed'
  BY <1>1, InCallbackFacts
     DEF FindOrCreateGraphManager, CreateDatareader, StoreDatareader,
         SetOnChangeCallback, Kept, Alive, PeersNoticed, BeingAdded, Calling
<1>4. Built'
  <2>1. \A d \in Domains : managers[d] = "up" => managers'[d] = "up"
    BY InCallbackFacts
       DEF FindOrCreateGraphManager, CreateDatareader, StoreDatareader,
           SetOnChangeCallback, Build, Built, TypeOK, Phase
  <2>2. \A d \in Domains : auxWriters'[d] # {} => managers'[d] = "up"
    BY <2>1 DEF FindOrCreateGraphManager, CreateDatareader, StoreDatareader,
                SetOnChangeCallback, Built
  <2>3. xrce'.at \in Calls =>
          xrce'.at = xrce'.call /\ managers'[DomainOf[xrce'.client]] = "up"
    BY InCallbackFacts
       DEF FindOrCreateGraphManager, CreateDatareader, StoreDatareader,
           SetOnChangeCallback, Build, Continue, TypeOK, Calls
  <2>4. xrce'.at \in DOMAIN Phase =>
          managers'[DomainOf[xrce'.client]] = Phase[xrce'.at]
    BY InCallbackFacts
       DEF FindOrCreateGraphManager, CreateDatareader, StoreDatareader,
           SetOnChangeCallback, Build, Continue, TypeOK, Calls, Phase
  <2> QED
    BY <2>2, <2>3, <2>4 DEF Built
<1> QED
  BY <1>2, <1>3, <1>4

LEMMA ReturnInv ==
  ASSUME IInv, RunCallback,
         AddParticipant \/ RemoveParticipant \/ AssociateEntity \/ RemoveEntity
  PROVE  IInv'
<1> USE DEF IInv, Own, ManagerOf, Notice
<1> DEFINE c == xrce.client
           d == DomainOf[c]
<1>1. /\ xrce' = Idle
      /\ UNCHANGED <<main, installed, objects, managers>>
  BY DEF AddParticipant, RemoveParticipant, AssociateEntity, RemoveEntity, Return
<1>2. /\ c \in Clients /\ d \in Domains
      /\ xrce.at = xrce.call
      /\ managers[d] = "up"
      /\ life[c] \in {"live", "unreported"}
      /\ xrce.call = "add_participant" => life[c] = "live"
      /\ xrce.call = "remove_participant" => objects[c] = {}
  BY InCallbackFacts
     DEF AddParticipant, RemoveParticipant, AssociateEntity, RemoveEntity, Return,
         Built, Alive, Calling, Calls
<1>3. UseAuxWriter => undefined' \in {undefined, "callback"}
  BY DEF UseAuxWriter
<1>4. TypeOK' /\ Served' /\ Installing'
  BY <1>1, <1>2, <1>3
     DEF AddParticipant, RemoveParticipant, AssociateEntity, RemoveEntity,
         TypeOK, Served, Installing
<1>5. Kept'
  <2>1. CASE AddParticipant
    BY <2>1, <1>1, <1>2
       DEF AddParticipant, Return, Kept, BeingAdded, Calling, TypeOK
  <2>2. CASE RemoveParticipant
    BY <2>2, <1>1, <1>2
       DEF RemoveParticipant, Return, Kept, BeingAdded, Calling, TypeOK
  <2>3. CASE AssociateEntity \/ RemoveEntity
    BY <2>3, <1>1, <1>2
       DEF AssociateEntity, RemoveEntity, Return, Kept, BeingAdded, Calling
  <2> QED
    BY <2>1, <2>2, <2>3
<1>6. Alive'
  BY <1>1, <1>2
     DEF AddParticipant, RemoveParticipant, AssociateEntity, RemoveEntity, Return,
         Alive, Calling, TypeOK
<1>7. Built'
  BY <1>1, <1>2
     DEF AddParticipant, RemoveParticipant, AssociateEntity, RemoveEntity,
         Built, TypeOK
<1>8. PeersNoticed'
  BY <1>1, <1>2
     DEF AddParticipant, RemoveParticipant, AssociateEntity, RemoveEntity,
         PeersNoticed, TypeOK
<1> QED
  BY <1>4, <1>5, <1>6, <1>7, <1>8

-----------------------------------------------------------------------------
(***************************************************************************)
(* Discovery and samples.                                                  *)
(***************************************************************************)
LEMMA OutsideInv ==
  ASSUME IInv, NEW d \in Domains,
         OnDiscoveryBeforeCallback(d) \/ OnDiscovery(d) \/ OnDataAvailable(d)
  PROVE  IInv'
<1> USE DEF IInv, OutsideStep, clientVars, OnDiscoveryBeforeCallback, OnDiscovery,
            OnDataAvailable
<1>1. TypeOK' /\ Served' /\ Installing'
  BY DEF TypeOK, Served, Installing, Notice
<1>2. Kept' /\ Alive' /\ Built'
  BY DEF Kept, Alive, Built, BeingAdded, Calling
<1>3. PeersNoticed'
  BY DEF PeersNoticed, Notice, Built
<1> QED
  BY <1>1, <1>2, <1>3

LEMMA StutterInv == ASSUME IInv, UNCHANGED vars PROVE IInv'
BY DEF IInv, vars, clientVars, managerVars, TypeOK, Kept, Alive, Built, Served,
       Installing, PeersNoticed, BeingAdded, Calling

LEMMA NextInv == ASSUME IInv, [Next]_vars PROVE IInv'
<1>1. CASE LaunchServer \/ InstallCallback \/ Run \/ ReturnFromMain
  BY <1>1, MainInv
<1>2. CASE Requests
  BY <1>2, RequestInv
<1>3. CASE RunCallback
  BY <1>3, FindInv, ReturnInv DEF RunCallback
<1>4. CASE \E d \in Domains :
             OnDiscoveryBeforeCallback(d) \/ OnDiscovery(d) \/ OnDataAvailable(d)
  BY <1>4, OutsideInv
<1>5. CASE UNCHANGED vars
  BY <1>5, StutterInv
<1> QED
  BY <1>1, <1>2, <1>3, <1>4, <1>5 DEF Next

LEMMA Inductive == Spec => []IInv
BY InitInv, NextInv, PTL DEF Spec

-----------------------------------------------------------------------------
(***************************************************************************)
(* The theorems.                                                           *)
(***************************************************************************)

\* The variables of Agent keep their types (Agent.hpp:47-48).
THEOREM TypeCorrect == Spec => []TypeOK
BY Inductive, PTL DEF IInv

\* A client is with the manager of its domain and with no other one, for any
\* number of domains and clients (Agent.cpp:294-309).
THEOREM ClientsRouted == Spec => []Routed
<1>1. IInv => Routed
  BY DEF IInv, Kept, Routed, InCallback, BeingAdded, Calling
<1> QED
  BY <1>1, Inductive, PTL

\* Only a client served before the first callback was installed is without an
\* auxiliary datawriter when a callback uses it (Agent.cpp:35-52).
THEOREM OnlyEarly == Spec => []OnlyEarlyClients
<1>1. IInv => OnlyEarlyClients
  <2> SUFFICES ASSUME IInv, xrce.at \in {"associate_entity", "remove_participant"},
                      life[xrce.client] # "unreported"
               PROVE  xrce.client \in auxWriters[DomainOf[xrce.client]]
    BY DEF OnlyEarlyClients
  <2>1. xrce # Idle
    BY DEF Idle
  <2>2. /\ xrce.client \in Clients
        /\ DomainOf[xrce.client] \in Domains
        /\ xrce.call = xrce.at
    BY <2>1, DomainsAssumption DEF IInv, TypeOK, Built, Calls
  <2>3. life[xrce.client] = "live"
    BY <2>1, <2>2 DEF IInv, Alive, Calling
  <2> QED
    BY <2>1, <2>2, <2>3 DEF IInv, Kept, BeingAdded
<1> QED
  BY <1>1, Inductive, PTL

\* No client waits for a graph with the peers that were discovered before the
\* cache could tell the publisher (graph_manager.cpp:65-137).
THEOREM NoticedBeforeServed == Spec => []PeersNoticed
BY Inductive, PTL DEF IInv

\* A manager is never replaced and never loses the auxiliary datawriter of a
\* participant that is still there (Agent.cpp:297-308).
THEOREM Keeps == Spec => ManagersKept
<1> DEFINE Step ==
      \A d \in Domains : managers[d] = "up" =>
        /\ managers'[d] = "up"
        /\ \A c \in auxWriters[d] \ auxWriters'[d] : life'[c] = "gone"
<1>1. ASSUME IInv, Next PROVE Step
  <2>1. CASE RunCallback
    <3>1. CASE \/ FindOrCreateGraphManager \/ CreateDatareader
               \/ StoreDatareader \/ SetOnChangeCallback
      BY <1>1, <2>1, <3>1, InCallbackFacts
         DEF FindOrCreateGraphManager, CreateDatareader, StoreDatareader,
             SetOnChangeCallback, Build, Built, TypeOK, Phase, IInv, Own, ManagerOf
    <3>2. CASE AddParticipant \/ RemoveParticipant \/ AssociateEntity \/ RemoveEntity
      BY <1>1, <2>1, <3>2, InCallbackFacts
         DEF AddParticipant, RemoveParticipant, AssociateEntity, RemoveEntity,
             Return, TypeOK, IInv, Own, ManagerOf
    <3> QED
      BY <2>1, <3>1, <3>2 DEF RunCallback
  <2>2. CASE LaunchServer \/ InstallCallback \/ Run \/ ReturnFromMain
    BY <2>2 DEF LaunchServer, InstallCallback, Run, ReturnFromMain, MainStep, managerVars
  <2>3. CASE Requests
    BY <2>3 DEF Requests, CreateParticipant, DeleteParticipant, CreateObject,
                DeleteObject, managerVars
  <2>4. CASE \E d \in Domains :
               OnDiscoveryBeforeCallback(d) \/ OnDiscovery(d) \/ OnDataAvailable(d)
    BY <2>4 DEF OnDiscoveryBeforeCallback, OnDiscovery, OnDataAvailable, OutsideStep
  <2> QED
    BY <1>1, <2>1, <2>2, <2>3, <2>4 DEF Next
<1>2. ASSUME IInv, [Next]_vars PROVE [Step]_vars
  BY <1>1, <1>2
<1> QED
  BY <1>2, Inductive, PTL DEF Spec, ManagersKept
=============================================================================
