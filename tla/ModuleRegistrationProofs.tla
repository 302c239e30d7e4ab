------------------------ MODULE ModuleRegistrationProofs ------------------------
(***************************************************************************)
(* Proofs about ModuleRegistration, for any number of calls and restarts.  *)
(* The inductive invariant says where the three threads can be together:   *)
(* before init has started the client no thread but the application's is   *)
(* in anything, and outside the window that early records a later          *)
(* setCapabilities finds the receive thread done with the first reply.     *)
(***************************************************************************)
EXTENDS ModuleRegistration, TLAPS

USE ConstantsAssumption DEF ConstantsAssumption

Setting == appPc \in {"append", "build", "store", "advertise"}

\* The order of init: the flags are raised one after the other.
InitOrder ==
  /\ initialized => running /\ started
  /\ appPc \in {"setup", "start", "started", "health"} => ~initialized
  /\ appPc \in {"setup", "start"} => ~running
  /\ appPc \in {"started", "health"} => running
  /\ appPc = "health" => started
  /\ appPc \in {"build", "store", "advertise", "ready"} => initialized
  /\ appPc = "append" /\ ~initialized => ~running
  /\ ~running => ~firstReceived /\ rxPc = "idle" /\ ~sent

\* One of the two threads at most rebuilds the ID message.
Apart ==
  /\ rxPc \in {"build", "store"} => ~firstReceived
  /\ rxPc = "advertise" => firstReceived
  /\ ~early /\ rxPc = "advertise" => ~sent
  /\ ~early /\ Setting /\ initialized => firstReceived /\ rxPc = "idle"
  /\ ~early /\ appPc = "advertise" => ~sent

\* What they build it from is the hash of the adverts in force.
Hashed ==
  /\ appPc # "append" => ch = adverts
  /\ ~early /\ rxPc = "store" => rxId.ch = adverts
  /\ ~early /\ appPc = "store" => appId.ch = adverts
  /\ ~early /\ appPc \in {"advertise", "start", "started", "health", "ready"}
       => jsonId.ch = adverts

\* A thread that is about to volunteer the advert has not done so.
Counted ==
  /\ byApp <= 1 /\ byRx <= 1
  /\ sent <=> byApp + byRx > 0
  /\ appPc = "advertise" => byApp = 0
  /\ rxPc = "advertise" \/ ~firstReceived => byRx = 0
  /\ byApp + byRx = 2 => early

\* While a registered module has not volunteered an advert that is set, the
\* application is on its way to: it will find the party known.
Volunteering ==
  /\ firstReceived \/ rxPc \in {"build", "store"} => party
  /\ firstReceived /\ rxPc = "idle" /\ adverts # 0 /\ ~sent => Setting /\ initialized

IInv == TypeOK /\ InitOrder /\ Apart /\ Hashed /\ Counted /\ Volunteering

-----------------------------------------------------------------------------
LEMMA IdIsMessage ==
  ASSUME NEW z \in BOOLEAN, NEW h \in Versions
  PROVE  Id(z, h) \in IdMessages /\ Id(z, h).ch = h /\ NoId \in IdMessages
BY DEF Id, IdMessages, NoId, Versions

LEMMA InitInvariant == Init => IInv
<1> SUFFICES ASSUME Init PROVE IInv
  OBVIOUS
<1>1. NoId \in IdMessages
  BY DEF NoId, IdMessages, Versions
<1>2. TypeOK
  <2>1. {appId, rxId, jsonId} \subseteq IdMessages
    BY <1>1 DEF Init
  <2>2. adverts \in Versions /\ ch \in Versions /\ brokerAdvert \in Versions
    BY DEF Init, Versions
  <2>3. {running, started, initialized, party, firstReceived, sent} \subseteq BOOLEAN
    BY DEF Init
  <2>4. restarts \in 0..MaxRestarts /\ byApp \in Nat /\ byRx \in Nat
    BY DEF Init
  <2>5. toBroker \subseteq BrokerMessages /\ toModule \subseteq {"reply", "request"}
    BY DEF Init
  <2>6. appPc = "setup" /\ rxPc = "idle" /\ early \in BOOLEAN
    BY DEF Init
  <2> QED BY <2>1, <2>2, <2>3, <2>4, <2>5, <2>6 DEF TypeOK
<1>3. InitOrder /\ Apart /\ Hashed /\ Counted /\ Volunteering
  BY DEF Init, InitOrder, Apart, Hashed, Counted, Volunteering, Setting
<1> QED BY <1>2, <1>3 DEF IInv

LEMMA SendTypes ==
  ASSUME TypeOK, SendCapabilities
  PROVE  toBroker' \subseteq BrokerMessages
BY DEF TypeOK, SendCapabilities, BrokerMessages

\* Every action keeps the types.
LEMMA TypesKept == ASSUME TypeOK, [Next]_vars PROVE TypeOK'
<1> USE DEF TypeOK
<1>1. CASE SetCapabilities
  BY <1>1 DEF SetCapabilities, Versions, brokerVars
<1>2. CASE AppStep
  <2>1. CASE AppendHash
    BY <2>1 DEF AppendHash, brokerVars
  <2>2. CASE AppBuildId
    BY <2>2, IdIsMessage DEF AppBuildId, brokerVars
  <2>3. CASE AppStoreId
    BY <2>3 DEF AppStoreId, brokerVars
  <2>4. CASE AppAdvertise
    BY <2>4, SendTypes DEF AppAdvertise, Advertise, brokerVars
  <2> QED BY <1>2, <2>1, <2>2, <2>3, <2>4 DEF AppStep
<1>3. CASE InitModule
  <2>1. CASE InitBuildId
    BY <2>1, IdIsMessage DEF InitBuildId, brokerVars
  <2>2. CASE StartThreads \/ MarkStarted \/ MarkInitialized
    BY <2>2 DEF StartThreads, MarkStarted, MarkInitialized, brokerVars
  <2> QED BY <1>3, <2>1, <2>2 DEF InitModule
<1>4. CASE SendId
  BY <1>4 DEF SendId, moduleVars, brokerVars, BrokerMessages
<1>5. CASE ReceiveReply
  BY <1>5 DEF ReceiveReply, brokerVars
<1>6. CASE RxStep
  <2>1. CASE RxBuildId
    BY <2>1, IdIsMessage DEF RxBuildId, brokerVars
  <2>2. CASE RxStoreId
    BY <2>2 DEF RxStoreId, brokerVars
  <2>3. CASE RxAdvertise
    BY <2>3, SendTypes DEF RxAdvertise, Advertise, brokerVars
  <2> QED BY <1>6, <2>1, <2>2, <2>3 DEF RxStep
<1>7. CASE ReceiveRequest
  BY <1>7, SendTypes DEF ReceiveRequest, moduleVars, brokerVars
<1>8. CASE BrokerReceivesId
  BY <1>8 DEF BrokerReceivesId, moduleVars, brokerVars
<1>9. CASE BrokerReceivesCaps
  <2>1. PICK m \in toBroker : m.kind = "caps" /\ toBroker' = toBroker \ {m} /\ brokerAdvert' = m.version
    BY <1>9 DEF BrokerReceivesCaps
  <2>2. m \in BrokerMessages /\ m.kind # "id"
    BY <2>1
  <2>3. m.version \in Versions
    BY <2>2 DEF BrokerMessages
  <2> QED BY <1>9, <2>1, <2>3 DEF BrokerReceivesCaps, moduleVars
<1>10. CASE BrokerRestarts
  BY <1>10 DEF BrokerRestarts, moduleVars, Versions
<1>11. CASE Lose
  BY <1>11 DEF Lose, moduleVars, brokerVars
<1>12. CASE UNCHANGED vars
  BY <1>12 DEF vars, moduleVars, brokerVars
<1> QED BY <1>1, <1>2, <1>3, <1>4, <1>5, <1>6, <1>7, <1>8, <1>9, <1>10, <1>11, <1>12 DEF Next

\* The flags are Booleans, before a step and after it.
LEMMA Flags ==
  ASSUME IInv
  PROVE  /\ running \in BOOLEAN /\ started \in BOOLEAN /\ initialized \in BOOLEAN
         /\ party \in BOOLEAN /\ firstReceived \in BOOLEAN /\ sent \in BOOLEAN
         /\ early \in BOOLEAN
BY DEF IInv, TypeOK

LEMMA OrderKept == ASSUME IInv, [Next]_vars PROVE InitOrder'
<1> USE Flags DEF IInv, InitOrder
<1>1. CASE SetCapabilities
  BY <1>1 DEF SetCapabilities
<1>2. CASE AppendHash
  BY <1>2 DEF AppendHash
<1>3. CASE AppBuildId
  BY <1>3 DEF AppBuildId
<1>4. CASE AppStoreId
  BY <1>4 DEF AppStoreId
<1>5. CASE AppAdvertise
  BY <1>5 DEF AppAdvertise, Advertise
<1>6. CASE InitBuildId
  BY <1>6 DEF InitBuildId
<1>7. CASE StartThreads
  BY <1>7 DEF StartThreads
<1>8. CASE MarkStarted
  BY <1>8 DEF MarkStarted
<1>9. CASE MarkInitialized
  BY <1>9 DEF MarkInitialized
<1>10. CASE ReceiveReply
  BY <1>10 DEF ReceiveReply
<1>11. CASE RxBuildId
  BY <1>11 DEF RxBuildId
<1>12. CASE RxStoreId
  BY <1>12 DEF RxStoreId
<1>13. CASE RxAdvertise
  BY <1>13 DEF RxAdvertise, Advertise
<1>14. CASE UNCHANGED moduleVars
  BY <1>14 DEF moduleVars
<1> QED BY <1>1, <1>2, <1>3, <1>4, <1>5, <1>6, <1>7, <1>8, <1>9, <1>10, <1>11, <1>12, <1>13, <1>14
  DEF Next, AppStep, InitModule, RxStep, SendId, ReceiveRequest, BrokerReceivesId,
      BrokerReceivesCaps, BrokerRestarts, Lose, vars

LEMMA ApartKept == ASSUME IInv, [Next]_vars PROVE Apart'
<1> USE Flags DEF IInv, InitOrder, Apart, Setting
<1>1. CASE SetCapabilities
  BY <1>1 DEF SetCapabilities, Registered
<1>2. CASE AppendHash
  BY <1>2 DEF AppendHash
<1>3. CASE AppBuildId
  BY <1>3 DEF AppBuildId
<1>4. CASE AppStoreId
  BY <1>4 DEF AppStoreId
<1>5. CASE AppAdvertise
  BY <1>5 DEF AppAdvertise, Advertise
<1>6. CASE InitBuildId
  BY <1>6 DEF InitBuildId
<1>7. CASE StartThreads
  BY <1>7 DEF StartThreads
<1>8. CASE MarkStarted
  BY <1>8 DEF MarkStarted
<1>9. CASE MarkInitialized
  BY <1>9 DEF MarkInitialized
<1>10. CASE ReceiveReply
  BY <1>10 DEF ReceiveReply
<1>11. CASE RxBuildId
  BY <1>11 DEF RxBuildId
<1>12. CASE RxStoreId
  BY <1>12 DEF RxStoreId
<1>13. CASE RxAdvertise
  BY <1>13 DEF RxAdvertise, Advertise
<1>14. CASE UNCHANGED moduleVars
  BY <1>14 DEF moduleVars
<1> QED BY <1>1, <1>2, <1>3, <1>4, <1>5, <1>6, <1>7, <1>8, <1>9, <1>10, <1>11, <1>12, <1>13, <1>14
  DEF Next, AppStep, InitModule, RxStep, SendId, ReceiveRequest, BrokerReceivesId,
      BrokerReceivesCaps, BrokerRestarts, Lose, vars

LEMMA HashedKept == ASSUME IInv, [Next]_vars PROVE Hashed'
<1> USE Flags DEF IInv, InitOrder, Apart, Hashed, Setting
<1>1. CASE SetCapabilities
  BY <1>1 DEF SetCapabilities, Registered
<1>2. CASE AppendHash
  BY <1>2 DEF AppendHash
<1>3. CASE AppBuildId
  BY <1>3 DEF AppBuildId, Id
<1>4. CASE AppStoreId
  BY <1>4 DEF AppStoreId
<1>5. CASE AppAdvertise
  BY <1>5 DEF AppAdvertise
<1>6. CASE InitBuildId
  BY <1>6 DEF InitBuildId, Id
<1>7. CASE StartThreads
  BY <1>7 DEF StartThreads
<1>8. CASE MarkStarted
  BY <1>8 DEF MarkStarted
<1>9. CASE MarkInitialized
  BY <1>9 DEF MarkInitialized
<1>10. CASE ReceiveReply
  BY <1>10 DEF ReceiveReply
<1>11. CASE RxBuildId
  BY <1>11 DEF RxBuildId, Id
<1>12. CASE RxStoreId
  BY <1>12 DEF RxStoreId
<1>13. CASE RxAdvertise
  BY <1>13 DEF RxAdvertise
<1>14. CASE UNCHANGED moduleVars
  BY <1>14 DEF moduleVars
<1> QED BY <1>1, <1>2, <1>3, <1>4, <1>5, <1>6, <1>7, <1>8, <1>9, <1>10, <1>11, <1>12, <1>13, <1>14
  DEF Next, AppStep, InitModule, RxStep, SendId, ReceiveRequest, BrokerReceivesId,
      BrokerReceivesCaps, BrokerRestarts, Lose, vars

LEMMA Counts == ASSUME IInv PROVE byApp \in Nat /\ byRx \in Nat /\ adverts \in Nat
BY DEF IInv, TypeOK, Versions

LEMMA CountedKept == ASSUME IInv, [Next]_vars PROVE Counted'
<1> USE Flags, Counts DEF IInv, InitOrder, Apart, Counted
<1>1. CASE SetCapabilities
  BY <1>1 DEF SetCapabilities
<1>2. CASE AppendHash
  BY <1>2 DEF AppendHash
<1>3. CASE AppBuildId
  BY <1>3 DEF AppBuildId
<1>4. CASE AppStoreId
  BY <1>4 DEF AppStoreId
<1>5. CASE AppAdvertise
  BY <1>5 DEF AppAdvertise, Advertise
<1>6. CASE InitBuildId
  BY <1>6 DEF InitBuildId
<1>7. CASE StartThreads
  BY <1>7 DEF StartThreads
<1>8. CASE MarkStarted
  BY <1>8 DEF MarkStarted
<1>9. CASE MarkInitialized
  BY <1>9 DEF MarkInitialized
<1>10. CASE ReceiveReply
  BY <1>10 DEF ReceiveReply
<1>11. CASE RxBuildId
  BY <1>11 DEF RxBuildId
<1>12. CASE RxStoreId
  BY <1>12 DEF RxStoreId
<1>13. CASE RxAdvertise
  BY <1>13 DEF RxAdvertise, Advertise
<1>14. CASE UNCHANGED moduleVars
  BY <1>14 DEF moduleVars
<1> QED BY <1>1, <1>2, <1>3, <1>4, <1>5, <1>6, <1>7, <1>8, <1>9, <1>10, <1>11, <1>12, <1>13, <1>14
  DEF Next, AppStep, InitModule, RxStep, SendId, ReceiveRequest, BrokerReceivesId,
      BrokerReceivesCaps, BrokerRestarts, Lose, vars

LEMMA VolunteeringKept == ASSUME IInv, [Next]_vars PROVE Volunteering'
<1> USE Flags, Counts DEF IInv, InitOrder, Volunteering, Setting
<1>1. CASE SetCapabilities
  BY <1>1 DEF SetCapabilities
<1>2. CASE AppendHash
  BY <1>2 DEF AppendHash
<1>3. CASE AppBuildId
  BY <1>3 DEF AppBuildId
<1>4. CASE AppStoreId
  BY <1>4 DEF AppStoreId
<1>5. CASE AppAdvertise
  BY <1>5 DEF AppAdvertise, Advertise
<1>6. CASE InitBuildId
  BY <1>6 DEF InitBuildId
<1>7. CASE StartThreads
  BY <1>7 DEF StartThreads
<1>8. CASE MarkStarted
  BY <1>8 DEF MarkStarted
<1>9. CASE MarkInitialized
  BY <1>9 DEF MarkInitialized
<1>10. CASE ReceiveReply
  BY <1>10 DEF ReceiveReply
<1>11. CASE RxBuildId
  BY <1>11 DEF RxBuildId
<1>12. CASE RxStoreId
  BY <1>12 DEF RxStoreId
<1>13. CASE RxAdvertise
  BY <1>13 DEF RxAdvertise, Advertise
<1>14. CASE UNCHANGED moduleVars
  BY <1>14 DEF moduleVars
<1> QED BY <1>1, <1>2, <1>3, <1>4, <1>5, <1>6, <1>7, <1>8, <1>9, <1>10, <1>11, <1>12, <1>13, <1>14
  DEF Next, AppStep, InitModule, RxStep, SendId, ReceiveRequest, BrokerReceivesId,
      BrokerReceivesCaps, BrokerRestarts, Lose, vars

LEMMA Invariance == Spec => []IInv
<1>1. ASSUME IInv, [Next]_vars PROVE IInv'
  <2>1. TypeOK' BY <1>1, TypesKept DEF IInv
  <2>2. InitOrder' BY <1>1, OrderKept
  <2>3. Apart' BY <1>1, ApartKept
  <2>4. Hashed' BY <1>1, HashedKept
  <2>5. Counted' BY <1>1, CountedKept
  <2>6. Volunteering' BY <1>1, VolunteeringKept
  <2> QED BY <2>1, <2>2, <2>3, <2>4, <2>5, <2>6 DEF IInv
<1> QED BY <1>1, InitInvariant, PTL DEF Spec

-----------------------------------------------------------------------------
\* The variables of the module and of the communicator keep their types.
THEOREM TypeCorrect == Spec => []TypeOK
<1>1. IInv => TypeOK
  BY DEF IInv
<1> QED BY <1>1, Invariance, PTL

\* However often setCapabilities is called, the communicator restarts and
\* messages are lost: outside the window between init and the end of the first
\* reply, the ID message that is resent has the hash of the adverts in force.
THEOREM HashIsCurrent == Spec => []IdCarriesHashOutsideWindow
<1>1. IInv => IdCarriesHashOutsideWindow
  BY DEF IInv, Hashed, IdCarriesHashOutsideWindow, IdCarriesHash
<1> QED BY <1>1, Invariance, PTL

\* However the application and the receive thread interleave, each volunteers
\* the advert once at most, both only within that window, and never neither.
THEOREM AdvertIsVolunteered == Spec => []AdvertVolunteered
<1>1. IInv => AdvertVolunteered
  BY Counts DEF IInv, Counted, Volunteering, Setting, AdvertVolunteered
<1> QED BY <1>1, Invariance, PTL
=============================================================================
