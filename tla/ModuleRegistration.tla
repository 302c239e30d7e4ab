------------------------- MODULE ModuleRegistration -------------------------
(***************************************************************************)
(* How a module registers with the communicator and publishes its          *)
(* capability adverts (CModule in de_databus/de_module.cpp over CUDPClient *)
(* or CUnixDgramClient).                                                   *)
(*                                                                         *)
(* Three threads of the module touch the same unlocked fields: the         *)
(* application's thread runs setCapabilities and init, the ID thread sends *)
(* m_JsonID every second, and the receive thread handles the               *)
(* communicator's answers.  createJSONID reads the fields and stores the   *)
(* ID message in two steps.  The communicator is not part of the           *)
(* repository: it is modelled by what the module's handlers expect of it.  *)
(***************************************************************************)
EXTENDS Naturals

CONSTANTS
  MaxVersions,       \* calls of setCapabilities, before init or after it (bound)
  MaxRestarts        \* restarts of the communicator (bound)

ASSUME ConstantsAssumption ==
  /\ MaxVersions \in Nat
  /\ MaxRestarts \in Nat

VARIABLES
  appPc, rxPc,       \* control points of the application and receive threads
  appId, rxId,       \* the ID message a thread has built and not stored yet
  adverts,           \* m_capability_adverts, by version; 0: none set
  ch,                \* m_stdinValues["ch"]: the hash of that version, 0: absent
  jsonId,            \* the client's m_JsonID
  running,           \* the client's receive and ID threads run
  started,           \* m_starrted
  initialized,       \* m_initialized
  party,             \* m_party_id is known
  firstReceived,     \* bFirstReceived
  sent,              \* m_capabilities_sent
  toBroker,          \* messages on their way to the communicator
  toModule,          \* messages on their way to the module
  brokerAdvert,      \* the advert version the communicator holds, 0: none
  restarts,          \* communicator restarts so far
  byApp, byRx,       \* history: adverts a thread has sent without being asked for
  early              \* history: setCapabilities was called after init and before
                     \* the first reply had been handled

moduleVars == <<appPc, rxPc, appId, rxId, adverts, ch, jsonId, running, started,
                initialized, party, firstReceived, sent, byApp, byRx, early>>
brokerVars == <<brokerAdvert, restarts>>
vars == <<moduleVars, toBroker, toModule, brokerVars>>

Versions == 0..MaxVersions
NoId == [z |-> FALSE, ch |-> 0, set |-> FALSE]
\* Mutant: the extra fields are not copied into the message.
IdWithoutExtra(z, h) == [z |-> z, set |-> TRUE]

Id(z, h) == [z |-> z, ch |-> h, set |-> TRUE]
IdMessages == [z : BOOLEAN, ch : Versions, set : BOOLEAN]
BrokerMessages == [kind : {"id"}, id : IdMessages] \cup [kind : {"caps"}, version : Versions]

Init ==
  /\ appPc = "setup" /\ rxPc = "idle"
  /\ appId = NoId /\ rxId = NoId /\ jsonId = NoId
  /\ adverts = 0 /\ ch = 0
  /\ running = FALSE /\ started = FALSE /\ initialized = FALSE
  /\ party = FALSE /\ firstReceived = FALSE /\ sent = FALSE
  /\ toBroker = {} /\ toModule = {}
  /\ brokerAdvert = 0 /\ restarts = 0
  /\ byApp = 0 /\ byRx = 0 /\ early = FALSE

\* sendCapabilities through CModule::sendMSG, which drops the message unless
\* the client says it is started.
SendCapabilities ==
  toBroker' = IF started THEN toBroker \cup {[kind |-> "caps", version |-> adverts]}
              ELSE toBroker

\* Mutant: the flag is never set.
AdvertiseUnmarked ==
  /\ UNCHANGED sent
  /\ SendCapabilities

\* The advert goes out unasked, once: the flag was read in an earlier step.
Advertise ==
  /\ sent' = TRUE
  /\ SendCapabilities

-----------------------------------------------------------------------------
(* The application's thread: setCapabilities and init.                     *)

Registered == firstReceived /\ rxPc = "idle"

SetCapabilities ==
  /\ appPc \in {"setup", "ready"}
  /\ adverts < MaxVersions
  /\ adverts' = adverts + 1
  /\ appPc' = "append"
  /\ early' = (early \/ (appPc = "ready" /\ ~Registered))
  /\ UNCHANGED <<rxPc, appId, rxId, ch, jsonId, running, started, initialized, party,
                 firstReceived, sent, byApp, byRx, toBroker, toModule, brokerVars>>

\* Mutant: the ID message of an initialized module is not rebuilt.
AppendHashOnly ==
  /\ appPc = "append"
  /\ ch' = adverts
  /\ appPc' = IF initialized THEN "ready" ELSE "setup"
  /\ UNCHANGED <<rxPc, appId, rxId, adverts, jsonId, running, started, initialized,
                 party, firstReceived, sent, byApp, byRx, toBroker, toModule, early, brokerVars>>

\* appendExtraField("ch") and the two capAddToFilter; a call before init ends here.
AppendHash ==
  /\ appPc = "append"
  /\ ch' = adverts
  /\ appPc' = IF initialized THEN "build" ELSE "setup"
  /\ UNCHANGED <<rxPc, appId, rxId, adverts, jsonId, running, started, initialized,
                 party, firstReceived, sent, byApp, byRx, toBroker, toModule, early, brokerVars>>

\* createJSONID(false) refreshes the cached ID message.
AppBuildId ==
  /\ appPc = "build"
  /\ appId' = Id(FALSE, ch)
  /\ appPc' = "store"
  /\ UNCHANGED <<rxPc, rxId, adverts, ch, jsonId, running, started, initialized, party,
                 firstReceived, sent, byApp, byRx, toBroker, toModule, early, brokerVars>>

AppStoreId ==
  /\ appPc = "store"
  /\ jsonId' = appId
  /\ appPc' = IF party /\ ~sent THEN "advertise" ELSE "ready"
  /\ UNCHANGED <<rxPc, appId, rxId, adverts, ch, running, started, initialized, party,
                 firstReceived, sent, byApp, byRx, toBroker, toModule, early, brokerVars>>

AppAdvertise ==
  /\ appPc = "advertise"
  /\ Advertise
  /\ byApp' = byApp + 1
  /\ appPc' = "ready"
  /\ UNCHANGED <<rxPc, appId, rxId, adverts, ch, jsonId, running, started, initialized,
                 party, firstReceived, byRx, toModule, early, brokerVars>>

\* Mutant: the first ID message does not ask for an answer.
InitBuildSilentId ==
  /\ appPc = "setup"
  /\ jsonId' = Id(FALSE, ch)
  /\ appPc' = "start"
  /\ UNCHANGED <<rxPc, appId, rxId, adverts, ch, running, started, initialized, party,
                 firstReceived, sent, byApp, byRx, toBroker, toModule, early, brokerVars>>

\* init: the ID message is built before any thread runs, asking for an answer.
InitBuildId ==
  /\ appPc = "setup"
  /\ jsonId' = Id(TRUE, ch)
  /\ appPc' = "start"
  /\ UNCHANGED <<rxPc, appId, rxId, adverts, ch, running, started, initialized, party,
                 firstReceived, sent, byApp, byRx, toBroker, toModule, early, brokerVars>>

\* client.start(): the threads run before m_starrted says so.
StartThreads ==
  /\ appPc = "start"
  /\ running' = TRUE
  /\ appPc' = "started"
  /\ UNCHANGED <<rxPc, appId, rxId, adverts, ch, jsonId, started, initialized, party,
                 firstReceived, sent, byApp, byRx, toBroker, toModule, early, brokerVars>>

MarkStarted ==
  /\ appPc = "started"
  /\ started' = TRUE
  /\ appPc' = "health"
  /\ UNCHANGED <<rxPc, appId, rxId, adverts, ch, jsonId, running, initialized, party,
                 firstReceived, sent, byApp, byRx, toBroker, toModule, early, brokerVars>>

MarkInitialized ==
  /\ appPc = "health"
  /\ initialized' = TRUE
  /\ appPc' = "ready"
  /\ UNCHANGED <<rxPc, appId, rxId, adverts, ch, jsonId, running, started, party,
                 firstReceived, sent, byApp, byRx, toBroker, toModule, early, brokerVars>>

-----------------------------------------------------------------------------
(* The ID thread and the receive thread.                                   *)

\* InternelSenderIDEntry calls the client's sendMSG, which does not look at
\* m_starrted.
SendId ==
  /\ running
  /\ jsonId # NoId
  /\ toBroker' = toBroker \cup {[kind |-> "id", id |-> jsonId]}
  /\ UNCHANGED <<moduleVars, toModule, brokerVars>>

\* onReceive, TypeAndruavModule_ID: the communicator's party record.
ReceiveReply ==
  /\ running /\ rxPc = "idle"
  /\ "reply" \in toModule
  /\ toModule' = toModule \ {"reply"}
  /\ party' = TRUE
  /\ rxPc' = IF firstReceived THEN "idle" ELSE "build"
  /\ UNCHANGED <<appPc, appId, rxId, adverts, ch, jsonId, running, started, initialized,
                 firstReceived, sent, byApp, byRx, toBroker, early, brokerVars>>

\* Mutant: the message that follows the reply still asks for one.
RxBuildAskingId ==
  /\ rxPc = "build"
  /\ rxId' = Id(TRUE, ch)
  /\ rxPc' = "store"
  /\ UNCHANGED <<appPc, appId, adverts, ch, jsonId, running, started, initialized, party,
                 firstReceived, sent, byApp, byRx, toBroker, toModule, early, brokerVars>>

RxBuildId ==
  /\ rxPc = "build"
  /\ rxId' = Id(FALSE, ch)
  /\ rxPc' = "store"
  /\ UNCHANGED <<appPc, appId, adverts, ch, jsonId, running, started, initialized, party,
                 firstReceived, sent, byApp, byRx, toBroker, toModule, early, brokerVars>>

RxStoreId ==
  /\ rxPc = "store"
  /\ jsonId' = rxId
  /\ firstReceived' = TRUE
  /\ rxPc' = IF ~sent /\ adverts # 0 THEN "advertise" ELSE "idle"
  /\ UNCHANGED <<appPc, appId, rxId, adverts, ch, running, started, initialized, party,
                 sent, byApp, byRx, toBroker, toModule, early, brokerVars>>

RxAdvertise ==
  /\ rxPc = "advertise"
  /\ Advertise
  /\ byRx' = byRx + 1
  /\ rxPc' = "idle"
  /\ UNCHANGED <<appPc, appId, rxId, adverts, ch, jsonId, running, started, initialized,
                 party, firstReceived, byApp, toModule, early, brokerVars>>

\* Mutant: a request is served only if the advert never went out.
ReceiveRequestOnce ==
  /\ running /\ rxPc = "idle"
  /\ "request" \in toModule
  /\ toModule' = toModule \ {"request"}
  /\ IF sent THEN UNCHANGED toBroker ELSE SendCapabilities
  /\ UNCHANGED <<moduleVars, brokerVars>>

\* onReceive, MODULE_CAPABILITIES with r: the communicator asks for the advert.
ReceiveRequest ==
  /\ running /\ rxPc = "idle"
  /\ "request" \in toModule
  /\ toModule' = toModule \ {"request"}
  /\ SendCapabilities
  /\ UNCHANGED <<moduleVars, brokerVars>>

-----------------------------------------------------------------------------
(* The communicator (external) and the network between the two.            *)

\* It answers an ID message that asks for it, and asks for the advert when the
\* hash in the ID message is not the one it holds.
BrokerReceivesId ==
  \E m \in toBroker :
    /\ m.kind = "id"
    /\ toBroker' = toBroker \ {m}
    /\ toModule' = toModule
         \cup (IF m.id.z THEN {"reply"} ELSE {})
         \cup (IF m.id.ch \notin {0, brokerAdvert} THEN {"request"} ELSE {})
    /\ UNCHANGED <<moduleVars, brokerVars>>

BrokerReceivesCaps ==
  \E m \in toBroker :
    /\ m.kind = "caps"
    /\ toBroker' = toBroker \ {m}
    /\ brokerAdvert' = m.version
    /\ UNCHANGED <<moduleVars, toModule, restarts>>

BrokerRestarts ==
  /\ restarts < MaxRestarts
  /\ restarts' = restarts + 1
  /\ brokerAdvert' = 0
  /\ UNCHANGED <<moduleVars, toBroker, toModule>>

\* A datagram is lost on either way.
Lose ==
  /\ \/ \E m \in toBroker : toBroker' = toBroker \ {m} /\ UNCHANGED toModule
     \/ \E m \in toModule : toModule' = toModule \ {m} /\ UNCHANGED toBroker
  /\ UNCHANGED <<moduleVars, brokerVars>>
-----------------------------------------------------------------------------

InitModule == InitBuildId \/ StartThreads \/ MarkStarted \/ MarkInitialized
AppStep == AppendHash \/ AppBuildId \/ AppStoreId \/ AppAdvertise
RxStep == RxBuildId \/ RxStoreId \/ RxAdvertise

Next ==
  \/ SetCapabilities
  \/ AppStep
  \/ InitModule
  \/ SendId
  \/ ReceiveReply \/ RxStep \/ ReceiveRequest
  \/ BrokerReceivesId \/ BrokerReceivesCaps \/ BrokerRestarts
  \/ Lose

Spec == Init /\ [][Next]_vars

\* Threads that are in the middle of something go on; the ID message is sent
\* again and again; and a message that is sent again and again arrives.
Fairness ==
  /\ WF_vars(AppStep) /\ WF_vars(RxStep)
  /\ WF_vars(StartThreads \/ MarkStarted \/ MarkInitialized)
  /\ WF_vars(SendId)
  /\ SF_vars(ReceiveReply) /\ SF_vars(ReceiveRequest)
  /\ SF_vars(BrokerReceivesId) /\ SF_vars(BrokerReceivesCaps)

FairSpec == Spec /\ Fairness

-----------------------------------------------------------------------------
(* Properties.                                                             *)

\* Every variable has its type.
TypeOK ==
  /\ appPc \in {"setup", "append", "build", "store", "advertise", "start", "started",
                "health", "ready"}
  /\ rxPc \in {"idle", "build", "store", "advertise"}
  /\ {appId, rxId, jsonId} \subseteq IdMessages
  /\ adverts \in Versions /\ ch \in Versions /\ brokerAdvert \in Versions
  /\ {running, started, initialized, party, firstReceived, sent} \subseteq BOOLEAN
  /\ toBroker \subseteq BrokerMessages
  /\ toModule \subseteq {"reply", "request"}
  /\ restarts \in 0..MaxRestarts
  /\ byApp \in Nat /\ byRx \in Nat
  /\ early \in BOOLEAN

\* de_module.hpp: the hash of the adverts is in the ID message, whether
\* setCapabilities was called before init() or again after a change.
IdCarriesHash ==
  appPc = "ready" /\ rxPc = "idle" => jsonId.ch = adverts

\* The hash in the ID message is that of the adverts when setCapabilities is
\* called before init or after the first reply was handled: the receive thread
\* and the application rebuild the message without a lock, and only outside
\* that window they cannot overwrite each other.
IdCarriesHashOutsideWindow == ~early => IdCarriesHash

\* setCapabilities and the receive thread test m_capabilities_sent without a
\* lock, each leaving the advert to the other when it should.  However they
\* interleave, neither volunteers it twice, both do only when setCapabilities
\* was called before the first reply had been handled, and the advert is not
\* left out by both.
AdvertVolunteered ==
  /\ byApp <= 1 /\ byRx <= 1
  /\ byApp + byRx = 2 => early
  /\ firstReceived /\ rxPc = "idle" /\ appPc = "ready" /\ adverts # 0
       => byApp + byRx > 0

\* A module keeps asking until the communicator has answered, and then stops:
\* createJSONID(true) in init, createJSONID(false) on the first reply.
EventuallyRegistered == running ~> (party \/ early)
StopsAsking == party ~> [](~jsonId.z)

\* messages.hpp, TypeAndruavModule_ID: the registration must be delivered, so a
\* module that runs is registered in the end, whenever setCapabilities is called.
RunningModuleRegisters == running ~> party

\* The communicator ends up with the module's adverts, although the first send
\* may be dropped (the reply can be handled before m_starrted is set), lost on
\* the way, or forgotten by a restart.
BrokerLearnsAdverts ==
  (running /\ adverts # 0) ~> (brokerAdvert = adverts \/ early)
=============================================================================
