----------------------------- MODULE WiFiProofs -----------------------------
(***************************************************************************)
(* Theorems about WiFi: services are polled and the two copies of the      *)
(* station's configuration agree, for any set of networks and any number   *)
(* of events and calls.                                                    *)
(***************************************************************************)
EXTENDS WiFi, TLAPS

\* Events are put at the end of the queue and taken from its front.
LEMMA PostEvent ==
    ASSUME NEW evs \in Seq(Events), NEW e \in Events
    PROVE  Append(evs, e) \in Seq(Events)
OBVIOUS

LEMMA TakeEvent ==
    ASSUME TypeOK, NEW e, Take(e)
    PROVE  events' \in Seq(Events)
BY DEF TypeOK, Take

LEMMA NoneFits == None \in Fits
BY WiFiAssumption DEF Fits, Names

\* Losing a network.
LEMMA DisconnectTypeOK ==
    ASSUME TypeOK, Disconnect(events)
    PROVE  events' \in Seq(Events) /\ linked' = None /\ joining' = None
BY PostEvent DEF TypeOK, Disconnect, Events

(* The inductive invariant.  A name that was cut short stays in wifi_sta_config: until wifi_start *)
(* succeeds nobody else runs, and whoever goes on to tell the driver has written another name.    *)
NotStarted ==
    start = "no" => /\ handler = "idle" /\ call = "idle" /\ events = <<>>
                    /\ ~on /\ ~air /\ joining = None /\ linked = None /\ saved # Cut

CutStays == handler = "lost_config" \/ call = "config" => wsc # Cut

IInv == TypeOK /\ NotStarted /\ CutStays

LEMMA RadioTypeOK == TypeOK /\ Radio => TypeOK'
<1> SUFFICES ASSUME TypeOK, Radio
             PROVE  TypeOK'
  OBVIOUS
<1>1. ASSUME Happens
      PROVE  met' \in 0 .. MaxRadio
  BY <1>1, WiFiAssumption DEF TypeOK, Happens
<1>2. CASE Joins
  <2>1. events' \in Seq(Events)
    BY <1>2, PostEvent DEF TypeOK, Joins, Events
  <2> QED
    BY <1>1, <1>2, <2>1, NoneFits DEF TypeOK, Joins, boot
<1>3. CASE Drops
  BY <1>1, <1>3, DisconnectTypeOK, NoneFits DEF TypeOK, Drops, boot
<1>4. CASE ClientMoves
  <2>1. events' \in Seq(Events)
    BY <1>4, PostEvent DEF TypeOK, ClientMoves, Events
  <2> QED
    BY <1>1, <1>4, <2>1 DEF TypeOK, ClientMoves, driver, boot
<1>5. CASE ScanEnds
  <2>1. events' \in Seq(Events)
    BY <1>5, PostEvent DEF TypeOK, ScanEnds, Events
  <2> QED
    BY <1>5, <2>1 DEF TypeOK, ScanEnds, boot
<1> QED
  BY <1>2, <1>3, <1>4, <1>5 DEF Radio

\* Starting a scan.
LEMMA ScanTypeOK ==
    ASSUME TypeOK, NEW done \in SUBSET Flags, wifi_ap_scan(done)
    PROVE  air' \in BOOLEAN /\ bits' \in SUBSET Bits /\ flags' \in SUBSET Flags
BY DEF TypeOK, wifi_ap_scan, Bits

LEMMA EventTaskTypeOK == IInv /\ EventTask => TypeOK'
<1> SUFFICES ASSUME TypeOK, CutStays, EventTask
             PROVE  TypeOK'
  BY DEF IInv
<1> USE DEF TypeOK, From, driver, boot, Handlers
<1>1. CASE GotIp
  BY <1>1, TakeEvent DEF GotIp, Bits, Statuses
<1>2. CASE GotIpServices
  BY <1>2 DEF GotIpServices, StartServices, Services
<1>3. CASE GotIpPoll
  BY <1>3 DEF GotIpPoll, SetPollTimer
<1>4. CASE GotIpRest
  <2>1. {"ip_aquired"} \in SUBSET Flags
    BY DEF Flags
  <2>2. air' \in BOOLEAN /\ bits' \in SUBSET Bits /\ flags' \in SUBSET Flags
    BY <1>4, <2>1, ScanTypeOK DEF GotIpRest
  <2>3. saved' \in Names \cup {Cut}
    BY <1>4 DEF GotIpRest, Fits
  <2> QED
    BY <1>4, <2>2, <2>3 DEF GotIpRest
<1>5. CASE ApStart
  <2>1. events' \in Seq(Events)
    BY <1>5, TakeEvent DEF ApStart
  <2>2. services' \subseteq Services /\ flags' \subseteq Flags /\ handler' \in {handler, "ap_poll"}
    BY <1>5 DEF ApStart, StartServices, Services, Flags
  <2> QED
    BY <1>5, <2>1, <2>2 DEF ApStart
<1>6. CASE ApStartRest
  BY <1>6 DEF ApStartRest, SetPollTimer, Services, Flags
<1>7. CASE ApStaConnected
  <2>1. events' \in Seq(Events) /\ services' \subseteq Services /\ handler' \in {handler, "client_poll"}
    BY <1>7, TakeEvent DEF ApStaConnected, StartServices, StartDns, Services
  <2> QED
    BY <1>7, <2>1 DEF ApStaConnected
<1>8. CASE ApStaConnectedRest
  BY <1>8 DEF ApStaConnectedRest, SetPollTimer
<1>9. CASE ApStaDisconnected
  <2>1. events' \in Seq(Events)
    BY <1>9, TakeEvent DEF ApStaDisconnected
  <2>2. air' \in BOOLEAN /\ bits' \in SUBSET Bits /\ flags' \in SUBSET Flags
    BY <1>9, ScanTypeOK DEF ApStaDisconnected
  <2> QED
    BY <1>9, <2>1, <2>2 DEF ApStaDisconnected
<1>10. CASE StaStart
  BY <1>10, TakeEvent DEF StaStart, Connect
<1>11. CASE StaDisconnected
  BY <1>11, TakeEvent, NoneFits DEF StaDisconnected
<1>12. CASE StaDisconnectedConfig
  BY <1>12 DEF StaDisconnectedConfig, SetConfig, CutStays
<1>13. CASE StaDisconnectedRest
  BY <1>13 DEF StaDisconnectedRest, StartDns, Services
<1>14. CASE ScanDone
  BY <1>14, TakeEvent DEF ScanDone, Flags
<1> QED
  BY <1>1, <1>2, <1>3, <1>4, <1>5, <1>6, <1>7, <1>8, <1>9, <1>10, <1>11, <1>12, <1>13, <1>14 DEF EventTask

\* What wifi_start does to the two configurations, wherever it returns.
LEMMA StartTells ==
    ASSUME IInv, wifi_start
    PROVE  /\ wmode' \in Modes \cup {"NONE"} /\ bits' \in SUBSET Bits /\ untold' \in BOOLEAN
           /\ wsc' \in Fits \cup {Cut} /\ config' \in Fits
<1>1. InSta \in Fits \cup {Cut} /\ (TooLong \/ InSta \in Fits)
  BY DEF IInv, TypeOK, NotStarted, wifi_start, InSta, TooLong, Fits
<1>2. mode \in Modes /\ Current \in Modes /\ "STA" \in Modes /\ bits \cup ModeBits \in SUBSET Bits
  BY DEF IInv, TypeOK, Current, Modes, ModeBits, Bits
<1>3. CASE InitFails
  BY <1>2, <1>3 DEF InitFails, IInv, TypeOK
<1>4. CASE ApFails
  BY <1>2, <1>4 DEF ApFails, IInv, TypeOK
<1>5. CASE StaFails
  BY <1>1, <1>2, <1>5 DEF StaFails, IInv, TypeOK
<1>6. CASE SetUp
  BY <1>1, <1>2, <1>6 DEF SetUp, IInv, TypeOK
<1> QED
  BY <1>3, <1>4, <1>5, <1>6 DEF wifi_start

LEMMA StartTypeOK ==
    ASSUME IInv, wifi_start
    PROVE  TypeOK'
<1>1. events' \in Seq(Events)
  <2> DEFINE sta == IF HasSta' THEN <<"STA_START">> ELSE <<>>
             ap == IF HasAp' THEN <<"AP_START">> ELSE <<>>
  <2>1. sta \in Seq(Events) /\ ap \in Seq(Events)
    <3>1. <<"STA_START">> \in Seq(Events) /\ <<"AP_START">> \in Seq(Events) /\ <<>> \in Seq(Events)
      BY DEF Events
    <3> QED
      BY <3>1 DEF HasSta, HasAp
  <2>2. events \in Seq(Events)
    BY DEF IInv, TypeOK
  <2>3. events' = events \/ events' = events \o sta \o ap
    BY DEF wifi_start, DriverStarts
  <2> HIDE DEF sta, ap
  <2>4. events \o sta \o ap \in Seq(Events)
    <3>1. events \o sta \in Seq(Events)
      BY <2>1, <2>2
    <3> QED
      BY <2>1, <3>1
  <2> QED
    BY <2>2, <2>3, <2>4
<1>2. on' \in BOOLEAN /\ start' \in Starts
  BY DEF wifi_start, DriverStarts, IInv, TypeOK, Starts
<1> QED
  BY <1>1, <1>2, StartTells DEF wifi_start, IInv, TypeOK

LEMMA CallsTypeOK == IInv /\ Calls => TypeOK'
<1> SUFFICES ASSUME IInv, TypeOK, CutStays, Calls
             PROVE  TypeOK'
  BY DEF IInv
<1>1. ASSUME called < MaxCalls, called' = called + 1
      PROVE  called' \in 0 .. MaxCalls
  BY <1>1, WiFiAssumption DEF TypeOK
<1> USE DEF TypeOK, driver, boot
<1>2. CASE wifi_start
  BY <1>2, StartTypeOK
<1>3. CASE FirstScan
  BY <1>3 DEF FirstScan, wifi_ap_scan, Bits, Starts
<1>4. CASE ChangeSetting
  BY <1>4 DEF ChangeSetting, Names
<1>5. CASE CallScan
  BY <1>1, <1>5 DEF CallScan, wifi_ap_scan, Bits
<1>6. CASE ReadList
  BY <1>6 DEF ReadList
<1>7. ASSUME NEW name \in Fits, wifi_ap_connect(name)
      PROVE  TypeOK'
  <2>1. CASE Connected
    BY <1>1, <1>7, <2>1, DisconnectTypeOK, NoneFits DEF wifi_ap_connect, CallSteps
  <2>2. CASE ~Connected
    BY <1>1, <1>7, <2>2 DEF wifi_ap_connect, CallSteps
  <2> QED
    BY <2>1, <2>2
<1>8. CASE ConnectTells
  BY <1>8 DEF ConnectTells, CallSteps, Statuses
<1>9. CASE ConnectClears
  BY <1>9, NoneFits DEF ConnectClears, CallSteps
<1>10. CASE ConnectCopies
  BY <1>10 DEF ConnectCopies, CallSteps
<1>11. CASE ConnectConfigures
  BY <1>11 DEF ConnectConfigures, SetConfig, CallSteps, CutStays
<1>12. CASE ConnectJoins
  BY <1>12 DEF ConnectJoins, Connect, CallSteps
<1> QED
  BY <1>2, <1>3, <1>4, <1>5, <1>6, <1>7, <1>8, <1>9, <1>10, <1>11, <1>12 DEF Calls

LEMMA InitIInv == Init => IInv
<1> SUFFICES ASSUME Init
             PROVE  IInv
  OBVIOUS
<1>1. met \in 0 .. MaxRadio /\ called \in 0 .. MaxCalls /\ polls \in Nat
  <2>1. met = 0 /\ called = 0 /\ polls = 0
    BY DEF Init
  <2> QED
    BY <2>1, WiFiAssumption
<1>2. events \in Seq(Events)
  <2>1. events = <<>>
    BY DEF Init
  <2>2. <<>> \in Seq(Events)
    OBVIOUS
  <2> QED
    BY <2>1, <2>2
<1>3. bits \in SUBSET Bits /\ services \in SUBSET Services /\ flags \in SUBSET Flags
  BY DEF Init
<1>4. /\ start \in Starts /\ ap_status \in Statuses
      /\ handler \in Handlers /\ call \in CallSteps
  BY DEF Init, Starts, Statuses, Handlers, CallSteps
<1>5. TypeOK
  BY <1>1, <1>2, <1>3, <1>4, NoneFits DEF Init, TypeOK
<1>6. saved # Cut
  BY WiFiAssumption DEF Init, Names
<1> QED
  BY <1>5, <1>6 DEF IInv, NotStarted, CutStays, Init

LEMMA TypeOKStep == IInv /\ [Next]_vars => TypeOK'
<1> SUFFICES ASSUME IInv, TypeOK, [Next]_vars
             PROVE  TypeOK'
  BY DEF IInv
<1>1. CASE wifi_stop
  <2>1. called' \in 0 .. MaxCalls
    BY <1>1, WiFiAssumption DEF wifi_stop, TypeOK
  <2> QED
    BY <1>1, <2>1, DisconnectTypeOK, NoneFits DEF wifi_stop, TypeOK
<1>2. CASE lwIPHostTimerHandler
  BY <1>2 DEF lwIPHostTimerHandler, TypeOK, driver, boot
<1>3. CASE UNCHANGED vars
  BY <1>3 DEF vars, driver, boot, TypeOK
<1> QED
  BY <1>1, <1>2, <1>3, RadioTypeOK, EventTaskTypeOK, CallsTypeOK DEF Next

\* Before the driver is started nothing happens but calls of wifi_start and changes of settings.
LEMMA NotStartedStep == IInv /\ [Next]_vars => NotStarted'
<1> SUFFICES ASSUME IInv, NotStarted, [Next]_vars, start' = "no"
             PROVE  /\ handler' = "idle" /\ call' = "idle" /\ events' = <<>>
                    /\ ~on' /\ ~air' /\ joining' = None /\ linked' = None /\ saved' # Cut
  BY DEF IInv, NotStarted
<1>1. start = "no"
  BY DEF Next, Radio, Joins, Drops, ClientMoves, ScanEnds, EventTask, GotIp, GotIpServices, GotIpPoll, GotIpRest,
         ApStart, ApStartRest, ApStaConnected, ApStaConnectedRest, ApStaDisconnected, StaStart, StaDisconnected,
         StaDisconnectedConfig, StaDisconnectedRest, ScanDone, wifi_stop, lwIPHostTimerHandler, Calls, wifi_start,
         FirstScan, ChangeSetting, CallScan, ReadList, wifi_ap_connect, ConnectTells, ConnectClears, ConnectCopies,
         ConnectConfigures, ConnectJoins, boot, vars
<1>2. Cut \notin Ssids
  BY WiFiAssumption
<1>3. ~(Radio \/ EventTask \/ wifi_stop)
  BY <1>1 DEF NotStarted, Radio, Joins, Drops, ClientMoves, ScanEnds, Happens, EventTask, GotIp, GotIpServices,
              GotIpPoll, GotIpRest, ApStart, ApStartRest, ApStaConnected, ApStaConnectedRest, ApStaDisconnected,
              StaStart, StaDisconnected, StaDisconnectedConfig, StaDisconnectedRest, ScanDone, Take, From, wifi_stop
<1>4. CASE wifi_start
  BY <1>1, <1>4 DEF NotStarted, wifi_start, DriverStarts
<1>5. CASE ChangeSetting
  BY <1>1, <1>2, <1>5 DEF NotStarted, ChangeSetting, driver
<1>6. CASE ReadList \/ lwIPHostTimerHandler
  BY <1>1, <1>6 DEF NotStarted, ReadList, lwIPHostTimerHandler, driver, boot
<1>7. CASE UNCHANGED vars
  BY <1>1, <1>7 DEF NotStarted, vars, driver, boot
<1>8. /\ ~(FirstScan \/ CallScan \/ ConnectTells \/ ConnectClears \/ ConnectCopies)
      /\ ~(ConnectConfigures \/ ConnectJoins \/ \E name \in Fits : wifi_ap_connect(name))
  BY <1>1 DEF NotStarted, FirstScan, CallScan, ConnectTells, ConnectClears, ConnectCopies, ConnectConfigures,
              ConnectJoins, wifi_ap_connect
<1> QED
  BY <1>3, <1>4, <1>5, <1>6, <1>7, <1>8 DEF Next, Calls

\* Only wifi_start leaves a name that was cut short.
LEMMA CutStaysStep == IInv /\ [Next]_vars => CutStays'
<1> SUFFICES ASSUME TypeOK, NotStarted, CutStays, [Next]_vars
             PROVE  CutStays'
  BY DEF IInv
<1>1. None # Cut /\ ssid # Cut
  BY WiFiAssumption DEF TypeOK, Fits, Names
<1>2. CASE Radio \/ wifi_stop \/ lwIPHostTimerHandler \/ UNCHANGED vars
  BY <1>2 DEF CutStays, Radio, Joins, Drops, ClientMoves, ScanEnds, wifi_stop, lwIPHostTimerHandler, vars
<1>3. CASE StaDisconnected \/ ConnectClears \/ ConnectCopies
  BY <1>1, <1>3 DEF CutStays, StaDisconnected, ConnectClears, ConnectCopies
<1>4. CASE GotIp \/ GotIpServices \/ GotIpPoll \/ GotIpRest
  BY <1>4 DEF CutStays, GotIp, GotIpServices, GotIpPoll, GotIpRest, From, Take
<1>5. CASE ApStart \/ ApStartRest \/ ApStaConnected \/ ApStaConnectedRest \/ ApStaDisconnected
  BY <1>5 DEF CutStays, ApStart, ApStartRest, ApStaConnected, ApStaConnectedRest, ApStaDisconnected, From, Take
<1>6. CASE StaStart \/ StaDisconnectedConfig \/ StaDisconnectedRest \/ ScanDone
  BY <1>6 DEF CutStays, StaStart, StaDisconnectedConfig, StaDisconnectedRest, ScanDone, From, Take
<1>7. CASE wifi_start
  BY <1>7 DEF CutStays, NotStarted, wifi_start
<1>8. CASE FirstScan \/ ChangeSetting \/ CallScan \/ ReadList
  BY <1>8 DEF CutStays, FirstScan, ChangeSetting, CallScan, ReadList
<1>9. CASE ConnectTells \/ ConnectConfigures \/ ConnectJoins \/ \E name \in Fits : wifi_ap_connect(name)
  BY <1>9 DEF CutStays, ConnectTells, ConnectConfigures, ConnectJoins, wifi_ap_connect
<1> QED
  BY <1>2, <1>3, <1>4, <1>5, <1>6, <1>7, <1>8, <1>9 DEF Next, EventTask, Calls

\* Every variable keeps its type, for every set of networks: the station never has a network while it
\* joins one, and a name that does not fit is never told to the driver, although the retry of wifi_start
\* goes on with it in wifi_sta_config (wifi.c 770-771, driver.c 2807-2808).
THEOREM SpecTypeOK == Spec => []TypeOK
<1>1. IInv /\ [Next]_vars => IInv'
  BY TypeOKStep, NotStartedStep, CutStaysStep DEF IInv
<1> QED
  BY <1>1, InitIInv, PTL DEF Spec, IInv

-----------------------------------------------------------------------------
\* What start_services and the timer do while everybody else leaves them alone.
LEMMA OthersLeaveServices ==
    Radio \/ Calls => UNCHANGED <<services, polls, handler>>
BY DEF Radio, Joins, Drops, ClientMoves, ScanEnds, Calls, wifi_start, FirstScan, ChangeSetting, CallScan, ReadList,
       wifi_ap_connect, ConnectTells, ConnectClears, ConnectCopies, ConnectConfigures, ConnectJoins

LEMMA ServedIsPolledStep == TypeOK /\ ServedIsPolled /\ [Next]_vars => ServedIsPolled'
<1> SUFFICES ASSUME TypeOK, ServedIsPolled, [Next]_vars
             PROVE  ServedIsPolled'
  OBVIOUS
<1>1. CASE GotIpServices \/ ApStart \/ ApStaConnected
  BY <1>1 DEF ServedIsPolled, GotIpServices, ApStart, ApStaConnected, From, Take, StartDns
<1>2. CASE GotIpPoll \/ ApStartRest \/ ApStaConnectedRest
  BY <1>2 DEF ServedIsPolled, TypeOK, GotIpPoll, ApStartRest, ApStaConnectedRest, SetPollTimer
<1>3. CASE GotIp \/ GotIpRest \/ StaDisconnected \/ StaDisconnectedConfig \/ StaDisconnectedRest
  BY <1>3 DEF ServedIsPolled, GotIp, GotIpRest, StaDisconnected, StaDisconnectedConfig, StaDisconnectedRest,
              From, Take, StartDns
<1>4. CASE ApStaDisconnected \/ StaStart \/ ScanDone
  BY <1>4 DEF ServedIsPolled, ApStaDisconnected, StaStart, ScanDone
<1>5. CASE wifi_stop
  BY <1>5 DEF ServedIsPolled, wifi_stop
<1>6. CASE lwIPHostTimerHandler
  BY <1>6 DEF ServedIsPolled, lwIPHostTimerHandler
<1>7. CASE Radio \/ Calls
  BY <1>7, OthersLeaveServices DEF ServedIsPolled
<1>8. CASE UNCHANGED vars
  BY <1>8 DEF ServedIsPolled, vars
<1> QED
  BY <1>1, <1>2, <1>3, <1>4, <1>5, <1>6, <1>7, <1>8 DEF Next, EventTask

\* A service that needs polling is polled, however the timeouts and start_services interleave
\* (wifi.c 267-284, 353-355).
THEOREM SpecServedIsPolled == Spec => []ServedIsPolled
<1>1. Init => ServedIsPolled
  BY DEF Init, ServedIsPolled
<1> QED
  BY <1>1, ServedIsPolledStep, SpecTypeOK, PTL DEF Spec

-----------------------------------------------------------------------------
LEMMA ConfigAgreesStep == ConfigAgrees /\ [Next]_vars => ConfigAgrees'
<1> SUFFICES ASSUME ConfigAgrees, [Next]_vars
             PROVE  ConfigAgrees'
  OBVIOUS
<1>1. CASE Radio
  BY <1>1 DEF ConfigAgrees, Radio, Joins, Drops, ClientMoves, ScanEnds, driver
<1>2. CASE GotIp \/ GotIpServices \/ GotIpPoll \/ GotIpRest
  BY <1>2 DEF ConfigAgrees, GotIp, GotIpServices, GotIpPoll, GotIpRest, From, Take, driver
<1>3. CASE ApStart \/ ApStartRest \/ ApStaConnected \/ ApStaConnectedRest \/ ApStaDisconnected
  BY <1>3 DEF ConfigAgrees, ApStart, ApStartRest, ApStaConnected, ApStaConnectedRest, ApStaDisconnected,
              From, Take, driver
<1>4. CASE StaStart \/ StaDisconnectedRest \/ ScanDone
  BY <1>4 DEF ConfigAgrees, StaStart, StaDisconnectedRest, ScanDone, From, Take, driver
<1>5. CASE StaDisconnected
  BY <1>5 DEF ConfigAgrees, StaDisconnected
<1>6. CASE StaDisconnectedConfig \/ ConnectConfigures
  BY <1>6 DEF ConfigAgrees, StaDisconnectedConfig, ConnectConfigures, SetConfig
<1>7. CASE ConnectClears \/ ConnectCopies
  BY <1>7 DEF ConfigAgrees, ConnectClears, ConnectCopies, driver
<1>8. ASSUME NEW name \in Fits, wifi_ap_connect(name)
      PROVE  ConfigAgrees'
  BY <1>8 DEF ConfigAgrees, wifi_ap_connect
<1>9. CASE ConnectTells \/ ConnectJoins \/ FirstScan \/ ChangeSetting \/ CallScan \/ ReadList
  BY <1>9 DEF ConfigAgrees, ConnectTells, ConnectJoins, FirstScan, ChangeSetting, CallScan, ReadList, driver
<1>10. CASE wifi_start
  BY <1>10 DEF ConfigAgrees, wifi_start, InitFails, ApFails, StaFails, SetUp
<1>11. CASE wifi_stop \/ lwIPHostTimerHandler \/ UNCHANGED vars
  BY <1>11 DEF ConfigAgrees, wifi_stop, lwIPHostTimerHandler, vars, driver
<1> QED
  BY <1>1, <1>2, <1>3, <1>4, <1>5, <1>6, <1>7, <1>8, <1>9, <1>10, <1>11 DEF Next, EventTask, Calls

\* wifi_sta_config names the network the driver was told to join, unless it refused to hear or wifi_start
\* returned before it told (wifi.c 551-552, 770-784, 830-837).
THEOREM SpecConfigAgrees == Spec => []ConfigAgrees
<1>1. Init => ConfigAgrees
  BY DEF Init, ConfigAgrees
<1> QED
  BY <1>1, ConfigAgreesStep, PTL DEF Spec
=============================================================================
