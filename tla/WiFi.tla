-------------------------------- MODULE WiFi --------------------------------
(***************************************************************************)
(* The WiFi connection of wifi.c: the modes access point, station and      *)
(* both; the handlers of the driver's events, which start the network      *)
(* services and choose the network to join; the timer that polls the       *)
(* services; and the calls of the other tasks.                             *)
(*                                                                         *)
(* Actors: the event task, which handles one event after the other; the    *)
(* TCP/IP task with lwIP's timeouts; a task that calls wifi_ap_connect,    *)
(* wifi_ap_scan and reads the list of networks; the radio and what it      *)
(* meets.  The driver (esp_wifi_...) is external.                          *)
(*                                                                         *)
(* Nothing in the repository calls wifi_stop but a commented-out case of   *)
(* the event handler: it is taken as a call of the event task.             *)
(***************************************************************************)
EXTENDS Naturals, Sequences

CONSTANTS
    Ssids,      \* names that a setting can hold
    Long,       \* those that do not fit into wifi_sta_config
    Cut,        \* what is left there of such a name
    None,       \* the empty name
    MaxRadio,   \* bound: things that happen in the air
    MaxCalls    \* bound: calls

ASSUME WiFiAssumption ==
    /\ Long \subseteq Ssids
    /\ None \notin Ssids /\ Cut \notin Ssids /\ Cut # None
    /\ MaxRadio \in Nat /\ MaxCalls \in Nat

VARIABLES
    mode,       \* wifi.mode, a setting
    saved,      \* wifi.sta.ssid, a setting
    start,      \* wifi_start has not succeeded yet, is about to scan, has returned true
    wmode,      \* the driver's mode, once it is initialised
    on,         \* the driver is started
    wsc,        \* wifi_sta_config.sta.ssid
    config,     \* the driver's copy of it
    joining, linked,    \* the network the driver is joining or has joined
    client,     \* a station has joined our access point
    air,        \* the driver is scanning
    bits,       \* wifi_event_group
    services,   \* services: those that are polled, SSDP and the captive DNS
    polls,      \* timeouts of lwIPHostTimerHandler that are waiting
    flags,      \* of sta_status and ap_status
    ap_status,  \* of ap_list
    reading,    \* somebody holds aplist_mutex
    events,     \* the event loop's queue
    handler,    \* what the event task does
    call,       \* what the calling task does
    ssid,       \* what it wants to join
    untold,     \* the last change of wsc did not reach the driver: it was refused,
                \* or wifi_start returned before it
    met, called \* so far

driver == <<config, joining, linked, air, untold>>
boot == <<mode, start, wmode, on>>
vars == <<boot, saved, wsc, driver, client, bits, services, polls, flags, ap_status, reading,
          events, handler, call, ssid, met, called>>

Names == Ssids \cup {None}
Fits == Names \ Long
Modes == {"OFF", "AP", "STA", "APSTA"}
ApModes == {"AP", "APSTA"}
StaModes == {"STA", "APSTA"}
Starts == {"no", "scan", "ok"}
Bits == {"CONNECTED", "SCANNING", "APSTA"}
Services == {"stream", "web", "dns"}
Flags == {"ip_aquired", "ap_started", "ap_scan_completed"}
Statuses == {"", "Connecting", "Connected"}
Events == {"STA_START", "STA_DISCONNECTED", "GOT_IP", "AP_START", "AP_STACONNECTED",
           "AP_STADISCONNECTED", "SCAN_DONE"}
Handlers == {"idle", "got_services", "got_poll", "got_rest", "ap_poll", "client_poll",
             "lost_config", "lost_rest"}
CallSteps == {"idle", "list", "clear", "copy", "config", "connect"}

HasAp == wmode \in ApModes
HasSta == wmode \in StaModes
Apsta == "APSTA" \in bits
Connected == "CONNECTED" \in bits

\* A name that was cut short is never told to the driver.
TypeOK ==
    /\ mode \in Modes /\ saved \in Names \cup {Cut}
    /\ start \in Starts /\ wmode \in Modes \cup {"NONE"} /\ on \in BOOLEAN
    /\ wsc \in Fits \cup {Cut} /\ ssid \in Fits
    /\ config \in Fits /\ joining \in Fits /\ linked \in Fits
    /\ client \in BOOLEAN /\ air \in BOOLEAN /\ reading \in BOOLEAN /\ untold \in BOOLEAN
    /\ bits \in SUBSET Bits /\ services \in SUBSET Services /\ flags \in SUBSET Flags
    /\ polls \in Nat
    /\ ap_status \in Statuses
    /\ events \in Seq(Events) /\ handler \in Handlers /\ call \in CallSteps
    /\ met \in 0 .. MaxRadio /\ called \in 0 .. MaxCalls
    /\ linked = None \/ joining = None

Init ==
    /\ mode \in Modes /\ saved \in Names
    /\ start = "no" /\ wmode = "NONE" /\ on = FALSE
    /\ wsc = None /\ config = None /\ joining = None /\ linked = None /\ ssid = None
    /\ client = FALSE /\ air = FALSE /\ reading = FALSE /\ untold = FALSE
    /\ bits = {} /\ services = {} /\ polls = 0 /\ flags = {} /\ ap_status = ""
    /\ events = <<>> /\ handler = "idle" /\ call = "idle"
    /\ met = 0 /\ called = 0

-----------------------------------------------------------------------------
(* The driver *)

\* esp_wifi_set_config, which is refused while the station is joining.
SetConfig ==
    /\ untold' = (joining # None)
    /\ config' = IF joining = None THEN wsc ELSE config

\* esp_wifi_connect
Connect ==
    joining' = IF on /\ joining = None /\ linked = None THEN config ELSE joining

\* The station loses, or gives up, its network.
Disconnect(evs) ==
    /\ linked' = None /\ joining' = None
    /\ events' = IF linked # None \/ joining # None THEN Append(evs, "STA_DISCONNECTED") ELSE evs

Happens == on /\ met < MaxRadio /\ met' = met + 1

Joins ==
    /\ Happens /\ joining # None
    /\ joining' = None
    /\ \/ linked' = joining /\ events' = Append(events, "GOT_IP")
       \/ UNCHANGED linked /\ events' = Append(events, "STA_DISCONNECTED")
    /\ UNCHANGED <<boot, saved, wsc, config, client, air, bits, services, polls, flags, ap_status,
                   reading, handler, call, ssid, untold, called>>

Drops ==
    /\ Happens /\ linked # None /\ Disconnect(events)
    /\ UNCHANGED <<boot, saved, wsc, config, client, air, bits, services, polls, flags, ap_status,
                   reading, handler, call, ssid, untold, called>>

ClientMoves ==
    /\ Happens /\ HasAp
    /\ client' = ~client
    /\ events' = Append(events, IF client THEN "AP_STADISCONNECTED" ELSE "AP_STACONNECTED")
    /\ UNCHANGED <<boot, saved, wsc, driver, bits, services, polls, flags, ap_status,
                   reading, handler, call, ssid, called>>

ScanEnds ==
    /\ air /\ air' = FALSE
    /\ events' = Append(events, "SCAN_DONE")
    /\ UNCHANGED <<boot, saved, wsc, config, joining, linked, client, bits, services, polls, flags,
                   ap_status, reading, handler, call, ssid, untold, met, called>>

Radio == Joins \/ Drops \/ ClientMoves \/ ScanEnds

-----------------------------------------------------------------------------
(* Services and scans *)

\* start_services: any of them may be disabled or fail to start: those that are polled, and the
\* web server with what is not polled either.  The poll timer follows.
StartServices == \E started \in SUBSET {"stream", "web"} : services' = services \cup started

\* dns_server_start
StartDns == services' \in {services, services \cup {"dns"}}

\* Bug: the timer is only set when a network comes up for the first time.
BugFirstTimeOnly == polls' = IF flags \cap {"ip_aquired", "ap_started"} = {} THEN polls + 1 ELSE polls

\* sys_timeout at the end of start_services
SetPollTimer == polls' = polls + 1

\* Bug: the handler goes on for ever.
BugPollsOn ==
    /\ polls > 0 /\ polls' = polls
    /\ UNCHANGED <<boot, saved, wsc, driver, client, bits, services, flags, ap_status, reading,
                   events, handler, call, ssid, met, called>>

\* lwIPHostTimerHandler: every timeout sets itself again while there are services.
lwIPHostTimerHandler ==
    /\ polls > 0
    /\ polls' = IF services = {} THEN polls - 1 ELSE polls
    /\ UNCHANGED <<boot, saved, wsc, driver, client, bits, services, flags, ap_status, reading,
                   events, handler, call, ssid, met, called>>

\* wifi_ap_scan, with flags set just before; the driver does not scan while it is joining.
wifi_ap_scan(done) ==
    LET starts == "SCANNING" \notin bits /\ on /\ ~air /\ joining = None
    IN  /\ air' = (air \/ starts)
        /\ bits' = IF starts THEN bits \cup {"SCANNING"} ELSE bits
        /\ flags' = (flags \cup done) \ {"ap_scan_completed"}

-----------------------------------------------------------------------------
(* The event task *)

Take(e) == handler = "idle" /\ events # <<>> /\ Head(events) = e /\ events' = Tail(events)
From(h, to) == handler = h /\ handler' = to

\* IP_EVENT_STA_GOT_IP
GotIp ==
    /\ Take("GOT_IP") /\ handler' = "got_services"
    /\ bits' = bits \cup {"CONNECTED"} /\ ap_status' = "Connected"
    /\ UNCHANGED <<boot, saved, wsc, driver, client, services, polls, flags, reading, call, ssid, met, called>>

GotIpServices ==
    /\ From("got_services", "got_poll") /\ StartServices
    /\ UNCHANGED <<boot, saved, wsc, driver, client, bits, polls, flags, ap_status, reading, events,
                   call, ssid, met, called>>

GotIpPoll ==
    /\ From("got_poll", "got_rest") /\ SetPollTimer
    /\ UNCHANGED <<boot, saved, wsc, driver, client, bits, services, flags, ap_status, reading, events,
                   call, ssid, met, called>>

GotIpRest ==
    /\ From("got_rest", "idle")
    /\ services' = services \ {"dns"}
    /\ \/ Apsta /\ saved' = wsc /\ flags' = flags \cup {"ip_aquired"} /\ UNCHANGED <<air, bits>>
       \/ ~Apsta /\ wifi_ap_scan({"ip_aquired"}) /\ UNCHANGED saved
    /\ UNCHANGED <<boot, wsc, config, joining, linked, untold, client, polls, ap_status, reading, events,
                   call, ssid, met, called>>

\* WIFI_EVENT_AP_START
ApStart ==
    /\ Take("AP_START")
    /\ \/ Apsta /\ handler' = "ap_poll" /\ StartServices /\ UNCHANGED flags
       \/ ~Apsta /\ flags' = flags \cup {"ap_started"} /\ UNCHANGED <<handler, services>>
    /\ UNCHANGED <<boot, saved, wsc, driver, client, bits, polls, ap_status, reading, call, ssid, met, called>>

ApStartRest ==
    /\ From("ap_poll", "idle") /\ SetPollTimer
    /\ services' \in {services \ {"dns"}, services \cup {"dns"}}
    /\ flags' = flags \cup {"ap_started"}
    /\ UNCHANGED <<boot, saved, wsc, driver, client, bits, ap_status, reading, events, call, ssid, met, called>>

\* WIFI_EVENT_AP_STACONNECTED
ApStaConnected ==
    /\ Take("AP_STACONNECTED")
    /\ \/ ~Apsta /\ handler' = "client_poll" /\ StartServices
       \/ Apsta /\ Connected /\ UNCHANGED <<handler, services>>
       \/ Apsta /\ ~Connected /\ StartDns /\ UNCHANGED handler
    /\ UNCHANGED <<boot, saved, wsc, driver, client, bits, polls, flags, ap_status, reading, call, ssid, met, called>>

ApStaConnectedRest ==
    /\ From("client_poll", "idle") /\ SetPollTimer
    /\ UNCHANGED <<boot, saved, wsc, driver, client, bits, services, flags, ap_status, reading, events,
                   call, ssid, met, called>>

\* WIFI_EVENT_AP_STADISCONNECTED.  ssdp_stop leaves services.ssdp as it is.
ApStaDisconnected ==
    /\ Take("AP_STADISCONNECTED")
    /\ \/ Apsta /\ wifi_ap_scan({})
       \/ ~Apsta /\ UNCHANGED <<air, bits, flags>>
    /\ UNCHANGED <<boot, saved, wsc, config, joining, linked, untold, client, services, polls, ap_status,
                   reading, handler, call, ssid, met, called>>

\* WIFI_EVENT_STA_START
StaStart ==
    /\ Take("STA_START")
    /\ IF wsc # None THEN Connect ELSE UNCHANGED joining
    /\ UNCHANGED <<boot, saved, wsc, config, linked, air, untold, client, bits, services, polls, flags,
                   ap_status, reading, handler, call, ssid, met, called>>

\* WIFI_EVENT_STA_DISCONNECTED: whoever asked for it, the configuration is erased.
StaDisconnected ==
    /\ Take("STA_DISCONNECTED") /\ handler' = "lost_config"
    /\ wsc' = None
    /\ UNCHANGED <<boot, saved, driver, client, bits, services, polls, flags, ap_status, reading, call, ssid, met, called>>

\* Bug: an empty configuration of its own instead of wifi_sta_config.
BugErasesOwnCopy ==
    /\ From("lost_config", "lost_rest")
    /\ untold' = (joining # None)
    /\ config' = IF joining = None THEN None ELSE config
    /\ UNCHANGED <<boot, saved, wsc, joining, linked, air, client, bits, services, polls, flags, ap_status,
                   reading, events, call, ssid, met, called>>

StaDisconnectedConfig ==
    /\ From("lost_config", "lost_rest") /\ SetConfig
    /\ UNCHANGED <<boot, saved, wsc, joining, linked, air, client, bits, services, polls, flags, ap_status,
                   reading, events, call, ssid, met, called>>

StaDisconnectedRest ==
    /\ From("lost_rest", "idle")
    /\ IF Apsta /\ ~Connected THEN StartDns ELSE UNCHANGED services
    /\ bits' = bits \ {"CONNECTED"}
    /\ UNCHANGED <<boot, saved, wsc, driver, client, polls, flags, ap_status, reading, events, call, ssid, met, called>>

\* WIFI_EVENT_SCAN_DONE: the result is dropped while somebody reads the list.
ScanDone ==
    /\ Take("SCAN_DONE")
    /\ bits' = bits \ {"SCANNING"}
    /\ flags' = IF reading THEN flags ELSE flags \cup {"ap_scan_completed"}
    /\ UNCHANGED <<boot, saved, wsc, driver, client, services, polls, ap_status, reading, handler, call, ssid, met, called>>

\* stop_services, esp_wifi_stop
wifi_stop ==
    /\ handler = "idle" /\ on /\ called < MaxCalls /\ called' = called + 1
    /\ on' = FALSE /\ services' = {} /\ bits' = {}
    /\ Disconnect(events) /\ client' = FALSE /\ air' = FALSE
    /\ UNCHANGED <<mode, start, wmode, saved, wsc, config, untold, polls, flags, ap_status, reading, handler, call,
                   ssid, met>>

EventTask ==
    \/ GotIp \/ GotIpServices \/ GotIpPoll \/ GotIpRest
    \/ ApStart \/ ApStartRest \/ ApStaConnected \/ ApStaConnectedRest \/ ApStaDisconnected
    \/ StaStart \/ StaDisconnected \/ StaDisconnectedConfig \/ StaDisconnectedRest
    \/ ScanDone

-----------------------------------------------------------------------------
(* Calls of other tasks *)

Current == IF wmode = "NONE" THEN "OFF" ELSE wmode

\* A mode is only set up if the driver is not in it already.
SetsUp(modes) == mode \in modes /\ mode # Current

\* Bug: strlcpy without a look at its result.
BugNoLengthTest == FALSE

TooLong == saved \in Long

InSta == IF saved \in Long THEN Cut ELSE saved

ModeBits == IF SetsUp({"APSTA"}) THEN {"APSTA"} ELSE {}

\* wifi_start returns false where the driver is initialised (its initial mode is STA),
InitFails ==
    /\ wmode = "NONE" /\ wmode' \in {"NONE", "STA"}
    /\ UNCHANGED <<wsc, config, untold, bits>>

\* where the access point is set up, before or after the mode is set,
ApFails ==
    /\ SetsUp(ApModes) /\ wmode' \in {Current, mode}
    /\ UNCHANGED <<wsc, config, untold, bits>>

\* or between wifi_sta_config and the driver's copy,
StaFails ==
    /\ SetsUp(StaModes)
    /\ wmode' \in {IF mode = "APSTA" THEN mode ELSE Current} \cup (IF TooLong THEN {} ELSE {mode})
    /\ wsc' = InSta /\ untold' = TRUE
    /\ bits' = bits \cup ModeBits
    /\ UNCHANGED config

\* or else has set up what the mode asks for.
SetUp ==
    /\ wmode' = IF SetsUp(ApModes \cup StaModes) THEN mode ELSE Current
    /\ bits' = bits \cup ModeBits
    /\ IF SetsUp(StaModes)
       THEN ~TooLong /\ wsc' = InSta /\ config' = wsc' /\ untold' = FALSE
       ELSE UNCHANGED <<wsc, config, untold>>

\* The driver starts, in the mode that it is in, or does not.
DriverStarts ==
    /\ on' = TRUE
    /\ start' = IF mode = "APSTA" THEN "scan" ELSE "ok"
    /\ events' = events \o (IF HasSta' THEN <<"STA_START">> ELSE <<>>)
                        \o (IF HasAp' THEN <<"AP_START">> ELSE <<>>)

\* settings_changed calls it until it has returned true.  Nothing else runs before the driver has started.
wifi_start ==
    /\ start = "no"
    /\ \/ (InitFails \/ ApFails \/ StaFails \/ SetUp) /\ UNCHANGED <<on, start, events>>
       \/ SetUp /\ DriverStarts
    /\ UNCHANGED <<mode, saved, joining, linked, air, client, services, polls, flags, ap_status, reading, handler,
                   call, ssid, met, called>>

\* In the mode with both interfaces it ends with a scan.
FirstScan ==
    /\ start = "scan" /\ start' = "ok"
    /\ wifi_ap_scan({})
    /\ UNCHANGED <<mode, wmode, on, saved, wsc, config, joining, linked, untold, client, services, polls, ap_status,
                   reading, events, handler, call, ssid, met, called>>

\* The grbl task changes a setting between two calls: later, wifi_start no longer reads it.
ChangeSetting ==
    /\ start = "no"
    /\ \/ mode' \in Modes \ {mode} /\ UNCHANGED saved
       \/ saved' \in Ssids \ {saved} /\ UNCHANGED mode
    /\ UNCHANGED <<start, wmode, on, wsc, driver, client, bits, services, polls, flags, ap_status, reading, events,
                   handler, call, ssid, met, called>>

\* wifi_ap_connect: leave the old network,
wifi_ap_connect(name) ==
    /\ start # "no" /\ HasSta /\ call = "idle" /\ called < MaxCalls /\ called' = called + 1
    /\ call' = "list" /\ ssid' = name
    /\ IF Connected THEN Disconnect(events) ELSE UNCHANGED <<joining, linked, events>>
    /\ UNCHANGED <<boot, saved, wsc, config, air, untold, client, bits, services, polls, flags, ap_status,
                   reading, handler, met>>

\* tell the readers of the list, unless one holds it,
ConnectTells ==
    /\ call = "list" /\ call' = "clear"
    /\ ap_status' = IF reading THEN ap_status ELSE IF ssid = None THEN "" ELSE "Connecting"
    /\ UNCHANGED <<boot, saved, wsc, driver, client, bits, services, polls, flags, reading, events, handler,
                   ssid, met, called>>

\* erase wifi_sta_config,
ConnectClears ==
    /\ call = "clear" /\ call' = IF ssid = None THEN "idle" ELSE "copy"
    /\ wsc' = None
    /\ UNCHANGED <<boot, saved, driver, client, bits, services, polls, flags, ap_status, reading, events,
                   handler, ssid, met, called>>

\* write the new network into it
ConnectCopies ==
    /\ call = "copy" /\ call' = "config"
    /\ wsc' = ssid
    /\ UNCHANGED <<boot, saved, driver, client, bits, services, polls, flags, ap_status, reading, events,
                   handler, ssid, met, called>>

\* and into the driver's copy,
ConnectConfigures ==
    /\ call = "config" /\ SetConfig
    /\ call' = IF untold' THEN "idle" ELSE "connect"
    /\ UNCHANGED <<boot, saved, wsc, joining, linked, air, client, bits, services, polls, flags, ap_status,
                   reading, events, handler, ssid, met, called>>

\* and join.
ConnectJoins ==
    /\ call = "connect" /\ call' = "idle" /\ Connect
    /\ UNCHANGED <<boot, saved, wsc, config, linked, air, untold, client, bits, services, polls, flags,
                   ap_status, reading, events, handler, ssid, met, called>>

\* A call of wifi_ap_scan from outside, and a reader between wifi_get_aplist and wifi_release_aplist.
CallScan ==
    /\ on /\ called < MaxCalls /\ called' = called + 1
    /\ wifi_ap_scan({})
    /\ UNCHANGED <<boot, saved, wsc, config, joining, linked, untold, client, services, polls, ap_status,
                   reading, events, handler, call, ssid, met>>

ReadList ==
    /\ reading \/ "ap_scan_completed" \in flags
    /\ reading' = ~reading
    /\ UNCHANGED <<boot, saved, wsc, driver, client, bits, services, polls, flags, ap_status, events, handler,
                   call, ssid, met, called>>

Calls ==
    \/ wifi_start \/ FirstScan \/ ChangeSetting \/ CallScan \/ ReadList
    \/ \E name \in Fits : wifi_ap_connect(name)
    \/ ConnectTells \/ ConnectClears \/ ConnectCopies \/ ConnectConfigures \/ ConnectJoins

Next == Radio \/ EventTask \/ wifi_stop \/ lwIPHostTimerHandler \/ Calls

\* lwIP's timeouts expire.
Fairness == WF_vars(lwIPHostTimerHandler)

Spec == Init /\ [][Next]_vars /\ Fairness

-----------------------------------------------------------------------------
(* Properties *)

(* A service that needs polling is polled: its timeout is waiting, unless  *)
(* start_services is about to set it, although timeouts die out on their   *)
(* own when they find no service (wifi.c 267-284, 353-355).                *)
ServedIsPolled ==
    "stream" \in services /\ handler \notin {"got_poll", "ap_poll", "client_poll"} => polls > 0

(* wifi_sta_config names the network that the driver was told to join,     *)
(* although wifi_ap_connect and the handler of STA_DISCONNECTED write both *)
(* without a lock; the settings are copied from it (wifi.c 460, 551-552,   *)
(* 830-837).  Not after a change that the driver has refused, nor after a  *)
(* wifi_start that returned false between the two (770-784): the next      *)
(* call finds the mode set, skips the configuration and starts the driver  *)
(* with what it had.                                                       *)
ConfigAgrees ==
    wsc # None /\ handler # "lost_config" /\ call # "config" /\ ~untold => config = wsc

(* Once no service is left the timeouts end, however many there are        *)
(* (wifi.c 267-270).                                                       *)
PollsEnd == services = {} ~> polls = 0 \/ services # {}
=============================================================================
