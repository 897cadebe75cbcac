-------------------------------- MODULE Wifi --------------------------------
(***************************************************************************)
(* The Wi-Fi station of wifi.c.  Three tasks share s_wifiCtrl without a    *)
(* lock: the event loop task runs event_handler, smartconfig_task waits    *)
(* for event bits, and other tasks ask wifi_is_connected.  The handler is  *)
(* therefore cut where another task can see the cut.                       *)
(*                                                                         *)
(* The radio (link), smartconfig (phone) and flash (nvs) are the world     *)
(* around it.  A power cut or a panic may come at any time and takes       *)
(* everything but flash with it.                                           *)
(***************************************************************************)
EXTENDS Naturals, Sequences

CONSTANTS
  Creds,      \* pairs of SSID and password a phone may send
  Right,      \* the pair the access point accepts
  NoCfg       \* wifi_config_t with an empty SSID

ASSUME CredAssumption == Right \in Creds /\ NoCfg \notin Creds

VARIABLES
  state,      \* s_wifiCtrl.state
  wifiConfig, \* s_wifiCtrl.wifiConfig
  bits,       \* s_wifiCtrl.wifi_event_group
  task,       \* smartconfig_task: does not exist, created, waiting, woken
  woken,      \* its uxBits
  handler,    \* event_handler: between calls, or what is left of a call
  queue,      \* events of the default event loop, oldest first
  link,       \* the radio: off, idle, joining an access point, up
  phone,      \* smartconfig: off, listening, has a pair, has acknowledged it
  offered,    \* the pair it has
  nvs         \* the configuration in flash

ram == <<state, wifiConfig, bits, task, woken, handler>>
radio == <<queue, link, phone, offered>>
wifi == <<ram, radio, nvs>>

States == {"CLOSE", "OPEN", "DISCONNECT", "CONNECT", "SMARTCFG"}
Bits   == {"CONNECTED", "ESPTOUCH_DONE"}
Events == {"STA_START", "STA_DISCONNECTED", "GOT_IP", "GOT_SSID_PSWD"}
Configs == Creds \cup {NoCfg}

WifiInit ==
  /\ state = "CLOSE" /\ wifiConfig = NoCfg /\ bits = {}
  /\ task = "none" /\ woken = {} /\ handler = "idle"
  /\ queue = <<>> /\ link = "off" /\ phone = "off" /\ offered = NoCfg
  /\ nvs \in Configs

WifiReset ==
  /\ state' = "CLOSE" /\ wifiConfig' = NoCfg /\ bits' = {}
  /\ task' = "none" /\ woken' = {} /\ handler' = "idle"
  /\ queue' = <<>> /\ link' = "off" /\ phone' = "off" /\ offered' = NoCfg
  /\ UNCHANGED nvs

WifiIsConnected == state = "CONNECT"

(* wifi_init reads the configuration and starts the station, which says    *)
(* so with an event.                                                       *)
WifiStart ==
  /\ link = "off"
  /\ wifiConfig' = nvs
  /\ link' = "idle"
  /\ queue' = <<"STA_START">>
  /\ UNCHANGED <<state, bits, task, woken, handler, phone, offered, nvs>>

-----------------------------------------------------------------------------
(* event_handler. *)
Takes(event) ==
  /\ handler = "idle"
  /\ queue # <<>> /\ Head(queue) = event
  /\ queue' = Tail(queue)

(* wifi_smart_cfg_start.  s_wifiCtrl.task is null for ever: xTaskCreate is *)
(* given its value, not its address.                                       *)
SmartCfgStart ==
  /\ bits' = {}
  /\ task' = "created"
  /\ state' = "SMARTCFG"

(* Slip: the station is started and smartconfig with it.                   *)
OnStaStartBoth ==
  /\ Takes("STA_START")
  /\ SmartCfgStart
  /\ link' = IF wifiConfig # NoCfg THEN "joining" ELSE link
  /\ UNCHANGED <<wifiConfig, woken, handler, phone, offered, nvs>>

OnStaStart ==
  /\ Takes("STA_START")
  /\ \/ /\ wifiConfig # NoCfg
        /\ state' = "OPEN"
        /\ link' = "joining"
        /\ UNCHANGED <<bits, task>>
     \/ /\ wifiConfig = NoCfg
        /\ SmartCfgStart
        /\ UNCHANGED link
  /\ UNCHANGED <<wifiConfig, woken, handler, phone, offered, nvs>>

(* Slip: the lost link is noted, the connection not asked for again.       *)
OnDisconnectedQuiet ==
  /\ Takes("STA_DISCONNECTED")
  /\ bits' = bits \ {"CONNECTED"}
  /\ handler' = "disconnected"
  /\ UNCHANGED <<state, wifiConfig, task, woken, link, phone, offered, nvs>>

(* esp_wifi_connect is taken to be accepted here and in the other two      *)
(* places that call it; the code does not look at its result.              *)
OnDisconnected ==
  /\ Takes("STA_DISCONNECTED")
  /\ link' = "joining"
  /\ bits' = bits \ {"CONNECTED"}
  /\ handler' = "disconnected"
  /\ UNCHANGED <<state, wifiConfig, task, woken, phone, offered, nvs>>

OnGotIp ==
  /\ Takes("GOT_IP")
  /\ bits' = bits \cup {"CONNECTED"}
  /\ handler' = "got_ip"
  /\ UNCHANGED <<state, wifiConfig, task, woken, link, phone, offered, nvs>>

(* The station was idle, so esp_wifi_disconnect has nothing to do.         *)
OnGotSsidPswd ==
  /\ Takes("GOT_SSID_PSWD")
  /\ wifiConfig' = offered
  /\ link' = "joining"
  /\ handler' = "got_ssid_pswd"
  /\ UNCHANGED <<state, bits, task, woken, phone, offered, nvs>>

(* Slip: the pair is used and not saved. *)
FinishUnsaved ==
  /\ handler # "idle"
  /\ handler' = "idle"
  /\ state' = CASE handler = "disconnected" -> "DISCONNECT"
                [] handler = "got_ip" -> "CONNECT"
                [] OTHER -> state
  /\ UNCHANGED <<wifiConfig, bits, task, woken, radio, nvs>>

(* Slip: a lost link leaves the state as it was. *)
FinishConnected ==
  /\ handler # "idle"
  /\ handler' = "idle"
  /\ state' = IF handler = "got_ip" THEN "CONNECT" ELSE state
  /\ nvs' = IF handler = "got_ssid_pswd" THEN wifiConfig ELSE nvs
  /\ UNCHANGED <<wifiConfig, bits, task, woken, radio>>

(* What is left of the call: the state, or saveWifiConfig, whose nvs_open  *)
(* and nvs_set_blob are taken to succeed; the code does not look at their  *)
(* results.                                                                *)
Finish ==
  /\ handler # "idle"
  /\ handler' = "idle"
  /\ state' = CASE handler = "disconnected" -> "DISCONNECT"
                [] handler = "got_ip" -> "CONNECT"
                [] OTHER -> state
  /\ nvs' = IF handler = "got_ssid_pswd" THEN wifiConfig ELSE nvs
  /\ UNCHANGED <<wifiConfig, bits, task, woken, radio>>

(* SC_EVENT_SEND_ACK_DONE.  It waits in the same queue as the others; its  *)
(* place there makes no difference to them.                                *)
OnAckDone ==
  /\ handler = "idle"
  /\ phone = "has_pair" /\ link = "up"
  /\ phone' = "acked"
  /\ bits' = bits \cup {"ESPTOUCH_DONE"}
  /\ UNCHANGED <<state, wifiConfig, task, woken, handler, queue, link, offered, nvs>>

EventHandler ==
  OnStaStart \/ OnDisconnected \/ OnGotIp \/ OnGotSsidPswd \/ Finish \/ OnAckDone

-----------------------------------------------------------------------------
(* smartconfig_task. *)
TaskStarts ==
  /\ task = "created"
  /\ task' = "waiting"
  /\ phone' = "listening"
  /\ UNCHANGED <<state, wifiConfig, bits, woken, handler, queue, link, offered, nvs>>

TaskWakes ==
  /\ task = "waiting" /\ bits # {}
  /\ task' = "woken"
  /\ woken' = bits
  /\ bits' = {}
  /\ UNCHANGED <<state, wifiConfig, handler, radio, nvs>>

(* wifi_smart_cfg_abort with this state dereferences the null handle.      *)
AbortPanics == task = "woken" /\ "CONNECTED" \in woken /\ state = "SMARTCFG"

TaskGoesOn ==
  /\ task = "woken" /\ ~AbortPanics
  /\ task' = "waiting"
  /\ woken' = {}
  /\ UNCHANGED <<state, wifiConfig, bits, handler, radio, nvs>>

SmartconfigTask == TaskStarts \/ TaskWakes \/ TaskGoesOn

-----------------------------------------------------------------------------
(* The world. *)
Tells(event) == queue' = Append(queue, event)

JoinSucceeds ==
  /\ link = "joining" /\ wifiConfig = Right
  /\ link' = "up" /\ Tells("GOT_IP")
  /\ UNCHANGED <<ram, phone, offered, nvs>>

LinkFails ==
  /\ link \in {"joining", "up"}
  /\ link' = "idle" /\ Tells("STA_DISCONNECTED")
  /\ UNCHANGED <<ram, phone, offered, nvs>>

PhoneSends(c) ==
  /\ phone = "listening"
  /\ phone' = "has_pair" /\ offered' = c /\ Tells("GOT_SSID_PSWD")
  /\ UNCHANGED <<ram, link, nvs>>

World == JoinSucceeds \/ LinkFails \/ \E c \in Creds : PhoneSends(c)

-----------------------------------------------------------------------------
WifiTypeOK ==
  /\ state \in States
  /\ wifiConfig \in Configs /\ offered \in Configs /\ nvs \in Configs
  /\ bits \in SUBSET Bits /\ woken \in SUBSET Bits
  /\ task \in {"none", "created", "waiting", "woken"}
  /\ handler \in {"idle", "disconnected", "got_ip", "got_ssid_pswd"}
  /\ queue \in Seq(Events)
  /\ link \in {"off", "idle", "joining", "up"}
  /\ phone \in {"off", "listening", "has_pair", "acked"}

(* Once its events are handled, the program and the radio agree: connected *)
(* is up, disconnected is joining, and a station that does nothing has     *)
(* smartconfig listening.  No retry is lost on the way.                    *)
StateTracksLink ==
  queue = <<>> /\ handler = "idle" =>
    /\ state = "CONNECT" <=> link = "up"
    /\ state = "DISCONNECT" => link = "joining"
    /\ link = "idle" => task # "none" /\ phone \in {"off", "listening"}

(* At most a connection and its loss, or one other event, wait for the     *)
(* handler, which is far from the capacity of the event loop.              *)
QueueShort == Len(queue) <= 2

(* The pair a connection was made with is in flash before the connection   *)
(* is reported, if flash takes it at all.  So is a pair when               *)
(* wifi_smart_cfg_abort panics: the next start does not run smartconfig    *)
(* and cannot panic again.                                                 *)
OnlineIsSaved ==
  /\ state = "CONNECT" => nvs = Right
  /\ AbortPanics => nvs # NoCfg
=============================================================================
