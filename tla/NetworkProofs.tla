---------------------------- MODULE NetworkProofs ----------------------------
(***************************************************************************)
(* For every set of pairs a phone may send: the station's state follows    *)
(* the radio, its pair is saved in time, and one web server at most exists.*)
(*                                                                         *)
(* The inductive invariant of the station names the few shapes in which    *)
(* the queue of events, the handler and the radio can meet.                *)
(***************************************************************************)
EXTENDS Network, SequenceTheorems, TLAPS

(* Nothing runs yet, or the start of the station waits to be handled.      *)
Off ==
  /\ link = "off" /\ queue = <<>> /\ handler = "idle"
  /\ state = "CLOSE" /\ task = "none" /\ phone = "off"

Started0 ==
  /\ link = "idle" /\ queue = <<"STA_START">> /\ handler = "idle"
  /\ state = "CLOSE" /\ task = "none" /\ phone = "off"
  /\ wifiConfig = nvs

(* Smartconfig waits for a pair, or a pair waits for the handler.          *)
Listening ==
  /\ link = "idle" /\ queue = <<>> /\ handler = "idle"
  /\ state = "SMARTCFG" /\ nvs = NoCfg
  /\ task # "none" /\ phone = IF task = "created" THEN "off" ELSE "listening"

Told ==
  /\ link = "idle" /\ queue = <<"GOT_SSID_PSWD">> /\ handler = "idle"
  /\ state = "SMARTCFG" /\ nvs = NoCfg
  /\ task \in {"waiting", "woken"} /\ phone = "has_pair" /\ offered \in Creds

(* The station uses a pair, which is saved unless its handler has not come *)
(* to that yet.                                                            *)
Paired ==
  /\ task # "created" /\ phone # "listening"
  /\ wifiConfig \in Creds
  /\ IF handler = "got_ssid_pswd" THEN state = "SMARTCFG" /\ nvs = NoCfg
                                  ELSE nvs = wifiConfig
  /\ state = "CONNECT" \/ handler = "got_ip" => wifiConfig = Right

Unconnected == handler # "got_ip" /\ (handler = "idle" => state # "CONNECT")

Joining   == link = "joining" /\ queue = <<>> /\ Unconnected
Up        == link = "up" /\ queue = <<"GOT_IP">> /\ wifiConfig = Right /\ Unconnected
Connected ==
  /\ link = "up" /\ queue = <<>> /\ wifiConfig = Right
  /\ handler \in {"idle", "got_ip"} /\ (handler = "idle" => state = "CONNECT")
Lost      == link = "idle" /\ queue = <<"STA_DISCONNECTED">>
UpAndLost ==
  /\ link = "idle" /\ queue = <<"GOT_IP", "STA_DISCONNECTED">>
  /\ wifiConfig = Right /\ Unconnected

Using == Paired /\ (Joining \/ Up \/ Connected \/ Lost \/ UpAndLost)

Shape == Off \/ Started0 \/ Listening \/ Told \/ Using

(* The bit of a connection is only raised with a pair that is saved.       *)
BitsAreSaved == "CONNECTED" \in bits \cup woken => nvs # NoCfg

WifiInv == WifiTypeOK /\ Shape /\ BitsAreSaved

(* What the poll of the web server knows in the middle of a turn.          *)
HttpInv ==
  /\ HttpTypeOK /\ OneServer
  /\ poll = "starts" => ~running
  /\ poll = "stops" => running

NetworkInv == WifiInv /\ HttpInv

-----------------------------------------------------------------------------
(* The queues the shapes speak of. *)
LEMMA Singles ==
  ASSUME NEW a
  PROVE  /\ Len(<<a>>) = 1 /\ Head(<<a>>) = a /\ Tail(<<a>>) = <<>>
         /\ Append(<<>>, a) = <<a>> /\ <<a>> # <<>> /\ Len(<<>>) = 0
  OBVIOUS

LEMMA Doubles ==
  ASSUME NEW a, NEW b
  PROVE  /\ Len(<<a, b>>) = 2 /\ Head(<<a, b>>) = a /\ <<a, b>> # <<>>
         /\ Tail(<<a, b>>) = <<b>> /\ Append(<<a>>, b) = <<a, b>>
  <1>1. Len(<<a, b>>) = 2 /\ Head(<<a, b>>) = a /\ <<a, b>> # <<>>
    OBVIOUS
  <1>2. Tail(<<a, b>>) = <<b>>
    OBVIOUS
  <1>3. Append(<<a>>, b) = <<a, b>>
    <2> DEFINE S == {a, b}  s == Append(<<a>>, b)  t == <<a, b>>
    <2>1. <<a>> \in Seq(S) /\ Len(<<a>>) = 1 /\ <<a>>[1] = a
      OBVIOUS
    <2>2. s \in Seq(S) /\ Len(s) = 2 /\ s[1] = a /\ s[2] = b
      BY <2>1
    <2>3. t \in Seq(S) /\ Len(t) = 2 /\ t[1] = a /\ t[2] = b
      OBVIOUS
    <2> HIDE DEF s, t
    <2>4. \A i \in 1 .. Len(s) : s[i] = t[i]
      BY <2>2, <2>3
    <2>5. s = t
      BY <2>2, <2>3, <2>4, SeqEqual
    <2> QED BY <2>5 DEF s, t
  <1> QED BY <1>1, <1>2, <1>3

LEMMA QueuesTyped ==
  /\ <<>> \in Seq(Events)
  /\ \A a \in Events : <<a>> \in Seq(Events)
  /\ \A a, b \in Events : <<a, b>> \in Seq(Events)
  OBVIOUS

LEMMA InitInv == Init => NetworkInv
  <1> SUFFICES ASSUME Init PROVE NetworkInv
    OBVIOUS
  <1>1. WifiInv
    BY QueuesTyped DEF Init, WifiInit, WifiInv, WifiTypeOK, Shape, Off, BitsAreSaved,
      States, Bits, Configs
  <1>2. HttpInv
    BY DEF Init, HttpInit, HttpInv, HttpTypeOK, OneServer
  <1> QED BY <1>1, <1>2 DEF NetworkInv

(* The invariant is enough. *)
LEMMA InvEnough == NetworkInv => TypeOK /\ StateTracksLink /\ OnlineIsSaved /\ OneServer
  <1> SUFFICES ASSUME NetworkInv PROVE TypeOK /\ StateTracksLink /\ OnlineIsSaved /\ OneServer
    OBVIOUS
  <1> USE DEF NetworkInv, WifiInv, Shape, Using
  <1>1. Len(queue) <= 2
    <2>1. \/ queue = <<>> \/ queue = <<"STA_START">> \/ queue = <<"GOT_SSID_PSWD">>
          \/ queue = <<"GOT_IP">> \/ queue = <<"STA_DISCONNECTED">>
          \/ queue = <<"GOT_IP", "STA_DISCONNECTED">>
      BY DEF Off, Started0, Listening, Told, Joining, Up, Connected, Lost, UpAndLost
    <2>2. Len(<<>>) = 0 /\ Len(<<"GOT_IP", "STA_DISCONNECTED">>) = 2
      BY Singles, Doubles
    <2>3. /\ Len(<<"STA_START">>) = 1 /\ Len(<<"GOT_SSID_PSWD">>) = 1
          /\ Len(<<"GOT_IP">>) = 1 /\ Len(<<"STA_DISCONNECTED">>) = 1
      BY Singles
    <2>4. Len(queue) \in {0, 1, 2}
      BY <2>1, <2>2, <2>3, Zenon
    <2>5. \A n \in {0, 1, 2} : n <= 2
      OBVIOUS
    <2> QED BY <2>4, <2>5, Zenon
  <1>2. StateTracksLink
    BY Singles, Doubles DEF StateTracksLink, WifiTypeOK, Off, Started0, Listening, Told,
      Joining, Up, Connected, Lost, UpAndLost, Unconnected
  <1>3. OnlineIsSaved
    BY CredAssumption DEF OnlineIsSaved, AbortPanics, BitsAreSaved, Off, Started0, Listening,
      Told, Paired
  <1> QED BY <1>1, <1>2, <1>3 DEF TypeOK, QueueShort, HttpInv
-----------------------------------------------------------------------------
(* What an event that is taken says of the station.                        *)
LEMMA TakesShape ==
  ASSUME WifiInv, NEW event, Takes(event)
  PROVE  /\ handler = "idle"
         /\ \/ event = "STA_START" /\ Started0 /\ queue' = <<>>
            \/ event = "GOT_SSID_PSWD" /\ Told /\ queue' = <<>>
            \/ event = "STA_DISCONNECTED" /\ Paired /\ Lost /\ queue' = <<>>
            \/ event = "GOT_IP" /\ Paired /\ Up /\ queue' = <<>>
            \/ event = "GOT_IP" /\ Paired /\ UpAndLost /\ queue' = <<"STA_DISCONNECTED">>
  <1>1. handler = "idle" /\ queue # <<>> /\ event = Head(queue) /\ queue' = Tail(queue)
    BY DEF Takes
  <1>2. Started0 \/ Told \/ (Paired /\ (Up \/ Lost \/ UpAndLost))
    BY <1>1 DEF WifiInv, Shape, Using, Off, Listening, Joining, Connected
  <1>3. CASE Started0
    <2>1. queue = <<"STA_START">>
      BY <1>3 DEF Started0
    <2> QED BY <1>1, <1>3, <2>1, Singles
  <1>4. CASE Told
    <2>1. queue = <<"GOT_SSID_PSWD">>
      BY <1>4 DEF Told
    <2> QED BY <1>1, <1>4, <2>1, Singles
  <1>5. CASE Paired /\ Lost
    <2>1. queue = <<"STA_DISCONNECTED">>
      BY <1>5 DEF Lost
    <2> QED BY <1>1, <1>5, <2>1, Singles
  <1>6. CASE Paired /\ Up
    <2>1. queue = <<"GOT_IP">>
      BY <1>6 DEF Up
    <2> QED BY <1>1, <1>6, <2>1, Singles
  <1>7. CASE Paired /\ UpAndLost
    <2>1. queue = <<"GOT_IP", "STA_DISCONNECTED">>
      BY <1>7 DEF UpAndLost
    <2> QED BY <1>1, <1>7, <2>1, Doubles
  <1> QED BY <1>2, <1>3, <1>4, <1>5, <1>6, <1>7

(* One lemma per part of the station. *)
LEMMA BootInv == ASSUME WifiInv, WifiStart PROVE WifiInv'
  <1>1. Started0'
    BY Singles, Doubles DEF WifiInv, WifiStart, Shape, Off, Started0, Listening, Told, Using,
      Joining, Up, Connected, Lost, UpAndLost
  <1>2. WifiTypeOK'
    BY QueuesTyped DEF WifiInv, WifiStart, WifiTypeOK, Events
  <1> QED BY <1>1, <1>2 DEF WifiInv, WifiStart, Shape, BitsAreSaved

LEMMA StaStartInv == ASSUME WifiInv, OnStaStart PROVE WifiInv'
  <1>1. Started0 /\ queue' = <<>>
    BY TakesShape DEF OnStaStart
  <1>2. WifiTypeOK'
    BY <1>1, QueuesTyped DEF WifiInv, OnStaStart, SmartCfgStart, WifiTypeOK, States, Bits
  <1>3. CASE wifiConfig # NoCfg
    <2>1. Paired' /\ Joining'
      BY <1>1, <1>3 DEF WifiInv, WifiTypeOK, Configs, OnStaStart, Started0, Paired, Joining, Unconnected
    <2> QED BY <1>1, <1>2, <1>3, <2>1 DEF WifiInv, OnStaStart, Shape, Using, BitsAreSaved
  <1>4. CASE wifiConfig = NoCfg
    <2>1. Listening'
      BY <1>1, <1>4 DEF OnStaStart, SmartCfgStart, Started0, Listening
    <2> QED BY <1>1, <1>2, <1>4, <2>1 DEF WifiInv, OnStaStart, SmartCfgStart, Shape, BitsAreSaved
  <1> QED BY <1>3, <1>4

LEMMA DisconnectedInv == ASSUME WifiInv, OnDisconnected PROVE WifiInv'
  <1>1. Paired /\ Lost /\ queue' = <<>>
    BY TakesShape DEF OnDisconnected
  <1>2. WifiTypeOK'
    BY <1>1, QueuesTyped DEF WifiInv, OnDisconnected, WifiTypeOK, Bits
  <1>3. Paired' /\ Joining'
    BY <1>1 DEF OnDisconnected, Takes, Paired, Joining, Unconnected
  <1> QED BY <1>2, <1>3 DEF WifiInv, OnDisconnected, Shape, Using, BitsAreSaved

LEMMA GotIpInv == ASSUME WifiInv, OnGotIp PROVE WifiInv'
  <1>1. /\ Paired /\ handler = "idle" /\ wifiConfig = Right
        /\ \/ link = "up" /\ queue' = <<>>
           \/ link = "idle" /\ queue' = <<"STA_DISCONNECTED">>
    BY TakesShape DEF OnGotIp, Paired, Up, UpAndLost
  <1>2. WifiTypeOK'
    BY <1>1, QueuesTyped DEF WifiInv, OnGotIp, WifiTypeOK, Bits, Events
  <1>3. Paired' /\ (Connected' \/ Lost')
    BY <1>1 DEF OnGotIp, Paired, Connected, Lost
  <1>4. nvs' # NoCfg
    BY <1>1, CredAssumption DEF Paired, OnGotIp
  <1> QED BY <1>2, <1>3, <1>4 DEF WifiInv, Shape, Using, BitsAreSaved

LEMMA GotSsidInv == ASSUME WifiInv, OnGotSsidPswd PROVE WifiInv'
  <1>1. Told /\ queue' = <<>>
    BY TakesShape DEF OnGotSsidPswd
  <1>2. WifiTypeOK'
    BY <1>1, QueuesTyped DEF WifiInv, OnGotSsidPswd, WifiTypeOK, Configs
  <1>3. Paired' /\ Joining'
    BY <1>1 DEF OnGotSsidPswd, Told, Paired, Joining, Unconnected
  <1> QED BY <1>2, <1>3 DEF WifiInv, OnGotSsidPswd, Shape, Using, BitsAreSaved

LEMMA FinishInv == ASSUME WifiInv, Finish PROVE WifiInv'
  <1>1. Paired /\ (Joining \/ Up \/ Connected \/ Lost \/ UpAndLost)
    BY DEF WifiInv, Finish, Shape, Off, Started0, Listening, Told, Using
  <1>2. /\ handler \in {"disconnected", "got_ip", "got_ssid_pswd"} /\ handler' = "idle"
        /\ state' = IF handler = "disconnected" THEN "DISCONNECT"
                    ELSE IF handler = "got_ip" THEN "CONNECT" ELSE state
        /\ nvs' = wifiConfig
    BY <1>1 DEF WifiInv, WifiTypeOK, Finish, Paired
  <1>3. WifiTypeOK'
    BY <1>1, <1>2 DEF WifiInv, Finish, WifiTypeOK, States, radio, Configs
  <1>4. Paired'
    BY <1>1, <1>2 DEF Finish, Paired, radio
  <1>5. Joining' \/ Up' \/ Connected' \/ Lost' \/ UpAndLost'
    BY <1>1, <1>2 DEF Finish, Paired, Joining, Up, Connected, Lost, UpAndLost, Unconnected, radio
  <1>6. nvs' # NoCfg
    BY <1>1, <1>2, CredAssumption DEF Paired
  <1> QED BY <1>3, <1>4, <1>5, <1>6 DEF WifiInv, Shape, Using, BitsAreSaved

LEMMA AckDoneInv == ASSUME WifiInv, OnAckDone PROVE WifiInv'
  <1>1. Using
    BY DEF WifiInv, OnAckDone, Shape, Off, Started0, Listening, Told
  <1>2. WifiTypeOK'
    BY DEF WifiInv, OnAckDone, WifiTypeOK, Bits
  <1>3. Using'
    BY <1>1 DEF OnAckDone, Using, Paired, Joining, Up, Connected, Lost, UpAndLost, Unconnected
  <1> QED BY <1>2, <1>3 DEF WifiInv, OnAckDone, Shape, BitsAreSaved

LEMMA TaskInv == ASSUME WifiInv, SmartconfigTask PROVE WifiInv'
  <1>1. CASE TaskStarts
    <2>1. Listening
      BY <1>1 DEF WifiInv, TaskStarts, Shape, Off, Started0, Listening, Told, Using, Paired
    <2>2. WifiTypeOK' /\ Listening'
      BY <1>1, <2>1 DEF WifiInv, TaskStarts, WifiTypeOK, Listening
    <2> QED BY <1>1, <2>2 DEF WifiInv, TaskStarts, Shape, BitsAreSaved
  <1>2. CASE TaskWakes \/ TaskGoesOn
    <2>1. /\ task \in {"waiting", "woken"} /\ task' \in {"waiting", "woken"}
          /\ bits' \in SUBSET Bits /\ woken' \in SUBSET Bits
          /\ bits' \cup woken' \subseteq bits \cup woken
          /\ UNCHANGED <<state, wifiConfig, handler, queue, link, phone, offered, nvs>>
      BY <1>2 DEF WifiInv, WifiTypeOK, TaskWakes, TaskGoesOn, radio
    <2>2. WifiTypeOK' /\ BitsAreSaved'
      BY <2>1 DEF WifiInv, WifiTypeOK, BitsAreSaved
    <2>3. Listening \/ Told \/ Using
      BY <2>1 DEF WifiInv, Shape, Off, Started0
    <2>4. Listening' \/ Told' \/ Using'
      BY <2>1, <2>3 DEF Listening, Told, Using, Paired, Joining, Up, Connected, Lost, UpAndLost,
        Unconnected
    <2> QED BY <2>2, <2>4 DEF WifiInv, Shape
  <1> QED BY <1>1, <1>2 DEF SmartconfigTask

LEMMA WorldInv == ASSUME WifiInv, World PROVE WifiInv'
  <1> USE DEF ram
  <1>1. CASE JoinSucceeds
    <2>1. Using /\ Joining
      BY <1>1 DEF WifiInv, JoinSucceeds, Shape, Off, Started0, Listening, Told, Using,
        Up, Connected, Lost, UpAndLost
    <2>2. queue' = <<"GOT_IP">>
      BY <1>1, <2>1, Singles, Doubles DEF JoinSucceeds, Tells, Joining
    <2>3. WifiTypeOK'
      BY <1>1, <2>2, QueuesTyped DEF WifiInv, JoinSucceeds, WifiTypeOK, Events
    <2>4. Paired' /\ Up'
      BY <1>1, <2>1, <2>2 DEF JoinSucceeds, Using, Paired, Joining, Up, Unconnected
    <2> QED BY <1>1, <2>3, <2>4 DEF WifiInv, JoinSucceeds, Shape, Using, BitsAreSaved
  <1>2. CASE LinkFails
    <2>1. Paired /\ (Joining \/ Up \/ Connected)
      BY <1>2 DEF WifiInv, LinkFails, Shape, Off, Started0, Listening, Told, Using, Lost, UpAndLost
    <2>2. queue' = IF Up THEN <<"GOT_IP", "STA_DISCONNECTED">> ELSE <<"STA_DISCONNECTED">>
      <3>1. queue' = Append(queue, "STA_DISCONNECTED")
        BY <1>2 DEF LinkFails, Tells
      <3>2. CASE Up
        BY <3>1, <3>2, Doubles DEF Up
      <3>3. CASE Joining \/ Connected
        <4>1. queue = <<>> /\ queue # <<"GOT_IP">>
          BY <3>3, Singles DEF Joining, Connected
        <4> QED BY <3>1, <4>1, Singles DEF Up
      <3> QED BY <2>1, <3>2, <3>3
    <2>3. WifiTypeOK'
      BY <1>2, <2>2, QueuesTyped DEF WifiInv, LinkFails, WifiTypeOK, Events
    <2>4. Paired' /\ (UpAndLost' \/ Lost')
      BY <1>2, <2>1, <2>2 DEF LinkFails, Paired, Up, Lost, UpAndLost, Unconnected
    <2> QED BY <1>2, <2>3, <2>4 DEF WifiInv, LinkFails, Shape, Using, BitsAreSaved
  <1>3. ASSUME NEW c \in Creds, PhoneSends(c) PROVE WifiInv'
    <2>1. Listening
      BY <1>3 DEF WifiInv, PhoneSends, Shape, Off, Started0, Told, Using, Paired
    <2>2. queue' = <<"GOT_SSID_PSWD">>
      BY <1>3, <2>1, Singles, Doubles DEF PhoneSends, Tells, Listening
    <2>3. WifiTypeOK'
      BY <1>3, <2>2, QueuesTyped DEF WifiInv, PhoneSends, WifiTypeOK, Events, Configs
    <2>4. Told'
      BY <1>3, <2>1, <2>2 DEF WifiInv, WifiTypeOK, PhoneSends, Listening, Told
    <2> QED BY <1>3, <2>3, <2>4 DEF WifiInv, PhoneSends, Shape, BitsAreSaved
  <1> QED BY <1>1, <1>2, <1>3 DEF World

LEMMA RestartInv == ASSUME WifiInv, Restart PROVE NetworkInv'
  <1>1. WifiTypeOK' /\ Off' /\ BitsAreSaved'
    BY QueuesTyped DEF WifiInv, WifiTypeOK, Restart, WifiReset, Off, BitsAreSaved, States, Bits, Configs
  <1>2. HttpInv'
    BY DEF Restart, HttpReset, HttpInv, HttpTypeOK, OneServer
  <1> QED BY <1>1, <1>2 DEF NetworkInv, WifiInv, Shape

LEMMA WifiUnchanged == ASSUME WifiInv, UNCHANGED wifi PROVE WifiInv'
  BY DEF WifiInv, WifiTypeOK, Shape, Off, Started0, Listening, Told, Using, Paired, Joining, Up,
    Connected, Lost, UpAndLost, Unconnected, BitsAreSaved, wifi, ram, radio

(* The web server's task and its requests. *)
LEMMA WebInv ==
  ASSUME HttpInv,
         \/ HttpServerInit \/ ServerTask(WifiIsConnected)
         \/ RequestBegins(link = "up") \/ RequestEnds \/ UNCHANGED http
  PROVE  HttpInv'
  <1> USE DEF HttpInv, HttpTypeOK, OneServer
  <1>1. CASE HttpServerInit
    BY <1>1 DEF HttpServerInit
  <1>2. CASE Poll(WifiIsConnected)
    BY <1>2 DEF Poll
  <1>3. CASE Started
    BY <1>3 DEF Started
  <1>4. CASE Stopped
    BY <1>4 DEF Stopped
  <1>5. CASE RequestBegins(link = "up")
    BY <1>5 DEF RequestBegins
  <1>6. CASE RequestEnds
    BY <1>6 DEF RequestEnds
  <1>7. CASE UNCHANGED http
    BY <1>7 DEF http
  <1> QED BY <1>1, <1>2, <1>3, <1>4, <1>5, <1>6, <1>7 DEF ServerTask

LEMMA NextInv == NetworkInv /\ [Next]_vars => NetworkInv'
  <1> SUFFICES ASSUME NetworkInv, [Next]_vars PROVE NetworkInv'
    OBVIOUS
  <1> USE DEF NetworkInv
  <1>1. CASE Boot
    BY <1>1, BootInv, WifiUnchanged, WebInv DEF Boot
  <1>2. CASE Station
    <2>1. WifiInv'
      BY <1>2, StaStartInv, DisconnectedInv, GotIpInv, GotSsidInv, FinishInv, AckDoneInv,
        TaskInv, WorldInv DEF Station, EventHandler
    <2> QED BY <1>2, <2>1, WebInv DEF Station
  <1>3. CASE Web
    BY <1>3, WifiUnchanged, WebInv DEF Web
  <1>4. CASE Panic \/ PowerCut
    BY <1>4, RestartInv DEF Panic, PowerCut
  <1>5. CASE UNCHANGED vars
    BY <1>5, WifiUnchanged, WebInv DEF vars
  <1> QED BY <1>1, <1>2, <1>3, <1>4, <1>5 DEF Next

LEMMA Invariant == Spec => []NetworkInv
  BY InitInv, NextInv, PTL DEF Spec

-----------------------------------------------------------------------------
(* Types, and never more than two events in the queue.                     *)
THEOREM NetworkTypeOK == Spec => []TypeOK
  BY Invariant, InvEnough, PTL

(* Once its events are handled, the program's state is that of the radio,  *)
(* and a station that is idle is one that listens for a pair.              *)
THEOREM NetworkStateTracksLink == Spec => []StateTracksLink
  BY Invariant, InvEnough, PTL

(* No connection is reported, and no panic of the first configuration      *)
(* restarts the chip, before the pair is in flash.                         *)
THEOREM NetworkOnlineIsSaved == Spec => []OnlineIsSaved
  BY Invariant, InvEnough, PTL

(* The handle is there exactly while one web server exists.                *)
THEOREM NetworkOneServer == Spec => []OneServer
  BY Invariant, InvEnough, PTL
=============================================================================
