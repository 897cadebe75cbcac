------------------------------- MODULE Network -------------------------------
(***************************************************************************)
(* The station and the web server together, started in the order of        *)
(* app_main and restarted by power cuts and by the panic of                *)
(* wifi_smart_cfg_abort.                                                   *)
(***************************************************************************)
EXTENDS Wifi, HttpServer

vars == <<wifi, http>>

Init == WifiInit /\ HttpInit

Restart == WifiReset /\ HttpReset

PowerCut == link # "off" /\ Restart
Panic    == AbortPanics /\ Restart

(* pal_init, then server_init *)
Boot ==
  \/ WifiStart /\ UNCHANGED http
  \/ link # "off" /\ HttpServerInit /\ UNCHANGED wifi

Station == (EventHandler \/ SmartconfigTask \/ World) /\ UNCHANGED http
Web ==
  /\ ServerTask(WifiIsConnected) \/ RequestBegins(link = "up") \/ RequestEnds
  /\ UNCHANGED wifi

Next == Boot \/ Station \/ Web \/ Panic \/ PowerCut

(* The tasks run; requests end; an access point that accepts the pair lets *)
(* the station in if it keeps trying.  Nothing is owed by the phone or by  *)
(* the power supply.                                                       *)
Spec ==
  /\ Init /\ [][Next]_vars
  /\ WF_vars(Boot)
  /\ WF_vars(EventHandler /\ UNCHANGED http)
  /\ WF_vars(SmartconfigTask /\ UNCHANGED http)
  /\ SF_vars(JoinSucceeds /\ UNCHANGED http)
  /\ WF_vars(ServerTask(WifiIsConnected) /\ UNCHANGED wifi)
  /\ WF_vars(RequestEnds /\ UNCHANGED wifi)
  /\ WF_vars(Panic)

-----------------------------------------------------------------------------
TypeOK == WifiTypeOK /\ HttpTypeOK /\ QueueShort

PowerStays == <>[][~PowerCut]_vars

(* With the right pair in flash and power that stays, the device is online *)
(* again and again, whatever the link does: every loss is followed by a    *)
(* retry, and the panic of a first configuration by a restart.             *)
Reconnects == PowerStays /\ <>[](nvs = Right) => []<>WifiIsConnected

(* A connection that lasts is served, and a loss that lasts stops the web  *)
(* server, whatever happened between two looks of the task.  A start that  *)
(* failed counts as served: it is not tried again while the connection     *)
(* lasts.                                                                  *)
ServerFollows ==
  PowerStays =>
    /\ <>[]WifiIsConnected => <>[]running
    /\ <>[](~WifiIsConnected) => <>[](httpds = 0 /\ ~running)

(* A start that failed, after which running is true all the same, is made  *)
(* good at the next loss the poll sees: once starts succeed, and losses go *)
(* on being seen, running again means that there is a web server.          *)
StartsSucceed == [][Started => server']_vars

FailedStartHeals ==
  <>StartsSucceed /\ []<>(poll = "stops") => <>[](running => server)

(* "if wifi no connected, smartconfig will be actived in 10s", say the     *)
(* comments where a connection is asked for: a station that neither        *)
(* connects nor is switched off comes to smartconfig.                      *)
SmartconfigActivated ==
  PowerStays =>
    (state \in {"OPEN", "DISCONNECT"} ~> state \in {"CONNECT", "SMARTCFG", "CLOSE"})
=============================================================================
