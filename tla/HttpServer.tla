----------------------------- MODULE HttpServer -----------------------------
(***************************************************************************)
(* The task of http_server.c, which every 10 ms compares wifi_is_connected *)
(* with what it did last and starts or stops the web server.  The web      *)
(* server (esp_http_server) handles one request at a time in a task of its *)
(* own, and httpd_stop waits for that task.                                *)
(***************************************************************************)
EXTENDS Naturals

VARIABLES
  poll,     \* the task: not created, polling, in start_webserver, in httpd_stop
  running,  \* http_server_ctl.running
  server,   \* http_server_ctl.server # NULL
  httpds,   \* web servers that exist
  busy      \* a request is being handled

http == <<poll, running, server, httpds, busy>>

HttpInit ==
  /\ poll = "off" /\ httpds = 0
  /\ running = FALSE /\ server = FALSE /\ busy = FALSE

HttpReset ==
  /\ poll' = "off" /\ httpds' = 0
  /\ running' = FALSE /\ server' = FALSE /\ busy' = FALSE

(* http_server_init *)
HttpServerInit ==
  /\ poll = "off"
  /\ poll' = "polls"
  /\ UNCHANGED <<running, server, httpds, busy>>

(* One look at the connection; the look decides what is done next even if  *)
(* the connection changes meanwhile.                                       *)
Poll(connected) ==
  /\ poll = "polls"
  /\ \/ connected /\ ~running /\ poll' = "starts"
     \/ ~connected /\ running /\ poll' = "stops"
  /\ UNCHANGED <<running, server, httpds, busy>>

(* Slip: running only after a success, while the start is not retried      *)
(* before the next look.                                                   *)
StartedStays ==
  /\ poll = "starts"
  /\ \E ok \in BOOLEAN :
       /\ server' = ok
       /\ httpds' = httpds + (IF ok THEN 1 ELSE 0)
       /\ running' = (running /\ ok)
  /\ poll' = "polls"
  /\ UNCHANGED busy

(* httpd_start may fail; running becomes true all the same. *)
Started ==
  /\ poll = "starts"
  /\ \E ok \in BOOLEAN :
       /\ server' = ok
       /\ httpds' = httpds + (IF ok THEN 1 ELSE 0)
  /\ running' = TRUE
  /\ poll' = "polls"
  /\ UNCHANGED busy

(* Slip: the handle is forgotten without a stop. *)
StoppedNot ==
  /\ poll = "stops"
  /\ server' = FALSE /\ running' = FALSE
  /\ poll' = "polls"
  /\ UNCHANGED <<httpds, busy>>

(* Slip: running is only reset when there was a server to stop.            *)
StoppedKeepsFailed ==
  /\ poll = "stops"
  /\ ~(server /\ busy)
  /\ httpds' = IF server THEN 0 ELSE httpds
  /\ server' = FALSE /\ running' = ~server
  /\ poll' = "polls"
  /\ UNCHANGED busy

(* httpd_stop of a null handle is refused at once. *)
Stopped ==
  /\ poll = "stops"
  /\ ~(server /\ busy)
  /\ httpds' = IF server THEN 0 ELSE httpds
  /\ server' = FALSE /\ running' = FALSE
  /\ poll' = "polls"
  /\ UNCHANGED busy

ServerTask(connected) == Poll(connected) \/ Started \/ Stopped

(* Requests arrive while the server is there. *)
RequestBegins(reachable) ==
  /\ reachable /\ httpds > 0 /\ ~busy
  /\ busy' = TRUE
  /\ UNCHANGED <<poll, running, server, httpds>>

RequestEnds ==
  /\ busy
  /\ busy' = FALSE
  /\ UNCHANGED <<poll, running, server, httpds>>

HttpTypeOK ==
  /\ poll \in {"off", "polls", "starts", "stops"}
  /\ running \in BOOLEAN /\ server \in BOOLEAN /\ busy \in BOOLEAN
  /\ httpds \in Nat

(* There is never a web server the task has lost, and never a second one,  *)
(* whose port would be taken: the handle is there exactly while one web    *)
(* server exists.                                                          *)
OneServer ==
  /\ httpds = IF server THEN 1 ELSE 0
  /\ server => running
  /\ busy => server
=============================================================================
