------------------------------- MODULE Storage -------------------------------
(***************************************************************************)
(* The web server's handlers and the gallery of the main page on one card, *)
(* with power cuts.                                                        *)
(***************************************************************************)
EXTENDS FileService, Gallery

vars == <<service, gallery>>

Init == ServiceInit /\ GalleryInit

Httpd == (Requests \/ Continues \/ PeerGoes) /\ UNCHANGED gallery
Gui   == (OnCreate \/ OnRelease \/ TimerCb \/ Scan) /\ UNCHANGED service

PowerCut == ServiceCut /\ GalleryReset

Next == Httpd \/ Gui \/ PowerCut

(* A client that is connected sends, or its connection breaks: one that    *)
(* stays silent for ever would keep the handler.  The LVGL timer is        *)
(* periodic and a scan that has begun continues.                           *)
Spec ==
  /\ Init /\ [][Next]_vars
  /\ WF_vars(Continues /\ UNCHANGED gallery)
  /\ WF_vars(TimerCb /\ UNCHANGED service)
  /\ WF_vars(Scan /\ UNCHANGED service)

-----------------------------------------------------------------------------
TypeOK == ServiceTypeOK /\ GalleryTypeOK

(* The service gives back what it opened, the page what it created.        *)
NothingLeaks == NothingHeld /\ GifOwned

(* Every request comes to an end: a turn of a loop that is not a timeout   *)
(* makes progress, and a connection that broke is not taken for a timeout. *)
HandlersEnd == []<>(handler = "idle")

(* The position finds its way after any uploads and deletions: once the    *)
(* directory rests, every GIF of it is shown again and again, wherever     *)
(* other files lie between them.                                           *)
ShowsEveryGif ==
  <>[](page /\ handler # "upload") /\ <>[][UNCHANGED disk]_vars =>
    \A g \in Gifs : <>[](Exists(g) /\ Fits(g)) => []<>(gif = g)
=============================================================================
