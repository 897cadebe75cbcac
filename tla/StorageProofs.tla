---------------------------- MODULE StorageProofs ----------------------------
(***************************************************************************)
(* For any paths, lengths and limits: the handlers and the gallery keep    *)
(* their types and leak nothing, and the file service keeps the promise of *)
(* FileStore through failures and power cuts.                              *)
(***************************************************************************)
EXTENDS Storage, TLAPS

(* A handler that runs has a path; the file it sends is there.             *)
Serving ==
  /\ handler # "idle" => path \in Names
  /\ handler = "download" => Exists(path)

ServiceInv == ServiceTypeOK /\ NothingHeld /\ Serving
GalleryInv == GalleryTypeOK /\ GifOwned

LEMMA EntryTypes ==
  /\ Absent \in Entries /\ Empty \in Entries
  /\ \A len \in Nat : Whole(len) \in Entries /\ Broken(len) \in Entries
  BY DEF Absent, Empty, Whole, Broken, Entries

LEMMA EntryFields ==
  /\ ~Absent.there /\ Empty.there
  /\ \A len : /\ Whole(len).there /\ Whole(len).whole /\ Whole(len).len = len
              /\ Broken(len).there /\ ~Broken(len).whole
  BY DEF Absent, Empty, Whole, Broken

LEMMA InitInv == Init => ServiceInv /\ GalleryInv
  <1> SUFFICES ASSUME Init PROVE ServiceInv /\ GalleryInv
    OBVIOUS
  <1>1. disk \in [Names -> Entries]
    BY EntryTypes, ServiceAssumption DEF Init, ServiceInit
  <1>2. ServiceInv
    BY <1>1 DEF Init, ServiceInit, HandlerInit, ServiceInv, ServiceTypeOK, NothingHeld, Serving
  <1>3. GalleryTypeOK
    <2>1. page \in BOOLEAN /\ timer \in BOOLEAN
      BY Zenon DEF Init, GalleryInit
    <2>2. /\ gif = NoGif /\ idx = 1 /\ scan = "rest" /\ pos = 0 /\ count = 0 /\ found = NoGif
      BY DEF Init, GalleryInit
    <2> QED BY <2>1, <2>2 DEF GalleryTypeOK
  <1>4. GifOwned
    BY Zenon DEF Init, GalleryInit, GifOwned
  <1> QED BY <1>2, <1>3, <1>4 DEF GalleryInv

-----------------------------------------------------------------------------
(* The file service. *)

(* A response puts everything back. *)
LEMMA RespondInv ==
  ASSUME disk' \in [Names -> Entries],
         NEW what \in {"none", "error", "uploaded", "deleted", "sent", "listed"}, Respond(what)
  PROVE  ServiceInv'
  BY DEF Respond, ServiceInv, ServiceTypeOK, NothingHeld, Serving

LEMMA ClosedEntry ==
  ASSUME ServiceInv, handler = "upload", NEW e \in Entries
  PROVE  /\ [disk EXCEPT ![path] = e] \in [Names -> Entries]
         /\ path \in Names /\ disk[path] = Empty
  BY DEF ServiceInv, ServiceTypeOK, Serving

LEMMA RequestsInv == ASSUME ServiceInv, Requests PROVE ServiceInv'
  <1> USE DEF ServiceInv, ServiceTypeOK
  <1>1. ASSUME NEW n \in Names, NEW len \in Lengths, UploadOpens(n, len) PROVE ServiceInv'
    <2>1. disk' \in [Names -> Entries] /\ disk'[n] = Empty
      BY <1>1, EntryTypes DEF UploadOpens
    <2> QED BY <1>1, <2>1, ServiceAssumption DEF UploadOpens, Open, NothingHeld, Serving
  <1>2. ASSUME NEW n \in Names, Deletes(n) PROVE ServiceInv'
    <2>1. disk' \in [Names -> Entries]
      BY <1>2, EntryTypes DEF Deletes
    <2> QED BY <1>2, <2>1, RespondInv DEF Deletes
  <1>3. ASSUME NEW n \in Names, DownloadOpens(n) PROVE ServiceInv'
    <2>1. disk[n].len \in Nat
      BY DEF Entries
    <2> QED BY <1>3, <2>1 DEF DownloadOpens, Open, NothingHeld, Serving, Exists
  <1>4. ASSUME NEW n \in Names, Lists(n) PROVE ServiceInv'
    BY <1>4, RespondInv DEF Lists
  <1>5. CASE Refused
    BY <1>5, RespondInv DEF Refused
  <1> QED BY <1>1, <1>2, <1>3, <1>4, <1>5 DEF Requests

LEMMA ContinuesInv == ASSUME ServiceInv, Continues PROVE ServiceInv'
  <1> USE DEF ServiceInv, ServiceTypeOK
  <1>1. CASE UploadReceives
    <2>1. remaining' \in Nat /\ remaining' <= remaining
      BY <1>1 DEF UploadReceives
    <2> QED BY <1>1, <2>1 DEF UploadReceives, NothingHeld, Serving, Exists
  <1>2. CASE ReceiveFails
    BY <1>2, EntryTypes, ClosedEntry, RespondInv DEF ReceiveFails
  <1>3. CASE WriteFails
    BY <1>3, EntryTypes, ClosedEntry, RespondInv DEF WriteFails
  <1>4. CASE UploadDone
    <2>1. disk' \in [Names -> Entries]
      <3>1. PICK e \in {Whole(contentLen)} \cup {Broken(len) : len \in 0 .. contentLen - 1} :
              disk' = [disk EXCEPT ![path] = e]
        BY <1>4 DEF UploadDone
      <3>2. e \in Entries
        BY <3>1, EntryTypes
      <3> QED BY <1>4, <3>1, <3>2, ClosedEntry DEF UploadDone
    <2> QED BY <1>4, <2>1, RespondInv DEF UploadDone
  <1>5. CASE DownloadSends
    BY <1>5 DEF DownloadSends, NothingHeld, Serving, Exists
  <1>6. CASE DownloadFails
    BY <1>6, RespondInv DEF DownloadFails
  <1>7. CASE DownloadDone
    BY <1>7, RespondInv DEF DownloadDone
  <1> QED BY <1>1, <1>2, <1>3, <1>4, <1>5, <1>6, <1>7 DEF Continues

LEMMA PeerInv == ASSUME ServiceInv, PeerGoes PROVE ServiceInv'
  BY DEF PeerGoes, ServiceInv, ServiceTypeOK, NothingHeld, Serving, Exists

LEMMA CutInv == ASSUME ServiceInv, ServiceCut PROVE ServiceInv'
  <1>1. disk' \in [Names -> Entries]
    <2>1. CASE handler = "upload"
      <3>1. PICK len \in 0 .. contentLen - remaining : disk' = [disk EXCEPT ![path] = Broken(len)]
        BY <2>1 DEF ServiceCut
      <3>2. Broken(len) \in Entries
        BY <3>1, EntryTypes
      <3> QED BY <2>1, <3>1, <3>2, ClosedEntry
    <2>2. CASE handler # "upload"
      BY <2>2 DEF ServiceCut, ServiceInv, ServiceTypeOK
    <2> QED BY <2>1, <2>2
  <1> QED BY <1>1, RespondInv DEF ServiceCut

LEMMA ServiceUnchanged == ASSUME ServiceInv, UNCHANGED service PROVE ServiceInv'
  BY DEF service, request, ServiceInv, ServiceTypeOK, NothingHeld, Serving, Exists

-----------------------------------------------------------------------------
(* The gallery. *)
LEMMA GuiInv ==
  ASSUME GalleryInv, OnCreate \/ OnRelease \/ TimerCb \/ Scan
  PROVE  GalleryInv'
  <1> USE DEF GalleryInv, GalleryTypeOK, GifOwned
  <1>1. CASE OnCreate
    BY <1>1 DEF OnCreate, ScanStarts
  <1>2. CASE OnRelease
    BY <1>2 DEF OnRelease
  <1>3. CASE TimerCb
    BY <1>3 DEF TimerCb, ScanStarts
  <1>4. CASE ScanEntry
    <2>1. PICK n \in ReadDir(pos) :
            /\ pos' = n
            /\ \/ /\ Fits(n) /\ count + 1 = idx
                  /\ found' = n /\ idx' = idx + 1 /\ scan' = "after"
               \/ /\ ~(Fits(n) /\ count + 1 = idx)
                  /\ UNCHANGED <<found, idx, scan>>
            /\ count' = IF Fits(n) THEN count + 1 ELSE count
      BY <1>4 DEF ScanEntry
    <2>2. n \in Names /\ (Fits(n) => n \in Gifs)
      BY DEF ReadDir, Fits
    <2> QED BY <1>4, <2>1, <2>2 DEF ScanEntry
  <1>5. CASE ScanEnds
    BY <1>5 DEF ScanEnds
  <1>6. CASE ScanWraps
    BY <1>6 DEF ScanWraps
  <1>7. CASE ChangeImg
    BY <1>7 DEF ChangeImg
  <1> QED BY <1>1, <1>2, <1>3, <1>4, <1>5, <1>6, <1>7 DEF Scan

LEMMA GalleryUnchanged ==
  ASSUME GalleryInv, UNCHANGED gallery \/ GalleryReset PROVE GalleryInv'
  <1>1. CASE UNCHANGED gallery
    BY <1>1 DEF gallery, GalleryInv, GalleryTypeOK, GifOwned
  <1>2. CASE GalleryReset
    <2>1. GalleryTypeOK'
      <3>1. page' \in BOOLEAN /\ timer' \in BOOLEAN
        BY <1>2, Zenon DEF GalleryReset
      <3>2. /\ gif' = NoGif /\ idx' = 1 /\ scan' = "rest" /\ pos' = 0 /\ count' = 0
            /\ found' = NoGif
        BY <1>2 DEF GalleryReset
      <3> QED BY <3>1, <3>2 DEF GalleryTypeOK
    <2>2. GifOwned'
      BY <1>2, Zenon DEF GalleryReset, GifOwned
    <2> QED BY <2>1, <2>2 DEF GalleryInv
  <1> QED BY <1>1, <1>2

LEMMA NextInv == ServiceInv /\ GalleryInv /\ [Next]_vars => ServiceInv' /\ GalleryInv'
  BY RequestsInv, ContinuesInv, PeerInv, CutInv, ServiceUnchanged, GuiInv, GalleryUnchanged
    DEF Next, Httpd, Gui, PowerCut, vars

LEMMA Invariant == Spec => [](ServiceInv /\ GalleryInv)
  BY InitInv, NextInv, PTL DEF Spec

(* Types; an upload never writes more than was announced, a scan never     *)
(* runs past its position.                                                 *)
THEOREM StorageTypeOK == Spec => []TypeOK
  <1>1. ServiceInv /\ GalleryInv => TypeOK
    BY DEF ServiceInv, GalleryInv, TypeOK
  <1> QED BY <1>1, Invariant, PTL

(* However a request ends, its file and buffer are given back, and no      *)
(* timer or image outlives its page.                                       *)
THEOREM StorageNothingLeaks == Spec => []NothingLeaks
  <1>1. ServiceInv /\ GalleryInv => NothingLeaks
    BY DEF ServiceInv, GalleryInv, NothingLeaks
  <1> QED BY <1>1, Invariant, PTL

-----------------------------------------------------------------------------
(* The refinement.  What clients see changes at one path at most.          *)
Seen == [n \in Names |-> Visible(n)]

LEMMA SeenSame ==
  ASSUME \A n \in Names : Visible(n)' = Visible(n)
  PROVE  Seen' = Seen
  BY DEF Seen

LEMMA SeenExcept ==
  ASSUME NEW n \in Names, NEW what, Visible(n)' = what,
         \A m \in Names \ {n} : Visible(m)' = Visible(m)
  PROVE  Seen' = [Seen EXCEPT ![n] = what]
  BY DEF Seen

(* While no file is received clients see the disk as it is.                *)
LEMMA SeenRest ==
  ASSUME ServiceInv, handler # "upload", handler' # "upload", UNCHANGED disk
  PROVE  Seen' = Seen
  BY SeenSame DEF Visible, Exists

(* A file that goes before it has come is never seen. *)
LEMMA SeenFailed ==
  ASSUME ServiceInv, handler = "upload", Respond("error"), disk' = [disk EXCEPT ![path] = Absent]
  PROVE  Seen' = Seen
  <1>1. PICK n \in Names : n = path
    BY DEF ServiceInv, Serving
  <1>2. disk \in [Names -> Entries] /\ handler' = "idle"
    BY DEF ServiceInv, ServiceTypeOK, Respond
  <1>3. Visible(n)' = "absent" /\ Visible(n) = "absent"
    BY <1>1, <1>2, EntryFields DEF Visible, Exists
  <1>4. ASSUME NEW m \in Names, m # n PROVE Visible(m)' = Visible(m)
    BY <1>1, <1>2, <1>4 DEF Visible, Exists
  <1> QED BY <1>3, <1>4, SeenSame

(* A file that was received appears, whole or broken. *)
LEMMA SeenArrived ==
  ASSUME ServiceInv, handler = "upload", handler' = "idle", NEW e \in Entries, e.there,
         disk' = [disk EXCEPT ![path] = e]
  PROVE  /\ path \in Names /\ Seen[path] = "absent"
         /\ Seen' = [Seen EXCEPT ![path] = IF e.whole THEN "whole" ELSE "broken"]
  <1>1. PICK n \in Names : n = path
    BY DEF ServiceInv, Serving
  <1>2. disk \in [Names -> Entries]
    BY DEF ServiceInv, ServiceTypeOK
  <1>3. /\ Visible(n) = "absent"
        /\ Visible(n)' = IF e.whole THEN "whole" ELSE "broken"
    BY <1>1, <1>2 DEF Visible, Exists
  <1>4. ASSUME NEW m \in Names \ {n} PROVE Visible(m)' = Visible(m)
    BY <1>1, <1>2, <1>4 DEF Visible, Exists
  <1>5. Seen' = [Seen EXCEPT ![n] = IF e.whole THEN "whole" ELSE "broken"]
    BY <1>3, <1>4, SeenExcept
  <1> QED BY <1>1, <1>3, <1>5 DEF Seen

LEMMA RequestsImplement ==
  ASSUME ServiceInv, Requests
  PROVE  Store!Next \/ UNCHANGED <<Seen, reply>>
  <1> USE DEF Seen
  <1>1. disk \in [Names -> Entries]
    BY DEF ServiceInv, ServiceTypeOK
  <1>2. ASSUME NEW n \in Names, NEW len \in Lengths, UploadOpens(n, len)
        PROVE  UNCHANGED <<Seen, reply>>
    <2>1. Visible(n)' = "absent" /\ Visible(n) = "absent"
      BY <1>2 DEF UploadOpens, Open, Visible
    <2>2. ASSUME NEW m \in Names, m # n PROVE Visible(m)' = Visible(m)
      BY <1>1, <1>2, <2>2 DEF UploadOpens, Open, Visible, Exists
    <2> QED BY <1>2, <2>1, <2>2, SeenSame DEF UploadOpens, Open
  <1>3. ASSUME NEW n \in Names, Deletes(n) PROVE Store!Remove(n)
    <2>1. Seen[n] # "absent" /\ reply' = "deleted"
      BY <1>3 DEF Deletes, Respond, Visible
    <2>2. CASE n \in Dirs
      BY <1>3, <2>1, <2>2, SeenRest DEF Deletes, Respond, Store!Remove
    <2>3. CASE n \notin Dirs
      <3>1. Visible(n)' = "absent"
        BY <1>1, <1>3, <2>3, EntryFields DEF Deletes, Respond, Visible, Exists
      <3>2. ASSUME NEW m \in Names \ {n} PROVE Visible(m)' = Visible(m)
        BY <1>1, <1>3, <2>3, <3>2 DEF Deletes, Respond, Visible, Exists
      <3>3. Seen' = [Seen EXCEPT ![n] = "absent"]
        BY <3>1, <3>2, SeenExcept
      <3> QED BY <2>1, <3>3 DEF Store!Remove
    <2> QED BY <2>2, <2>3
  <1>4. ASSUME NEW n \in Names, DownloadOpens(n) PROVE UNCHANGED <<Seen, reply>>
    BY <1>4, SeenRest DEF DownloadOpens, Open
  <1>5. ASSUME NEW n \in Names, Lists(n) PROVE Store!List
    BY <1>5, SeenRest DEF Lists, Respond, Store!List
  <1>6. CASE Refused
    BY <1>6, SeenRest DEF Refused, Respond, Store!Refuse, Store!Next
  <1> QED BY <1>2, <1>3, <1>4, <1>5, <1>6 DEF Requests, Store!Next

LEMMA ContinuesImplement ==
  ASSUME ServiceInv, Continues
  PROVE  Store!Next \/ UNCHANGED <<Seen, reply>>
  <1> USE DEF Seen
  <1>1. CASE UploadReceives
    <2>1. Seen' = Seen
      BY <1>1, SeenSame DEF UploadReceives, Visible, Exists
    <2> QED BY <1>1, <2>1 DEF UploadReceives
  <1>2. CASE ReceiveFails \/ WriteFails
    <2>1. Seen' = Seen /\ reply' = "error"
      BY <1>2, SeenFailed DEF ReceiveFails, WriteFails, Respond
    <2> QED BY <2>1 DEF Store!Refuse, Store!Next
  <1>3. CASE UploadDone
    <2>1. PICK e \in {Whole(contentLen)} \cup {Broken(len) : len \in 0 .. contentLen - 1} :
            disk' = [disk EXCEPT ![path] = e]
      BY <1>3 DEF UploadDone
    <2>2. e \in Entries /\ e.there
      BY <2>1, EntryTypes, EntryFields DEF ServiceInv, ServiceTypeOK
    <2>3. handler = "upload" /\ handler' = "idle" /\ reply' = "uploaded"
      BY <1>3 DEF UploadDone, Respond
    <2>4. /\ path \in Names /\ Seen[path] = "absent"
          /\ Seen' = [Seen EXCEPT ![path] = IF e.whole THEN "whole" ELSE "broken"]
      BY <2>1, <2>2, <2>3, SeenArrived
    <2>5. Store!Put(path)
      BY <2>3, <2>4 DEF Store!Put
    <2> QED BY <2>4, <2>5 DEF Store!Next
  <1>4. CASE DownloadSends
    BY <1>4, SeenRest DEF DownloadSends
  <1>5. CASE DownloadFails
    BY <1>5, SeenRest DEF DownloadFails, Respond, Store!Refuse, Store!Next
  <1>6. CASE DownloadDone
    <2>1. path \in Names /\ Seen[path] # "absent"
      BY <1>6 DEF DownloadDone, ServiceInv, Serving, Visible
    <2>2. Seen' = Seen /\ reply' = "sent"
      BY <1>6, SeenRest DEF DownloadDone, Respond
    <2> QED BY <2>1, <2>2 DEF Store!Read, Store!Next
  <1> QED BY <1>1, <1>2, <1>3, <1>4, <1>5, <1>6 DEF Continues

LEMMA CutImplements == ASSUME ServiceInv, ServiceCut PROVE Store!Cut
  <1> USE DEF Seen
  <1>1. CASE handler = "upload"
    <2>1. PICK len \in 0 .. contentLen - remaining : disk' = [disk EXCEPT ![path] = Broken(len)]
      BY <1>1 DEF ServiceCut
    <2>2. Broken(len) \in Entries /\ Broken(len).there /\ ~Broken(len).whole
      BY <2>1, EntryTypes, EntryFields
    <2>3. handler' = "idle" /\ reply' = "none"
      BY DEF ServiceCut, Respond
    <2>4. /\ path \in Names /\ Seen[path] = "absent"
          /\ Seen' = [Seen EXCEPT ![path] = "broken"]
      BY <1>1, <2>1, <2>2, <2>3, SeenArrived
    <2> QED BY <2>3, <2>4 DEF Store!Cut
  <1>2. CASE handler # "upload"
    BY <1>2, SeenRest DEF ServiceCut, Respond, Store!Cut
  <1> QED BY <1>1, <1>2

(* Whatever fails, and wherever the power goes, clients see the store of   *)
(* FileStore: every step is one of its steps or none.                      *)
THEOREM StorageImplementsStore == Spec => ImplementsStore
  <1>1. Init => Store!Init
    BY DEF Init, ServiceInit, HandlerInit, Visible, Store!Init
  <1>2. ServiceInv /\ [Next]_vars => [Store!Next]_<<Seen, reply>>
    <2> SUFFICES ASSUME ServiceInv, [Next]_vars PROVE Store!Next \/ UNCHANGED <<Seen, reply>>
      OBVIOUS
    <2>1. CASE Httpd
      <3>1. CASE PeerGoes
        <4>1. Seen' = Seen
          BY <3>1, SeenSame DEF PeerGoes, Visible, Exists
        <4> QED BY <3>1, <4>1 DEF PeerGoes
      <3> QED BY <2>1, <3>1, RequestsImplement, ContinuesImplement DEF Httpd
    <2>2. CASE UNCHANGED service
      <3>1. Seen' = Seen
        BY <2>2, SeenSame DEF service, request, Visible, Exists
      <3> QED BY <2>2, <3>1 DEF service
    <2>3. CASE PowerCut
      BY <2>3, CutImplements DEF PowerCut, Store!Next
    <2> QED BY <2>1, <2>2, <2>3 DEF Next, Gui, vars
  <1> QED BY <1>1, <1>2, Invariant, PTL DEF Spec, ImplementsStore, Store!Spec, Seen
=============================================================================
