----------------------------- MODULE FileService -----------------------------
(***************************************************************************)
(* The handlers of file_service.c.  The web server runs one handler at a   *)
(* time, but a handler waits for its peer between pieces, and the power    *)
(* may go then.                                                            *)
(***************************************************************************)
EXTENDS Disk

CONSTANTS
  Lengths,      \* content lengths clients announce
  MAX_FILE_SIZE

ASSUME ServiceAssumption ==
  /\ Lengths \subseteq Nat
  /\ MAX_FILE_SIZE \in Nat

VARIABLES
  handler,    \* idle, in the loop of an upload, in that of a download
  path,       \* filepath, 0 between requests
  contentLen, \* req->content_len
  remaining,  \* pieces that are still to come, or to be sent
  peer,       \* the client whose request is handled is still connected
  fd,         \* the handler has its file open
  buf,        \* the handler has its buffer
  reply       \* the last response

request == <<path, contentLen, remaining, peer>>
service == <<disk, handler, request, fd, buf, reply>>

HandlerInit ==
  /\ handler = "idle" /\ path = 0 /\ contentLen = 0 /\ remaining = 0
  /\ peer = FALSE /\ fd = FALSE /\ buf = FALSE /\ reply = "none"

ServiceInit ==
  /\ disk \in [Names -> {Absent} \cup {Whole(len) : len \in Lengths \cup {0}}]
  /\ \A n \in Dirs : disk[n] = Whole(0)
  /\ HandlerInit

Open(n, todo, h) ==
  /\ handler' = h /\ fd' = TRUE /\ buf' = TRUE
  /\ path' = n /\ remaining' = todo /\ peer' = TRUE
  /\ UNCHANGED reply

Respond(what) ==
  /\ handler' = "idle" /\ fd' = FALSE /\ buf' = FALSE
  /\ path' = 0 /\ contentLen' = 0 /\ remaining' = 0 /\ peer' = FALSE
  /\ reply' = what

(* A handler refuses what its checks refuse: paths that are too long or    *)
(* end with a slash, too, and, as fopen may fail, now and then any other.  *)
Refused ==
  /\ handler = "idle"
  /\ Respond("error")
  /\ UNCHANGED disk

-----------------------------------------------------------------------------
(* upload_post_handler. *)
UploadOpens(n, len) ==
  /\ handler = "idle"
  /\ ~Exists(n) /\ len <= MAX_FILE_SIZE
  /\ Open(n, len, "upload")
  /\ contentLen' = len
  /\ disk' = [disk EXCEPT ![n] = Empty]

(* Slip: a buffer, here of two pieces, is asked for whatever remains.      *)
UploadOverruns ==
  /\ handler = "upload" /\ remaining > 0 /\ peer
  /\ \E received \in 1 .. 2 : remaining' = remaining - received
  /\ UNCHANGED <<disk, handler, path, contentLen, peer, fd, buf, reply>>

(* Some pieces arrive and are written.  A timeout of the reception leads   *)
(* back here and changes nothing.                                          *)
UploadReceives ==
  /\ handler = "upload" /\ remaining > 0 /\ peer
  /\ \E received \in 1 .. remaining : remaining' = remaining - received
  /\ UNCHANGED <<disk, handler, path, contentLen, peer, fd, buf, reply>>

(* Slip: a broken connection is taken for a timeout. *)
ReceiveRetries ==
  /\ handler = "upload" /\ remaining > 0 /\ ~peer
  /\ UNCHANGED service

ReceiveFails ==
  /\ handler = "upload" /\ remaining > 0 /\ ~peer
  /\ disk' = [disk EXCEPT ![path] = Absent]
  /\ Respond("error")

(* Slip: the unfinished file is kept. *)
WriteFailsKeeps ==
  /\ handler = "upload" /\ remaining > 0 /\ peer
  /\ disk' = [disk EXCEPT ![path] = Broken(contentLen - remaining)]
  /\ Respond("error")

(* Slip: the file is left open. *)
WriteFailsLeaks ==
  /\ handler = "upload" /\ remaining > 0 /\ peer
  /\ disk' = [disk EXCEPT ![path] = Absent]
  /\ handler' = "idle" /\ reply' = "error" /\ buf' = FALSE
  /\ path' = 0 /\ contentLen' = 0 /\ remaining' = 0 /\ peer' = FALSE
  /\ UNCHANGED fd

(* Some of what was received does not fit on the card. *)
WriteFails ==
  /\ handler = "upload" /\ remaining > 0 /\ peer
  /\ disk' = [disk EXCEPT ![path] = Absent]
  /\ Respond("error")

(* fclose writes what stdio still holds; its result is not looked at.      *)
UploadDone ==
  /\ handler = "upload" /\ remaining = 0
  /\ \E entry \in {Whole(contentLen)} \cup {Broken(len) : len \in 0 .. contentLen - 1} :
       disk' = [disk EXCEPT ![path] = entry]
  /\ Respond("uploaded")

(* delete_post_handler.  unlink refuses a directory that holds files; its  *)
(* result is not looked at.  The names are those of entries below the      *)
(* mount point, so the path has the second slash that the redirect is cut  *)
(* at.                                                                     *)
Deletes(n) ==
  /\ handler = "idle"
  /\ Exists(n)
  /\ disk' = IF n \in Dirs THEN disk ELSE [disk EXCEPT ![n] = Absent]
  /\ Respond("deleted")

(* download_get_handler; fopen refuses a directory. *)
DownloadOpens(n) ==
  /\ handler = "idle"
  /\ Exists(n) /\ n \notin Dirs
  /\ Open(n, disk[n].len, "download")
  /\ UNCHANGED <<disk, contentLen>>

DownloadSends ==
  /\ handler = "download" /\ remaining > 0
  /\ remaining' = remaining - 1
  /\ UNCHANGED <<disk, handler, path, contentLen, peer, fd, buf, reply>>

DownloadFails ==
  /\ handler = "download" /\ remaining > 0
  /\ Respond("error")
  /\ UNCHANGED disk

DownloadDone ==
  /\ handler = "download" /\ remaining = 0
  /\ Respond("sent")
  /\ UNCHANGED disk

(* http_resp_dir_html, for a path that ends with a slash. *)
Lists(n) ==
  /\ handler = "idle" /\ n \in Dirs
  /\ Respond("listed")
  /\ UNCHANGED disk

-----------------------------------------------------------------------------
Requests ==
  \/ \E n \in Names, len \in Lengths : UploadOpens(n, len)
  \/ \E n \in Names : Deletes(n)
  \/ \E n \in Names : DownloadOpens(n)
  \/ \E n \in Names : Lists(n)
  \/ Refused

(* What a handler does with the peer's next answer. *)
Continues ==
  \/ UploadReceives \/ ReceiveFails \/ WriteFails \/ UploadDone
  \/ DownloadSends \/ DownloadFails \/ DownloadDone

PeerGoes ==
  /\ peer
  /\ peer' = FALSE
  /\ UNCHANGED <<disk, handler, path, contentLen, remaining, fd, buf, reply>>

(* A power cut in the middle of an upload leaves some of what was written. *)
ServiceCut ==
  /\ IF handler = "upload"
       THEN \E len \in 0 .. contentLen - remaining :
              disk' = [disk EXCEPT ![path] = Broken(len)]
       ELSE UNCHANGED disk
  /\ Respond("none")

ServiceTypeOK ==
  /\ disk \in [Names -> Entries]
  /\ handler \in {"idle", "upload", "download"}
  /\ path \in Names \cup {0}
  /\ contentLen \in Nat /\ remaining \in Nat
  /\ handler = "upload" => disk[path] = Empty /\ remaining <= contentLen
  /\ peer \in BOOLEAN /\ fd \in BOOLEAN /\ buf \in BOOLEAN
  /\ reply \in {"none", "error", "uploaded", "deleted", "sent", "listed"}

(* Between requests the service holds neither a file nor a buffer, however *)
(* the last one ended; the card allows five open files.                    *)
NothingHeld == handler = "idle" => ~fd /\ ~buf

(* How a client sees the disk: a file that is being received is not there. *)
Visible(n) ==
  IF (handler = "upload" /\ n = path) \/ ~Exists(n) THEN "absent"
  ELSE IF disk[n].whole THEN "whole" ELSE "broken"

(* The handlers and power cuts keep the promise of FileStore. *)
Store == INSTANCE FileStore WITH store <- [n \in Names |-> Visible(n)]
ImplementsStore == Store!Spec
=============================================================================
