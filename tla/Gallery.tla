------------------------------- MODULE Gallery -------------------------------
(***************************************************************************)
(* The main page of page_node_main.c: every 10 s an LVGL timer shows the   *)
(* next GIF of the card.  The position is a static counter that scan_gif   *)
(* compares with a count of the GIFs it meets, in a directory that the web *)
(* server may change between any two entries.                              *)
(***************************************************************************)
EXTENDS Disk

CONSTANTS
  Gifs,        \* the paths that end with .gif
  MaxGif,      \* 512 KB
  NoGif

ASSUME GalleryAssumption ==
  Gifs \subseteq Names \ Dirs /\ MaxGif \in Nat /\ NoGif \notin Names

VARIABLES
  page,    \* page1.obj exists
  timer,   \* the LVGL timer exists
  gif,     \* what the object "gif" shows, NoGif if null
  idx,     \* the static of scan_gif
  scan,    \* scan_gif: not running, in its loop, after it, returned
  pos,     \* the last entry readdir returned
  count,   \* the GIFs met
  found    \* gifPath

gallery == <<page, timer, gif, idx, scan, pos, count, found>>

GalleryInit ==
  /\ page = FALSE /\ timer = FALSE /\ gif = NoGif
  /\ idx = 1 /\ scan = "rest" /\ pos = 0 /\ count = 0 /\ found = NoGif

GalleryReset ==
  /\ page' = FALSE /\ timer' = FALSE /\ gif' = NoGif
  /\ idx' = 1 /\ scan' = "rest" /\ pos' = 0 /\ count' = 0 /\ found' = NoGif

Fits(n) == n \in Gifs /\ disk[n].len <= MaxGif

ScanStarts == scan' = "loop" /\ pos' = 0 /\ count' = 0 /\ found' = NoGif

(* The page manager calls onCreate and onRelease. *)
OnCreate ==
  /\ ~page
  /\ page' = TRUE /\ timer' = TRUE
  /\ ScanStarts
  /\ UNCHANGED <<gif, idx>>

OnRelease ==
  /\ page /\ scan = "rest"
  /\ page' = FALSE /\ timer' = FALSE /\ gif' = NoGif
  /\ UNCHANGED <<idx, scan, pos, count, found>>

TimerCb ==
  /\ timer /\ scan = "rest"
  /\ ScanStarts
  /\ UNCHANGED <<page, timer, gif, idx>>

(* One turn of the loop of scan_gif. *)
ScanEntry ==
  /\ scan = "loop"
  /\ \E n \in ReadDir(pos) :
       /\ \A m \in ReadDir(pos) : n <= m
       /\ pos' = n
       /\ \/ /\ Fits(n) /\ count + 1 = idx
             /\ found' = n /\ idx' = idx + 1 /\ scan' = "after"
          \/ /\ ~(Fits(n) /\ count + 1 = idx)
             /\ UNCHANGED <<found, idx, scan>>
       /\ count' = IF Fits(n) THEN count + 1 ELSE count
  /\ UNCHANGED <<page, timer, gif>>

ScanEnds ==
  /\ scan = "loop" /\ ReadDir(pos) = {}
  /\ scan' = "after"
  /\ UNCHANGED <<page, timer, gif, idx, pos, count, found>>

(* Slip: the position only starts over when nothing was found.             *)
ScanWrapsLate ==
  /\ scan = "after"
  /\ idx' = IF found # NoGif /\ ReadDir(pos) = {} THEN 1 ELSE idx
  /\ scan' = "done"
  /\ UNCHANGED <<page, timer, gif, pos, count, found>>

(* After the loop one more readdir decides whether to start over.          *)
ScanWraps ==
  /\ scan = "after"
  /\ idx' = IF ReadDir(pos) = {} THEN 1 ELSE idx
  /\ scan' = "done"
  /\ UNCHANGED <<page, timer, gif, pos, count, found>>

(* The rest of change_img. *)
ChangeImg ==
  /\ scan = "done"
  /\ gif' = IF found # NoGif THEN found ELSE gif
  /\ scan' = "rest" /\ pos' = 0 /\ count' = 0 /\ found' = NoGif
  /\ UNCHANGED <<page, timer, idx>>

Scan == ScanEntry \/ ScanEnds \/ ScanWraps \/ ChangeImg

GalleryTypeOK ==
  /\ page \in BOOLEAN /\ timer \in BOOLEAN
  /\ gif \in Gifs \cup {NoGif} /\ found \in Gifs \cup {NoGif}
  /\ pos \in Names \cup {0} /\ count \in Nat /\ idx \in Nat \ {0}
  /\ scan = "loop" => count < idx
  /\ scan \in {"rest", "loop", "after", "done"}

(* No timer runs without its page, where change_img would create an image  *)
(* in a deleted object, and no image outlives it.                          *)
GifOwned ==
  /\ timer <=> page
  /\ gif # NoGif \/ scan # "rest" => page
=============================================================================
