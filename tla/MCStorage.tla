----------------------------- MODULE MCStorage -----------------------------
(* Two GIFs and a directory behind them; a GIF of length 3 is too long to  *)
(* be shown and to be uploaded.                                            *)
EXTENDS Storage, TLC

MCNames   == 1 .. 3
MCGifs    == {1, 2}
MCDirs    == {3}
MCLengths == {2, 3}
=============================================================================
