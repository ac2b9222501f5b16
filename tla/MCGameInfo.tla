----------------------------- MODULE MCGameInfo -----------------------------
(* Model checking of GameInfo: a game without a default board size,        *)
(* besides Go, which is the default; a size that is too large for Go and   *)
(* is not a square.                                                        *)
EXTENDS GameInfo

MCGameTypes == {<<99>>}
MCBoardSizes == {<<60, 8>>}
=============================================================================
