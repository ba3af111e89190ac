---------------------------- MODULE MCNeedQueue ----------------------------
(***************************************************************************)
(* NeedQueue for TLC: a normal need, an urgent one that overtakes it, and  *)
(* a second normal one that has to queue behind the first.                 *)
(***************************************************************************)
EXTENDS NeedQueue

MCRank == <<2, 0, 2>>
=============================================================================
