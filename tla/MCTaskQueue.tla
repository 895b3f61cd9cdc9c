----------------------------- MODULE MCTaskQueue -----------------------------
(***************************************************************************)
(* Instances of TaskQueue.                                                 *)
(***************************************************************************)
EXTENDS TaskQueue

CONSTANTS t1, t2, t3, t4

MCTask == {t1, t2, t3, t4}
MCOrder == <<t1, t2, t3, t4>>

\* One task writes more output than a pipe holds, another errors first.
MCScript == [t \in MCTask |-> CASE t = t1 -> <<"out", "err", "out", "out">>
                                [] t = t2 -> <<"err", "err", "out">>
                                [] t = t3 -> <<>>
                                [] t = t4 -> <<"err">>]
=============================================================================
