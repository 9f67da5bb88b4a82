---------------------------- MODULE MCSessions ----------------------------
(***************************************************************************)
(* Two sessions: both from one invite; a detached one declined, stopped    *)
(* from elsewhere or resumed in the middle; two continuations of an old    *)
(* one; and one watched in a browser.                                      *)
(***************************************************************************)
EXTENDS Sessions

CONSTANTS first, second

Pair(a, b) == [s \in SessionIds |-> IF s = first THEN a ELSE b]

Old == Pair(NoSession, NoSession)

MCSetups ==
    {[origin |-> Pair("accept", "accept"), source |-> Old, detached |-> Pair(TRUE, FALSE),
      others |-> {}, events |-> 1],
     [origin |-> Pair("accept", "unused"), source |-> Old, detached |-> Pair(TRUE, FALSE),
      others |-> {Remover(first)}, events |-> 2],
     [origin |-> Pair("accept", "unused"), source |-> Old, detached |-> Pair(TRUE, FALSE),
      others |-> {Keeper, Remover(first)}, events |-> 0],
     [origin |-> Pair("accept", "resume"), source |-> Pair(NoSession, first),
      detached |-> Pair(TRUE, FALSE), others |-> {Remover(first)}, events |-> 0],
     [origin |-> Pair("resume", "resume"), source |-> Old, detached |-> Pair(TRUE, TRUE),
      others |-> {Stopper(first), Stopper(second)}, events |-> 0],
     [origin |-> Pair("resume", "unused"), source |-> Old, detached |-> Pair(TRUE, FALSE),
      others |-> {Stopper(first), Remover(first), Viewer},
      events |-> 0]}
=============================================================================
