----------------------------- MODULE MCAiaClock -----------------------------
(* Two tasks of one priority and a third of a higher one. *)
EXTENDS AiaClock, TLC

CONSTANTS t1, t2, t3

Tasks == {t1, t2, t3}
Priorities == t1 :> 1 @@ t2 :> 1 @@ t3 :> 2
=============================================================================
