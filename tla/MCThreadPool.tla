---------------------------- MODULE MCThreadPool ----------------------------
(* An instance of ThreadPool for TLC: two of five tasks submit another one, *)
(* so that both of two workers may wait for room at the same time.          *)
EXTENDS ThreadPool

CONSTANTS t1, t2, t3, t4, t5

MCTasks == {t1, t2, t3, t4, t5}

\* t1 submits t3, t2 submits t4.
Nested == [t \in MCTasks |->
             IF t = t1 THEN t3 ELSE IF t = t2 THEN t4 ELSE NoTask]
=============================================================================
