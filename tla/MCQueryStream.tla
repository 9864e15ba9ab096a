----------------------------- MODULE MCQueryStream -----------------------------
(* An instance of QueryStream for TLC: two readers, three stored messages  *)
(* of two publishers, every kind of query, a buffer of one.                *)
EXTENDS QueryStream

CONSTANTS r1, r2

MCStored == <<[ref |-> 1, publisherId |-> "p1"], [ref |-> 2, publisherId |-> "p2"],
              [ref |-> 3, publisherId |-> "p1"]>>

Nothing == [last |-> Absent, from |-> Absent, to |-> Absent, publisherId |-> Absent]

MCInputs == {[Nothing EXCEPT !.last = 0], [Nothing EXCEPT !.last = 1],
             [Nothing EXCEPT !.from = 3],
             [Nothing EXCEPT !.from = 1, !.to = 3, !.publisherId = "p1"],
             [Nothing EXCEPT !.from = 1, !.to = None],
             [Nothing EXCEPT !.from = 1, !.publisherId = None]}
================================================================================
