------------------------------ MODULE MCDataItems ------------------------------
(* An instance of DataItems for TLC.  The pool starts anew with the keys 5 *)
(* and 6, or goes on after key 6, where the step has changed and the index *)
(* begins at the block before it.  The last block comes after the last key.*)
EXTENDS DataItems

CONSTANTS s1, s2, a, b

MCTime == <<5, 17, 18>> @@ (0 :> 0)

Truth == [s \in {s1, s2} |-> MCTime]

Lie == [Truth EXCEPT ![s2][2] = 18, ![s2][3] = 19]

MCStarts == {<<0, Truth>>, <<6, Truth>>, <<6, Lie>>}

MCLastKey == (0 :> 6) @@ (6 :> 16)

MCUpdates == [n \in 0 .. 3 |-> CASE n = 1 -> <<<<a, 2>>>>
                                 [] n = 2 -> <<<<b, 1>>>>
                                 [] OTHER -> <<>>]

MCFees == [n \in 0 .. 3 |-> IF n = 2 THEN <<<<a, 1>>>> ELSE <<>>]

MCPublished == {<<a, 4500>>, <<a, 6000>>, <<b, 12000>>, <<a, 16000>>}
================================================================================
