---------------------------------- MODULE Gate ----------------------------------
(***************************************************************************)
(* A gate of the client (client/src/streamr/utils/Gate.ts): check waits    *)
(* while it is closed, and answers whether it is not locked.  A gate is    *)
(* closed exactly while it has a pending promise; those who wait for that  *)
(* promise are in `waiting', and go on once it is resolved, even when the  *)
(* gate has been closed again.                                             *)
(***************************************************************************)

ClosedGate == [locked |-> FALSE, pending |-> TRUE, waiting |-> {}]

Open_KeepsWaiting(gate) == IF gate.locked THEN gate ELSE [gate EXCEPT !.pending = FALSE]  \* mutant
Open(gate) == IF gate.locked THEN gate ELSE [gate EXCEPT !.pending = FALSE, !.waiting = {}]

Lock(gate) == [locked |-> TRUE, pending |-> FALSE, waiting |-> {}]

Close(gate) == IF gate.locked THEN gate ELSE [gate EXCEPT !.pending = TRUE]

SetOpenState(gate, shouldBeOpen) == IF shouldBeOpen THEN Open(gate) ELSE Close(gate)

(* p calls check; it goes on as soon as it has Passed.                     *)
Check(gate, p) == IF gate.pending THEN [gate EXCEPT !.waiting = @ \union {p}] ELSE gate

Passed(gate, p) == p \notin gate.waiting
================================================================================
