------------------------------- MODULE PushBuffer -------------------------------
(***************************************************************************)
(* The buffer between the answer of a node and those who read it           *)
(* (client/src/streamr/utils/PushBuffer.ts).  A writer pushes items and    *)
(* waits at the write gate while the buffer is full; a generator (iterate) *)
(* takes them and waits at the read gate while there are none.             *)
(*                                                                         *)
(* An action here is what one call does up to its next await or yield; the *)
(* module that extends this one says who calls.                            *)
(***************************************************************************)
EXTENDS Naturals, Sequences, Gate

CONSTANTS BufferSize, None

ASSUME BufferSizeAssumption == BufferSize \in Nat \ {0}

VARIABLES buffer, writeGate, readGate,
          error                \* the error to throw after the last item, or None

bufferVars == <<buffer, writeGate, readGate, error>>

BufferInit == /\ buffer = <<>>
              /\ writeGate = ClosedGate /\ readGate = ClosedGate
              /\ error = None

NotFull(items) == Len(items) < BufferSize

IsWritable == ~writeGate.locked /\ ~readGate.locked

Push(item, writer) ==
    /\ IsWritable
    /\ buffer' = Append(buffer, item)
    /\ writeGate' = Check(SetOpenState(writeGate, NotFull(buffer')), writer)
    /\ readGate' = Open(readGate)
    /\ UNCHANGED error

EndWrite(err) ==
    /\ error' = IF error = None THEN err ELSE error
    /\ readGate' = Open(readGate)
    /\ writeGate' = Lock(writeGate)
    /\ UNCHANGED buffer

-------------------------------------------------------------------------------
(* iterate.                                                                *)

HasItem == ~readGate.locked /\ buffer # <<>>

Shift ==
    /\ HasItem
    /\ buffer' = Tail(buffer)
    /\ writeGate' = SetOpenState(writeGate, NotFull(buffer'))
    /\ UNCHANGED <<readGate, error>>

Exhausted == readGate.locked \/ (buffer = <<>> /\ writeGate.locked)

AwaitItem(reader) ==
    /\ ~HasItem /\ ~Exhausted
    /\ readGate' = Check(Close(readGate), reader)
    /\ UNCHANGED <<buffer, writeGate, error>>

(* The finally of the generator, reached at its end or by return.          *)
Abandon_LocksRead == /\ buffer' = <<>>             \* mutant
                     /\ readGate' = Lock(readGate)
                     /\ UNCHANGED <<writeGate, error>>
Abandon == /\ buffer' = <<>>
           /\ writeGate' = Lock(writeGate) /\ readGate' = Lock(readGate)
           /\ UNCHANGED error

Finish == /\ Exhausted
          /\ buffer' = <<>>
          /\ writeGate' = Lock(writeGate) /\ readGate' = Lock(readGate)
          /\ error' = None            \* thrown
================================================================================
