------------------------------- MODULE StoreEvents -------------------------------
(***************************************************************************)
(* The events of the store contract in the client (client/src/events.ts,   *)
(* LogStoreRegistry): listeners are registered with an emitter; a gateway  *)
(* that watches the emitter subscribes to the contract while there are     *)
(* any.  The provider starts to look for events at the block that is the   *)
(* last one when it first asks, a moment after it was subscribed to.       *)
(*                                                                         *)
(* A listener is registered at most once.  once wraps it, so that off does *)
(* not find it.                                                            *)
(***************************************************************************)
EXTENDS ClientChain

CONSTANTS Listener,
          Once             \* the listeners that are registered with once

ASSUME OnceAssumption == Once \subseteq Listener

VARIABLES registered,      \* [Listener -> "new", "on", "once" or "gone"]
          producer,        \* subscription to the contract: [pc, next]
          heard            \* heard[l]: blocks whose event l was called with

eventVars == <<registered, producer, heard>>

NoProducer == [pc |-> "none", next |-> 0]

EventInit == /\ registered = [l \in Listener |-> "new"]
             /\ producer = NoProducer
             /\ heard = [l \in Listener |-> {}]

Registered(listeners) == {l \in Listener : listeners[l] \in {"on", "once"}}

(* The observer of addEventListener and of removeEventListener.            *)
Started == IF producer.pc = "none" THEN [pc |-> "starting", next |-> 0] ELSE producer

StoppedAfter_Uncounted(listeners) == NoProducer                \* mutant
StoppedAfter(listeners) == IF Registered(listeners) = {} THEN NoProducer ELSE producer

Register(l) ==
    /\ registered[l] = "new"
    /\ registered' = [registered EXCEPT ![l] = IF l \in Once THEN "once" ELSE "on"]
    /\ producer' = Started
    /\ UNCHANGED <<chain, heard>>

Off(l) ==
    /\ registered[l] \in {"on", "once"}
    /\ registered' = [registered EXCEPT ![l] = IF @ = "on" THEN "gone" ELSE @]
    /\ producer' = StoppedAfter(registered')
    /\ UNCHANGED <<chain, heard>>

RemoveAllListeners ==
    /\ Registered(registered) # {}
    /\ registered' = [l \in Listener |-> IF registered[l] = "new" THEN "new" ELSE "gone"]
    /\ producer' = StoppedAfter(registered')
    /\ UNCHANGED <<chain, heard>>

(* The provider asks for the first time.                                   *)
Attach ==
    /\ producer.pc = "starting"
    /\ producer' = [pc |-> "polling", next |-> Max({1, Len(chain)})]
    /\ UNCHANGED <<chain, registered, heard>>

(* The event of the next block, if it has one, is emitted to everybody.    *)
PollEvent ==
    LET block == producer.next IN
    /\ producer.pc = "polling" /\ block <= Len(chain)
    /\ IF IsStore(block)
       THEN /\ heard' = [l \in Listener |-> IF l \in Registered(registered)
                                            THEN heard[l] \union {block} ELSE heard[l]]
            /\ registered' = [l \in Listener |-> IF registered[l] = "once" THEN "gone"
                                                 ELSE registered[l]]
       ELSE UNCHANGED <<heard, registered>>
    /\ LET left == IF registered' = registered THEN producer ELSE StoppedAfter(registered')
       IN  producer' = IF left = producer THEN [producer EXCEPT !.next = block + 1] ELSE left
    /\ UNCHANGED chain
================================================================================
