------------------------------- MODULE QueryStream -------------------------------
(***************************************************************************)
(* The answer to a query, from the HTTP response of a node to those who    *)
(* read it (client/src: Queries, HttpUtil, LogStoreMessageStream and       *)
(* streamr/utils).                                                         *)
(*                                                                         *)
(*   body -> lines -> shared source -> pull -> PushBuffer -> shared        *)
(*                                  -> metadata             messages ->    *)
(*                                                          readers        *)
(*                                                                         *)
(* The lines are an asynchronous generator: it answers one call of next or *)
(* return after the other.  shareReplay loops over it, keeps what it has   *)
(* emitted for those who subscribe later, and starts anew when everybody   *)
(* has left or after an error; a loop that was left notices at the next    *)
(* line, and returns the generator.  The messages are shared in the same   *)
(* way over iterate of the buffer, which is called for every loop.         *)
(*                                                                         *)
(* The stream is raw: messages are lines.  An iterator over an observable  *)
(* queues what has not been taken, so a line is never held back by the     *)
(* buffer.                                                                 *)
(***************************************************************************)
EXTENDS PushBuffer, Integers, FiniteSets, SequencesExt

CONSTANTS Inputs,          \* what may be asked for; a field is Absent when it is left out
          Absent,
          Stored,          \* the messages the node stores, in order
          Reader,
          HighWaterMark,   \* lines in the node stream before a write waits for a drain
          MaxLoops         \* bound: loops over the lines, and over the buffer

ASSUME StoredAssumption == /\ Stored \in Seq([ref : Int, publisherId : STRING])
                           /\ \A i, j \in DOMAIN Stored : i < j => Stored[i].ref < Stored[j].ref
ASSUME InputsAssumption ==
    Inputs \subseteq [last : Int \union {Absent, None}, from : Int \union {Absent, None},
                     to : Int \union {Absent, None}, publisherId : STRING \union {Absent, None}]
ASSUME NoneAssumption == None \notin {"invalid", "error"}

VARIABLES input,           \* the query
          browser,         \* the body is a web stream
          answer,          \* the lines the node answers with
          body,            \* pull of WebStreamToNodeStream: [pc, passed]
          broken,          \* the network has failed, or the caller has aborted
          lines,           \* the generator: [pos, asks, finished]
          lineShare, lineLoops,    \* shareReplay of dataStream; loops started
          subscribed,      \* who is subscribed to it: "pull", "meta"
          pulling,         \* pull of PushBuffer: [pc, values, end]
          meta,            \* the subscriber of metadataStream: [state, got]
          gens,            \* generators of iterate
          msgShare,        \* shareReplay of messages$
          readers          \* [state, got] of those who read the stream

sourceVars == <<input, browser, answer>>
lineVars == <<lines, lineShare, lineLoops, subscribed, meta>>
readVars == <<gens, msgShare, readers>>
streamVars == <<sourceVars, body, broken, lineVars, pulling, bufferVars, readVars>>

-------------------------------------------------------------------------------
(* The members of a sequence that are in a set, in their order.            *)
Selected(s, set) ==
    LET upTo[i \in 0 .. Len(s)] == IF i = 0 THEN <<>>
                                   ELSE IF s[i] \in set THEN Append(upTo[i - 1], s[i])
                                   ELSE upTo[i - 1]
    IN  upTo[Len(s)]

(* query: the request made of the input.                                   *)

Given(field) == field \notin {Absent, None}

NoRequest(why) == [type |-> why, params |-> {}]

(* createQueryString leaves out what is not given.  toEthereumAddress      *)
(* throws of a publisher that is null, but not of one left out.            *)
Params(in, names) == [f \in {f \in names : Given(in[f])} |-> in[f]]

RequestOf_NoPublisher(in) ==               \* mutant
    CASE Given(in.last) /\ in.last > 0 -> [type |-> "last", params |-> Params(in, {"last"})]
      [] Given(in.last) /\ in.last <= 0 -> NoRequest("empty")
      [] ~Given(in.last) /\ Given(in.from) /\ Given(in.to) /\ in.publisherId # None ->
           [type |-> "range", params |-> Params(in, {"from", "to"})]
      [] ~Given(in.last) /\ Given(in.from) /\ in.to = Absent /\ in.publisherId # None ->
           [type |-> "from", params |-> Params(in, {"from", "publisherId"})]
      [] OTHER -> NoRequest("invalid")
RequestOf(in) ==
    CASE Given(in.last) /\ in.last > 0 -> [type |-> "last", params |-> Params(in, {"last"})]
      [] Given(in.last) /\ in.last <= 0 -> NoRequest("empty")
      [] ~Given(in.last) /\ Given(in.from) /\ Given(in.to) /\ in.publisherId # None ->
           [type |-> "range", params |-> Params(in, {"from", "to", "publisherId"})]
      [] ~Given(in.last) /\ Given(in.from) /\ in.to = Absent /\ in.publisherId # None ->
           [type |-> "from", params |-> Params(in, {"from", "publisherId"})]
      [] OTHER -> NoRequest("invalid")

Sent == RequestOf(input).type \in {"last", "from", "range"}

(* The lines that the node answers a request with.                         *)
Line(message) == [kind |-> "message", message |-> message]
Junk == [kind |-> "junk"]
Metadata == [kind |-> "metadata"]

Matching(params) ==
    {m \in Range(Stored) : /\ "from" \in DOMAIN params => m.ref >= params["from"]
                           /\ "to" \in DOMAIN params => m.ref <= params["to"]
                           /\ "publisherId" \in DOMAIN params => m.publisherId = params["publisherId"]}

Served(request) ==
    IF request.type = "last"
    THEN SubSeq(Stored, Max({0, Len(Stored) - request.params["last"]}) + 1, Len(Stored))
    ELSE Selected(Stored, Matching(request.params))

Answers(in) ==
    IF RequestOf(in).type \in {"empty", "invalid"} THEN {<<>>}
    ELSE LET messages == [i \in DOMAIN Served(RequestOf(in)) |-> Line(Served(RequestOf(in))[i])]
         IN  {messages \o <<Metadata>>, messages \o <<Junk, Metadata>>}

-------------------------------------------------------------------------------
NoShare == [loop |-> 0, emitted |-> <<>>, complete |-> FALSE]
NewShare(loop) == [loop |-> loop, emitted |-> <<>>, complete |-> FALSE]

StreamInit ==
    /\ input \in Inputs
    /\ browser \in BOOLEAN
    /\ answer \in Answers(input)
    /\ body = [pc |-> IF browser THEN "reading" ELSE "done", passed |-> 0]
    /\ broken = FALSE
    /\ lines = [pos |-> 0, asks |-> <<>>, finished |-> FALSE]
    /\ lineShare = NoShare /\ lineLoops = 0
    /\ subscribed = {}
    /\ pulling = [pc |-> IF Sent THEN "idle" ELSE "none", values |-> <<>>, end |-> "no"]
    /\ meta = [state |-> "off", got |-> FALSE]
    /\ BufferInit
    /\ gens = <<>>
    /\ msgShare = NoShare
    /\ readers = [r \in Reader |-> [state |-> "off", got |-> <<>>]]

-------------------------------------------------------------------------------
(* pull of WebStreamToNodeStream.  The stream of lines is destroyed when   *)
(* the generator ends, which aborts the request: a read that waits for the *)
(* web stream fails, a write that waits for a drain goes on waiting.       *)

ReadBody ==
    /\ body.pc = "reading" /\ Sent
    /\ body' = IF broken \/ lines.finished THEN [body EXCEPT !.pc = "failed"]
               ELSE IF body.passed = Len(answer) THEN [body EXCEPT !.pc = "done"]
               ELSE [pc |-> IF body.passed + 1 - lines.pos >= HighWaterMark
                            THEN "draining" ELSE "reading",
                     passed |-> body.passed + 1]
    /\ UNCHANGED <<sourceVars, broken, lineVars, pulling, bufferVars, readVars>>

Drain ==
    /\ body.pc = "draining" /\ body.passed = lines.pos /\ ~lines.finished
    /\ body' = [body EXCEPT !.pc = "reading"]
    /\ UNCHANGED <<sourceVars, broken, lineVars, pulling, bufferVars, readVars>>

(* The network fails, the node answers with an error instead of lines, or  *)
(* the caller aborts the request.                                          *)
Break ==
    /\ Sent /\ ~broken /\ ~lines.finished
    /\ broken' = TRUE
    /\ UNCHANGED <<sourceVars, body, lineVars, pulling, bufferVars, readVars>>

-------------------------------------------------------------------------------
(* The shared lines.                                                       *)

IsMessage(line) == line.kind = "message"
Messages(emitted) ==
    LET ofMessages == Selected(emitted, {line \in Range(emitted) : IsMessage(line)})
    IN  [i \in DOMAIN ofMessages |-> ofMessages[i].message]

(* s subscribes: it is sent what was emitted, and a loop is started if     *)
(* there is none.                                                          *)
Connected(s) ==
    IF lineShare.loop # 0
    THEN /\ subscribed' = IF lineShare.complete THEN subscribed ELSE subscribed \union {s}
         /\ UNCHANGED <<lineShare, lineLoops, lines>>
    ELSE /\ lineLoops < MaxLoops
         /\ lineLoops' = lineLoops + 1
         /\ lineShare' = NewShare(lineLoops')
         /\ lines' = [lines EXCEPT !.asks = Append(@, lineLoops')]
         /\ subscribed' = subscribed \union {s}

(* The subscribers without s; the share is given up with the last of them. *)
ShareWithout(s) == IF subscribed \subseteq {s} /\ ~lineShare.complete THEN NoShare ELSE lineShare

MetaSubscribes ==
    /\ Sent /\ meta.state = "off"
    /\ Connected("meta")
    /\ meta' = [state |-> IF lineShare.complete THEN "complete" ELSE "on",
                got |-> \E i \in DOMAIN lineShare.emitted : lineShare.emitted[i] = Metadata]
    /\ UNCHANGED <<sourceVars, body, broken, pulling, bufferVars, readVars>>

MetaLeaves ==
    /\ meta.state = "on"
    /\ meta' = [meta EXCEPT !.state = IF meta.got THEN "served" ELSE "left"]
    /\ subscribed' = subscribed \ {"meta"}
    /\ lineShare' = ShareWithout("meta")
    /\ UNCHANGED <<sourceVars, body, broken, lines, lineLoops, pulling, bufferVars, readVars>>

(* A line reaches everybody who is subscribed.  A line that is neither a   *)
(* message nor metadata ends their subscriptions.                          *)
Emit(line) ==
    /\ pulling' = IF "pull" \notin subscribed THEN pulling
                  ELSE CASE line = Junk -> [pulling EXCEPT !.end = "invalid"]
                         [] IsMessage(line) -> [pulling EXCEPT !.values = Append(@, line.message)]
                         [] OTHER -> pulling
    /\ meta' = IF "meta" \notin subscribed THEN meta
               ELSE IF line = Junk THEN [meta EXCEPT !.state = "error"]
               ELSE [meta EXCEPT !.got = @ \/ line = Metadata]
    /\ subscribed' = IF line = Junk THEN {} ELSE subscribed
    /\ lineShare' = IF line = Junk THEN NoShare
                    ELSE [lineShare EXCEPT !.emitted = Append(@, line)]

(* The lines end, for everybody who is subscribed.                         *)
EndLines(how) ==
    /\ pulling' = IF "pull" \in subscribed THEN [pulling EXCEPT !.end = how] ELSE pulling
    /\ meta' = IF "meta" \in subscribed THEN [meta EXCEPT !.state = how] ELSE meta
    /\ subscribed' = {}
    /\ lineShare' = IF how = "complete" THEN [lineShare EXCEPT !.complete = TRUE] ELSE NoShare

(* fetchHttpStream has the next line, its end, or an error; not before the *)
(* turn of the event loop is over, and setImmediate has started pull.      *)
Available == ~browser \/ body.passed > lines.pos
AllRead == lines.pos = Len(answer) /\ (~browser \/ body.pc = "done")
Failed == broken /\ (~browser \/ body.pc = "failed" \/ body.passed = 0)

(* Whatever fails, those who subscribe get one error of the client for it. *)
Outcome == IF Failed /\ ~lines.finished THEN "error" ELSE "complete"

Serve ==
    LET loop == Head(lines.asks)
        current == loop # 0 /\ loop = lineShare.loop /\ ~lineShare.complete
        rest == Tail(lines.asks)
    IN
    /\ lines.asks # <<>> /\ pulling.pc # "idle"
    /\ \/ /\ lines.finished \/ loop = 0 \/ Failed \/ AllRead
          /\ lines' = [lines EXCEPT !.asks = rest, !.finished = TRUE]
          /\ IF current THEN EndLines(Outcome)
             ELSE UNCHANGED <<pulling, meta, subscribed, lineShare>>
       \/ /\ ~lines.finished /\ loop # 0 /\ ~Failed
          /\ lines.pos < Len(answer) /\ Available
          /\ lines' = [lines EXCEPT !.pos = @ + 1,
                         !.asks = Append(rest, IF current /\ answer[lines.pos + 1] # Junk
                                               THEN loop ELSE 0)]
          /\ IF current THEN Emit(answer[lines.pos + 1])
             ELSE UNCHANGED <<pulling, meta, subscribed, lineShare>>
    /\ UNCHANGED <<sourceVars, body, broken, lineLoops, bufferVars, readVars>>

-------------------------------------------------------------------------------
(* pull of PushBuffer, started by setImmediate.                            *)

StartPull ==
    /\ pulling.pc = "idle"
    /\ Connected("pull")
    /\ pulling' = [pc |-> "taking", values |-> Messages(lineShare.emitted),
                   end |-> IF lineShare.complete THEN "complete" ELSE "no"]
    /\ UNCHANGED <<sourceVars, body, broken, meta, bufferVars, readVars>>

(* push answered false: the loop is left, and finally ends the writing.    *)
StopPull ==
    /\ pulling' = [pulling EXCEPT !.pc = "done"]
    /\ subscribed' = subscribed \ {"pull"}
    /\ lineShare' = ShareWithout("pull")
    /\ EndWrite(None)

TakeLine ==
    /\ pulling.pc = "taking" /\ pulling.values # <<>>
    /\ IF IsWritable
       THEN /\ Push(Head(pulling.values), "pull")
            /\ pulling' = [pulling EXCEPT !.pc = "pushing", !.values = Tail(@)]
            /\ UNCHANGED <<subscribed, lineShare>>
       ELSE StopPull
    /\ UNCHANGED <<sourceVars, body, broken, lines, lineLoops, meta, readVars>>

Pushed ==
    /\ pulling.pc = "pushing" /\ Passed(writeGate, "pull")
    /\ IF writeGate.locked THEN StopPull
       ELSE /\ pulling' = [pulling EXCEPT !.pc = "taking"]
            /\ UNCHANGED <<subscribed, lineShare, bufferVars>>
    /\ UNCHANGED <<sourceVars, body, broken, lines, lineLoops, meta, readVars>>

EndPull ==
    /\ pulling.pc = "taking" /\ pulling.values = <<>> /\ pulling.end # "no"
    /\ EndWrite(IF pulling.end = "complete" THEN None ELSE pulling.end)
    /\ pulling' = [pulling EXCEPT !.pc = "done"]
    /\ UNCHANGED <<sourceVars, body, broken, lineVars, readVars>>

-------------------------------------------------------------------------------
(* The shared messages.  gens[g] is "asked" while a loop waits for the     *)
(* generator, and "left" when its loop has noticed that nobody listens.    *)

Read(r) ==
    /\ RequestOf(input).type # "invalid" /\ readers[r].state = "off"
    /\ IF msgShare.loop # 0 THEN UNCHANGED <<gens, msgShare>>
       ELSE /\ Len(gens) < MaxLoops
            /\ gens' = Append(gens, "asked")
            /\ msgShare' = NewShare(Len(gens'))
    /\ readers' = [readers EXCEPT ![r] = [state |-> IF msgShare.complete THEN "complete" ELSE "reading",
                                          got |-> msgShare.emitted]]
    /\ UNCHANGED <<sourceVars, body, broken, lineVars, pulling, bufferVars>>

Leave(r) ==
    /\ readers[r].state = "reading"
    /\ readers' = [readers EXCEPT ![r].state = "left"]
    /\ msgShare' = IF \E q \in Reader \ {r} : readers[q].state = "reading" THEN msgShare ELSE NoShare
    /\ UNCHANGED <<sourceVars, body, broken, lineVars, pulling, bufferVars, gens>>

Current(g) == g = msgShare.loop /\ ~msgShare.complete

Told(state, got(_)) ==
    [r \in Reader |-> IF readers[r].state = "reading"
                      THEN [state |-> state, got |-> got(readers[r].got)] ELSE readers[r]]

Generate(g) ==
    /\ gens[g] = "asked" /\ Passed(readGate, g)
    /\ \/ /\ Shift
          /\ IF Current(g)
             THEN /\ readers' = Told("reading", LAMBDA got : Append(got, Head(buffer)))
                  /\ msgShare' = [msgShare EXCEPT !.emitted = Append(@, Head(buffer))]
                  /\ UNCHANGED gens
             ELSE /\ gens' = [gens EXCEPT ![g] = "left"]
                  /\ UNCHANGED <<readers, msgShare>>
       \/ /\ AwaitItem(g)
          /\ UNCHANGED readVars
       \/ /\ Finish
          /\ gens' = [gens EXCEPT ![g] = "ended"]
          /\ IF ~Current(g) THEN UNCHANGED <<readers, msgShare>>
             ELSE /\ readers' = Told(IF error = None THEN "complete" ELSE "error", LAMBDA got : got)
                  /\ msgShare' = IF error = None THEN [msgShare EXCEPT !.complete = TRUE] ELSE NoShare
    /\ UNCHANGED <<sourceVars, body, broken, lineVars, pulling>>

Return(g) ==
    /\ gens[g] = "left"
    /\ Abandon
    /\ gens' = [gens EXCEPT ![g] = "ended"]
    /\ UNCHANGED <<sourceVars, body, broken, lineVars, pulling, msgShare, readers>>

-------------------------------------------------------------------------------
Working == \/ ReadBody \/ Drain \/ Serve
           \/ StartPull \/ TakeLine \/ Pushed \/ EndPull
           \/ \E g \in DOMAIN gens : Generate(g) \/ Return(g)

Reading == \E r \in Reader : Read(r) \/ Leave(r)

StreamNext == Working \/ Break \/ MetaSubscribes \/ MetaLeaves \/ Reading

StreamSpec == StreamInit /\ [][StreamNext]_streamVars /\ WF_streamVars(Working)

-------------------------------------------------------------------------------
(* What the input asks for.                                                *)
Asked ==
    IF Given(input.last) THEN SubSeq(Stored, Max({0, Len(Stored) - input.last}) + 1, Len(Stored))
    ELSE Selected(Stored, {m \in Range(Stored) :
                             /\ m.ref >= input.from
                             /\ Given(input.to) => m.ref <= input.to
                             /\ Given(input.publisherId) => m.publisherId = input.publisherId})

(* Nobody has left before they were served, and nobody's reading failed:   *)
(* after either the lines may be taken up again where nothing is left.     *)
Undisturbed == /\ meta.state \notin {"left", "error"}
               /\ \A r \in Reader : readers[r].state \notin {"left", "error"}

(* A reader gets messages that were asked for, in their order, none twice. *)
(* Unless somebody left early or a reader before it failed, it gets all of *)
(* them or an error: an answer that is cut is never taken for a whole one. *)
(* Whoever wants the metadata does not miss it either.                     *)
AnswersWhole ==
    /\ \A r \in Reader :
         /\ \A i, j \in DOMAIN readers[r].got : i < j => readers[r].got[i].ref < readers[r].got[j].ref
         /\ \A i \in DOMAIN readers[r].got : readers[r].got[i] \in Range(Asked)
         /\ Undisturbed /\ readers[r].state = "complete" => readers[r].got = Asked
    /\ Undisturbed /\ pulling.end \in {"no", "complete"} /\ meta.state = "complete" => meta.got

(* Whoever reads comes to an end, unless nothing was asked of a node (a    *)
(* query for the last 0 messages never ends), however writer, generators   *)
(* and readers wait for each other and whoever leaves.                     *)
EveryReaderEnds ==
    \A r \in Reader : readers[r].state = "reading" /\ Sent ~> readers[r].state # "reading"

(* Once anybody has read, the writer ends: it does not wait for ever at a  *)
(* full buffer, not even when all readers have left.                       *)
WriterEnds == Sent /\ gens # <<>> ~> pulling.pc = "done"
================================================================================
