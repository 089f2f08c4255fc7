---------------------------- MODULE ResponseStream ----------------------------
(***************************************************************************)
(* One streamed answer of POST /v1/responses or POST /v1/messages, from    *)
(* the upstream's socket to the client.  In "translate" mode the backend   *)
(* turns the lines of a chat completion into Responses events              *)
(* (ResponsesSse); in "passthrough" mode it copies the bytes, holding them *)
(* back until the first event with content (PassthroughGuard).  A client   *)
(* of the Messages API reads either through a second translator            *)
(* (SseTranslator).  Selecting a key, and what a failure does to it, is    *)
(* RequestLoop's; here an attempt is only a number.                        *)
(*                                                                         *)
(* An event is what one `data:` line carries.  Bytes move as pieces: a     *)
(* line that arrived whole, or the head and the tail of one the network    *)
(* tore.  A text is the number of deltas it was streamed in.               *)
(***************************************************************************)
EXTENDS Naturals, Sequences, SequencesExt, FiniteSets

CONSTANTS
  Modes,      \* pairs <<API of the client, mode of the target>>
  TornModes,  \* the modes in which the network may tear a line
  ChatLines,  \* the lines an upstream chat completion may send
  MaxLines,   \* bound of the lines of one attempt in each mode, for model checking
  MaxPieces,  \* bound of the pieces the socket buffers, for model checking
  Attempts,   \* keys and targets there are to try
  NoLine      \* no line is torn

\* What a chunk's delta holds of an item, and its finish_reason.
Part == [type : {"think", "text", "tool"}, index : Nat, size : {0, 1}]
Finish == [type : {"finish"}, reason : STRING]

\* The events of either API, named for what they do to an item or an answer;
\* seq is 0 where the stream has no sequence_number.
Kinds == {"start", "quiet", "open", "mark", "grow", "close",
          "completed", "incomplete", "aborted", "failed", "error"}
Events == [kind : Kinds, item : Nat, size : Nat, seq : Nat, typed : BOOLEAN]

ASSUME ModesAssumption == Modes \subseteq {"responses", "messages"} \X {"translate", "passthrough"}
ASSUME ChatLinesAssumption ==
  ChatLines \subseteq [parts : Seq(Part \union Finish), error : BOOLEAN]

ASSUME NoLineAssumption == NoLine \notin ChatLines \union Events

\* A chunk has one finish_reason at most.
ASSUME FinishAssumption ==
  \A line \in ChatLines : \A i, j \in DOMAIN line.parts :
    {line.parts[i], line.parts[j]} \subseteq Finish => i = j

VARIABLES
  api, mode,
  said,    \* lines the upstream of this attempt has sent, or begun to send
  told,    \* what a client that heard a Responses stream from it would make of it
  socket,  \* pieces that have arrived and the backend has not read
  torn,    \* the line whose tail is still to come
  upstream,\* "sending", "eof" or "broken"
  attempt,
  sse,     \* ResponsesSse
  guard,   \* PassthroughGuard
  pc,      \* the generator: "streaming", "settling" or "over"
  body,    \* pieces yielded and not yet taken by the next stage
  xlate,   \* SseTranslator
  inbox,   \* events on their way to the client
  client,  \* what the client has made of the events it read
  stored   \* the output put_full registered, <<>> before

backend == <<attempt, sse, guard, pc, stored>>
wire == <<said, told, socket, torn, upstream>>
reader == <<xlate, inbox, client>>
vars == <<api, mode, wire, backend, body, reader>>

-------------------------------------------------------------------------------
(* Events, lines and pieces *)

Event(kind, item, size) ==
  [kind |-> kind, item |-> item, size |-> size, seq |-> 0, typed |-> TRUE]

\* sse_event as response.created and the error events use it: the JSON has
\* neither a "type" nor a "sequence_number".
Untyped(kind) == [Event(kind, 0, 0) EXCEPT !.typed = FALSE]

\* The members of S among 1..n, in ascending order.
Ascending(S, n) == FlattenSeq([i \in 1..n |-> IF i \in S THEN <<i>> ELSE <<>>])

Whole(line) == [line |-> line, part |-> "whole"]

\* The lines a chunk completes in a buffer of half lines (the line and
\* line_buf of the guard and the translator, the client's parser): a tail
\* counts if what precedes it is its head.
Half(pieces) ==
  IF pieces # <<>> /\ Last(pieces).part = "head" THEN <<Last(pieces)>> ELSE <<>>
\* Mutant of Lines: the half line before the chunk is forgotten.
LinesForgetful(half, chunk) ==
  LET whole == SelectSeq(chunk, LAMBDA piece : piece.part = "whole")
  IN [i \in DOMAIN whole |-> whole[i].line]
Lines(half, chunk) ==
  LET all == half \o chunk
      ends(i) == \/ all[i].part = "whole"
                 \/ all[i].part = "tail" /\ i > 1 /\ all[i - 1] = [all[i] EXCEPT !.part = "head"]
  IN FlattenSeq([i \in DOMAIN all |-> IF ends(i) THEN <<all[i].line>> ELSE <<>>])

-------------------------------------------------------------------------------
(* ResponsesSse: chat completion chunks to Responses events *)

NewSse == [created |-> FALSE, items |-> <<>>, number |-> 0, finish |-> "none",
           out |-> <<>>]

\* push_seq
Push(s, e) ==
  [s EXCEPT !.number = @ + 1, !.out = Append(@, [e EXCEPT !.seq = s.number + 1])]
PushAll(s, events) ==
  [s EXCEPT !.number = @ + Len(events),
            !.out = @ \o [i \in DOMAIN events |-> [events[i] EXCEPT !.seq = s.number + i]]]

Created(s) ==
  IF s.created THEN s
  ELSE [s EXCEPT !.created = TRUE, !.out = Append(@, Untyped("start"))]

\* The item a part of a chunk belongs to: the message, the reasoning, or the
\* tool call of its index; 0 when there is none yet.
ItemOf(s, p) ==
  SelectInSeq(s.items, LAMBDA it : it.type = p.type /\ it.index = p.index)

\* ensure_message, ensure_reasoning, and the first chunk of a tool call.
Ensure(s, p) ==
  IF ItemOf(s, p) # 0 THEN s
  ELSE LET i == Len(s.items) + 1
           announced == Push(s, Event("open", i, 0))
           added == [announced EXCEPT
                      !.items = Append(@, [type |-> p.type, index |-> p.index, size |-> 0])]
       IN IF p.type = "tool" THEN added ELSE Push(added, Event("mark", i, 0))

\* push_message_delta, push_reasoning_delta
PushDelta(s, i, size) ==
  Push([s EXCEPT !.items[i].size = @ + size], Event("grow", i, size))

\* The parts of a delta, and feed_tool_call.
FeedPart(s, p) ==
  IF p.type = "finish" THEN [s EXCEPT !.finish = p.reason]
  ELSE LET t == Ensure(s, p)
       IN IF p.size = 0 THEN t ELSE PushDelta(t, ItemOf(t, p), p.size)

Feed(s, line) == FoldLeft(FeedPart, Created(s), line.parts)

\* The done events of item i.
Marks(type) == CASE type = "think" -> 3 [] type = "text" -> 2 [] type = "tool" -> 1
Seal(s, i) ==
  LET it == s.items[i]
  IN Append([n \in 1..Marks(it.type) |-> Event("mark", i, it.size)], Event("close", i, it.size))

\* finish(): the reasoning first, then the message, then the tool calls in
\* the order they came.
SealOrder(s) ==
  LET of(type) == Ascending({i \in DOMAIN s.items : s.items[i].type = type}, Len(s.items))
  IN of("think") \o of("text") \o of("tool")

\* Mutant of Outcome: an answer that ends without a finish_reason counts as whole.
OutcomeTrusting(finish) == IF finish = "length" THEN "incomplete" ELSE "completed"

Outcome(finish) == IF finish \in {"stop", "tool_calls"} THEN "completed" ELSE "incomplete"

FinishSse(s) ==
  LET seals == FlattenSeq([n \in DOMAIN SealOrder(s) |-> Seal(s, SealOrder(s)[n])])
  IN Push(PushAll(Created(s), seals), Event(Outcome(s.finish), 0, 0))

-------------------------------------------------------------------------------
(* PassthroughGuard *)

NewGuard == [flushed |-> FALSE, held |-> <<>>, half |-> <<>>]

LineClass(line) ==
  CASE line.kind \in {"start", "quiet"} -> "Meta"
    [] line.kind = "aborted" -> "Retry"
    [] OTHER -> "Content"

\* feed(): the first line of the chunk that is not Meta decides.
Decision(g, chunk) ==
  LET lines == Lines(g.half, chunk)
      telling == SelectInSeq(lines, LAMBDA l : LineClass(l) # "Meta")
  IN CASE g.flushed -> "Forward"
       [] ~g.flushed /\ telling = 0 -> "Buffered"
       [] ~g.flushed /\ telling # 0 ->
            IF LineClass(lines[telling]) = "Content" THEN "Forward" ELSE "RetryZeroOutput"

\* Mutant of Forwarded: the prefix holds the chunk that decided, too.
ForwardedTwice(g, chunk) == g.held \o chunk \o chunk

\* What Forward has the caller send: the prefix, which ends before this
\* chunk, and the chunk.
Forwarded(g, chunk) == g.held \o chunk

-------------------------------------------------------------------------------
(* SseTranslator: Responses events to Messages events *)

NewTranslator == [half |-> <<>>, blockOf |-> <<>>, next |-> 1, open |-> {},
                  stopped |-> FALSE, out |-> <<>>]

Say(x, e) == [x EXCEPT !.out = Append(@, e)]

StartBlock(x, item) ==
  Say([x EXCEPT !.blockOf = [i \in DOMAIN @ \union {item} |-> IF i = item THEN x.next ELSE @[i]],
                !.open = @ \union {x.next}, !.next = @ + 1],
      Event("open", x.next, 0))

StopOpenBlocks(x) ==
  LET left == Ascending(x.open, x.next)
  IN [x EXCEPT !.out = @ \o [n \in DOMAIN left |-> Event("close", left[n], 0)], !.open = {}]

TranslateEvent(x, e) ==
  LET has == e.item \in DOMAIN x.blockOf
      grown == IF has THEN x ELSE StartBlock(x, e.item)
  IN CASE ~e.typed -> IF e.kind = "error" THEN Say(x, e) ELSE x
       [] e.typed /\ e.kind = "start" -> Say(x, e)
       [] e.typed /\ e.kind = "open" -> StartBlock(x, e.item)
       [] e.typed /\ e.kind = "grow" -> Say(grown, Event("grow", grown.blockOf[e.item], e.size))
       [] e.typed /\ e.kind = "close" ->
            IF ~has THEN x
            ELSE Say([x EXCEPT !.blockOf = [i \in DOMAIN @ \ {e.item} |-> @[i]],
                               !.open = @ \ {x.blockOf[e.item]}],
                     Event("close", x.blockOf[e.item], 0))
       [] e.typed /\ e.kind \in {"completed", "incomplete", "aborted", "failed"} ->
            LET y == StopOpenBlocks(x)
                kind == IF e.kind \in {"incomplete", "aborted"} THEN "incomplete"
                        ELSE "completed"
            IN IF y.stopped THEN y
               ELSE Say([y EXCEPT !.stopped = TRUE], Event(kind, 0, 0))
       [] e.typed /\ e.kind \in {"quiet", "mark", "error"} -> x

-------------------------------------------------------------------------------
(* The client *)

NewClient == [status |-> "waiting", items |-> <<>>, number |-> 0, half |-> <<>>]

\* What the client's parser relies on to place an event.
Understands(c, e) ==
  /\ e.seq # 0 => e.seq = c.number + 1
  /\ e.kind = "start" => c.status = "waiting"
  /\ e.kind = "open" => e.item = Len(c.items) + 1
  /\ e.kind \in {"grow", "close"} => e.item \in DOMAIN c.items
  /\ e.kind = "close" /\ api = "responses" => e.size = c.items[e.item].size

Status(c, e) ==
  CASE e.kind = "start" -> "open"
    [] e.kind \in {"completed", "incomplete", "failed", "error"} -> e.kind
    [] e.kind = "aborted" -> "incomplete"
    [] OTHER -> c.status

Hear(c, e) ==
  LET numbered == IF e.seq = 0 THEN c.number ELSE e.seq
      items == CASE e.kind = "open" -> Append(c.items, [open |-> TRUE, size |-> 0])
                 [] e.kind = "grow" -> [c.items EXCEPT ![e.item].size = @ + e.size]
                 [] e.kind = "close" -> [c.items EXCEPT ![e.item].open = FALSE]
                 [] OTHER -> c.items
  IN IF Understands(c, e)
     THEN [c EXCEPT !.status = Status(c, e), !.items = items, !.number = numbered]
     ELSE [c EXCEPT !.status = "confused"]

Listening == client.status \in {"waiting", "open"}

-------------------------------------------------------------------------------
(* The upstream and the network *)

\* What an upstream that speaks the Responses API may say next.
ResponsesLines ==
  LET open == {i \in DOMAIN told.items : told.items[i].open}
  IN CASE told.status = "waiting" -> {Event("start", 0, 0), Event("error", 0, 0)}
       [] told.status = "open" ->
            {Event("quiet", 0, 0), Event("aborted", 0, 0), Event("failed", 0, 0)}
            \union {Event("open", Len(told.items) + 1, 0)}
            \union {Event("grow", i, 1) : i \in open}
            \union {Event("close", i, told.items[i].size) : i \in open}
            \union (IF open = {} THEN {Event("completed", 0, 0), Event("incomplete", 0, 0)}
                    ELSE {})
       [] OTHER -> {}

\* A chat completion has one finish_reason; what may follow it is the usage.
Finishes(line) == \E j \in DOMAIN line.parts : line.parts[j].type = "finish"
ChatFinished == \E i \in DOMAIN said : Finishes(said[i])
Sayable ==
  CASE mode = "passthrough" -> ResponsesLines
    [] mode = "translate" -> {l \in ChatLines : ChatFinished => l.parts = <<>>}

Send(line, part) ==
  /\ pc = "streaming" /\ upstream = "sending" /\ torn = NoLine
  /\ Len(said) < MaxLines[mode] /\ Len(socket) < MaxPieces
  /\ line \in Sayable
  /\ part = "head" => mode \in TornModes
  /\ said' = Append(said, line)
  /\ told' = IF mode = "passthrough" THEN Hear(told, line) ELSE told
  /\ socket' = Append(socket, [line |-> line, part |-> part])
  /\ torn' = IF part = "head" THEN line ELSE NoLine
  /\ UNCHANGED <<api, mode, upstream, backend, body, reader>>

\* The tail joins its head if the backend has not read that yet.
SendRest ==
  /\ pc = "streaming" /\ upstream = "sending" /\ torn # NoLine
  /\ torn' = NoLine
  /\ socket' = IF socket # <<>> THEN [socket EXCEPT ![Len(socket)] = Whole(torn)]
               ELSE <<[line |-> torn, part |-> "tail"]>>
  /\ UNCHANGED <<api, mode, said, told, upstream, backend, body, reader>>

Close ==
  /\ pc = "streaming" /\ upstream = "sending" /\ torn = NoLine
  /\ upstream' = "eof"
  /\ UNCHANGED <<api, mode, said, told, socket, torn, backend, body, reader>>

\* The connection breaks, or the read timeout of an idle one passes.
Break ==
  /\ pc = "streaming" /\ upstream = "sending"
  /\ upstream' = "broken"
  /\ UNCHANGED <<api, mode, said, told, socket, torn, backend, body, reader>>

-------------------------------------------------------------------------------
(* stream_responses_route *)

\* The generator is polled when what it yielded has been taken.
Polled == pc = "streaming" /\ body = <<>>

ErrorEvent == Whole(Untyped("error"))
Yield(events) == [i \in DOMAIN events |-> Whole(events[i])]

\* The translating branch looks at each chunk's lines by themselves.
TranslateChunk ==
  /\ Polled /\ mode = "translate" /\ socket # <<>>
  /\ LET lines == Lines(<<>>, socket)
         bad == SelectInSeq(lines, LAMBDA l : l.error)
         good == IF bad = 0 THEN lines ELSE SubSeq(lines, 1, bad - 1)
         s == FoldLeft(Feed, [sse EXCEPT !.out = <<>>], good)
     IN /\ sse' = s
        /\ body' = IF bad = 0 THEN Yield(s.out) ELSE Append(Yield(s.out), ErrorEvent)
        /\ pc' = IF bad = 0 THEN pc ELSE "over"
  /\ socket' = <<>>
  /\ UNCHANGED <<api, mode, said, told, torn, upstream, attempt, guard, stored, reader>>

TranslateEnd ==
  /\ Polled /\ mode = "translate" /\ socket = <<>> /\ upstream = "eof"
  /\ sse' = FinishSse([sse EXCEPT !.out = <<>>])
  /\ body' = Yield(sse'.out)
  /\ pc' = "settling"
  /\ UNCHANGED <<api, mode, wire, attempt, guard, stored, reader>>

\* The output of the response, in the order its items opened.
Output(s) == [i \in DOMAIN s.items |-> s.items[i].size]

\* Mutant of Settle: the output is stored in the order it was sealed in.
SettleSealed ==
  /\ pc = "settling"
  /\ stored' = [i \in DOMAIN sse.items |-> sse.items[SealOrder(sse)[i]].size]
  /\ pc' = "over"
  /\ UNCHANGED <<api, mode, wire, attempt, sse, guard, body, reader>>

\* store::put_full, once the generator is polled after its last yield.
Settle ==
  /\ pc = "settling"
  /\ stored' = Output(sse)
  /\ pc' = "over"
  /\ UNCHANGED <<api, mode, wire, attempt, sse, guard, body, reader>>

PassChunk ==
  /\ Polled /\ mode = "passthrough" /\ socket # <<>>
  /\ Decision(guard, socket) # "RetryZeroOutput"
  /\ IF Decision(guard, socket) = "Forward"
     THEN /\ guard' = [NewGuard EXCEPT !.flushed = TRUE]
          /\ body' = Forwarded(guard, socket)
     ELSE /\ guard' = [guard EXCEPT !.held = @ \o socket, !.half = Half(socket)]
          /\ UNCHANGED body
  /\ socket' = <<>>
  /\ UNCHANGED <<api, mode, said, told, torn, upstream, attempt, sse, pc, stored, reader>>

\* Mutant of RetryZeroOutput: the key that was tried is tried again.
RetryZeroOutputForever ==
  /\ Polled /\ mode = "passthrough" /\ socket # <<>>
  /\ Decision(guard, socket) = "RetryZeroOutput"
  /\ guard' = NewGuard
  /\ said' = <<>> /\ told' = NewClient /\ socket' = <<>> /\ torn' = NoLine /\ upstream' = "sending"
  /\ UNCHANGED <<api, mode, attempt, sse, pc, stored, body, reader>>

\* Nothing has reached the client: another key or target starts afresh, and
\* when there is none left the client is sent the last error.
RetryZeroOutput ==
  /\ Polled /\ mode = "passthrough" /\ socket # <<>>
  /\ Decision(guard, socket) = "RetryZeroOutput"
  /\ guard' = NewGuard
  /\ IF attempt < Attempts
     THEN /\ attempt' = attempt + 1
          /\ said' = <<>> /\ told' = NewClient /\ socket' = <<>> /\ torn' = NoLine /\ upstream' = "sending"
          /\ UNCHANGED <<pc, body>>
     ELSE /\ pc' = "over"
          /\ body' = <<ErrorEvent>>
          /\ UNCHANGED <<attempt, wire>>
  /\ UNCHANGED <<api, mode, sse, stored, reader>>

\* An upstream that ends while the guard still holds everything back leaves
\* the client with a body of no bytes.
PassEnd ==
  /\ Polled /\ mode = "passthrough" /\ socket = <<>> /\ upstream = "eof"
  /\ pc' = "over"
  /\ UNCHANGED <<api, mode, wire, attempt, sse, guard, stored, body, reader>>

StreamBreak ==
  /\ Polled /\ socket = <<>> /\ upstream = "broken"
  /\ body' = <<ErrorEvent>>
  /\ pc' = "over"
  /\ UNCHANGED <<api, mode, wire, attempt, sse, guard, stored, reader>>

-------------------------------------------------------------------------------
(* The way to the client *)

\* The body goes to the client as it is, or through the second translator.
Deliver ==
  /\ body # <<>> /\ inbox = <<>>
  /\ LET lines(half) == Lines(half, body)
         x == FoldLeft(TranslateEvent, [xlate EXCEPT !.out = <<>>], lines(xlate.half))
     IN IF api = "messages"
        THEN /\ xlate' = [x EXCEPT !.half = Half(body)]
             /\ inbox' = x.out
             /\ UNCHANGED client
        ELSE /\ inbox' = lines(client.half)
             /\ client' = [client EXCEPT !.half = Half(body)]
             /\ UNCHANGED xlate
  /\ body' = <<>>
  /\ UNCHANGED <<api, mode, wire, backend>>

\* A client that has heard the end of its answer does not mind what follows:
\* a connection that breaks after its last event appends an error to it.
Read ==
  /\ inbox # <<>>
  /\ client' = IF Listening THEN Hear(client, Head(inbox)) ELSE client
  /\ inbox' = Tail(inbox)
  /\ UNCHANGED <<api, mode, wire, backend, body, xlate>>

\* The body has ended.
Hangup ==
  /\ pc = "over" /\ body = <<>> /\ inbox = <<>> /\ Listening
  /\ client' = [client EXCEPT !.status = "cut"]
  /\ UNCHANGED <<api, mode, wire, backend, body, xlate, inbox>>

\* The client closes the connection; the generator is dropped where it is.
Leave ==
  /\ pc # "over"
  /\ pc' = "over"
  /\ client' = [client EXCEPT !.status = IF Listening THEN "cut" ELSE @]
  /\ inbox' = <<>> /\ body' = <<>>
  /\ UNCHANGED <<api, mode, wire, attempt, sse, guard, stored, xlate>>

-------------------------------------------------------------------------------

Init ==
  /\ \E m \in Modes : api = m[1] /\ mode = m[2]
  /\ said = <<>> /\ told = NewClient /\ socket = <<>> /\ torn = NoLine /\ upstream = "sending"
  /\ attempt = 1 /\ sse = NewSse /\ guard = NewGuard /\ pc = "streaming" /\ stored = <<>>
  /\ body = <<>> /\ xlate = NewTranslator /\ inbox = <<>> /\ client = NewClient

Backend ==
  \/ TranslateChunk \/ TranslateEnd \/ Settle
  \/ PassChunk \/ RetryZeroOutput \/ PassEnd \/ StreamBreak
Reader == Deliver \/ Read \/ Hangup
Next ==
  \/ \E line \in Sayable, part \in {"whole", "head"} : Send(line, part)
  \/ SendRest \/ Close \/ Break \/ Leave
  \/ Backend \/ Reader

Spec == Init /\ [][Next]_vars

\* The generator and the reader are polled while they can move; an upstream
\* that says nothing runs into the read timeout.  The first two are WF_vars
\* written with the state predicate that enables the action: TLC evaluates
\* ENABLED of the folds above far too slowly.
GeneratorReady == (Polled /\ (socket # <<>> \/ upstream # "sending")) \/ pc = "settling"
ReaderReady == inbox # <<>> \/ body # <<>> \/ (pc = "over" /\ Listening)
Fairness ==
  /\ <>[]GeneratorReady => []<><<Backend>>_vars
  /\ <>[]ReaderReady => []<><<Reader>>_vars
  /\ WF_vars(Break)
FairSpec == Spec /\ Fairness

-------------------------------------------------------------------------------
(* Properties *)

\* The stream as its client sees it keeps the protocol of ResponseProtocol:
\* event order of ResponsesSse, lifetime of blocks in SseTranslator, and no
\* byte of a silently retried attempt before the answer (the 2026-10-21
\* accident, passthrough.rs).
Protocol == INSTANCE ResponseProtocol WITH status <- client.status, items <- client.items
KeepsProtocol == Protocol!Spec

Sizes(items) == [i \in DOMAIN items |-> items[i].size]

\* What a chat completion said, without an accumulator: its items ranked by
\* first mention, each as long as its mentions.
ChatItems ==
  LET parts == FlattenSeq([i \in DOMAIN said |-> said[i].parts])
      of(i) == {j \in DOMAIN parts : parts[j] \in Part
                                       /\ parts[j].type = parts[i].type
                                       /\ parts[j].index = parts[i].index}
      firsts == {i \in DOMAIN parts : parts[i] \in Part /\ \A j \in of(i) : i <= j}
      order == Ascending(firsts, Len(parts))
  IN [n \in DOMAIN order |-> Cardinality({j \in of(order[n]) : parts[j].size = 1})]

UpstreamItems == IF mode = "translate" THEN ChatItems ELSE Sizes(told.items)

\* An answer that is told to have ended carries every item the upstream sent
\* in this attempt, whole and in order: nothing is lost, doubled or swapped
\* between the chunks, the guard's buffer and the two translators.
Faithful ==
  client.status \in {"completed", "incomplete"} => Sizes(client.items) = UpstreamItems

\* A truncated chat completion is not passed off as a whole one, nor a whole
\* one as truncated (finish_reason, finish()).
TruncationTold ==
  mode = "translate" /\ client.status \in {"completed", "incomplete"} =>
    (client.status = "completed" <=>
       \E i \in DOMAIN said : \E j \in DOMAIN said[i].parts :
         said[i].parts[j].type = "finish"
         /\ said[i].parts[j].reason \in {"stop", "tool_calls"})

\* What put_full keeps for previous_response_id and GET /responses/{id} is
\* the answer the client was streamed.
StoredAsTold ==
  stored # <<>> /\ client.status \in {"completed", "incomplete"} =>
    stored = Sizes(client.items)

\* Whatever the upstream does, the client's wait ends.
AnswerEnds == <>~Listening

\* anthropic/stream.rs:5: `response.created` becomes `message_start`, which
\* the Messages API sends first.
StartsFirst == client.status = "waiting" => client.items = <<>>
===============================================================================
