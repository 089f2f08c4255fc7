------------------------------ MODULE Conversation ----------------------------
(***************************************************************************)
(* Conversations over stateless upstreams: requests of the Responses and   *)
(* of the Messages API, translated for the targets of their route, and the *)
(* ring of answers a backend keeps so that a request can name the answer   *)
(* it goes on from (previous_response_id).  Each slot has a ring of its    *)
(* own; the front proxy sends a request to the active one.                 *)
(*                                                                         *)
(* A target is "chat" (a chat completions upstream: request and answer are *)
(* translated) or "native" (it speaks the Responses API itself, and the    *)
(* router keeps nothing of its answers).                                   *)
(***************************************************************************)
EXTENDS Translation, FiniteSets

CONSTANTS
  Workers,      \* handlers that run at the same time
  Slots,        \* backends
  Asks,         \* what clients ask for, [api, payload, instructions]
  Routes,       \* what a model name resolves to: sequences of targets
  Answers,      \* what an upstream may answer
  Fields,       \* parameters of requests, and ...
  Aliases,      \* ... what the aliases make of them: see PreparePayload
  Names,        \* texts, images and calls
  MaxEntries,   \* MAX_ENTRIES
  TTL,          \* TTL
  MaxAnswers    \* bound of the answers, for model checking

VARIABLES
  store,        \* slot -> its ring, oldest entry first
  active,       \* the slot that gets the requests
  inflight,     \* worker -> the request it handles
  told          \* the answers clients got, in order, an id being a position, and the
                \* status they were told; of the age TTL are those that are expired,
                \* deleted or lost in a restart

vars == <<store, active, inflight, told>>

Unknown == 0    \* an id nobody was ever given
NoPrevious == -1
Ids == Unknown..MaxAnswers
Idle == [phase |-> "idle"]
Untranslated == <<>>

\* What may be asked and answered.  A "builtin_call" is of a tool of the API itself
\* (file_search_call, web_search_call, computer_call); "other" is what the router does not
\* know, of items those without content.
Identifiers == Names \union {NoId, AnswerText.id}
Roles == {"user", "assistant", "system", "developer"}
Parts == [type : {"text", "image", "input_file"}, id : Identifiers]
Items == [type : {"message", "function_call", "function_call_output", "reasoning",
                  "builtin_call", "other"},
          role : Roles, parts : Seq(Parts), id : Identifiers]
Blocks == [type : {"text", "image", "thinking", "tool_use", "tool_result", "document", "other"},
           id : Identifiers]
Turns == [role : Roles, blocks : Seq(Blocks)]
Messages == [role : Roles \union {"tool"}, parts : Seq(Parts), calls : Seq(Identifiers),
             id : Identifiers]

ASSUME AsksAssumption ==
  Asks \subseteq [api : {"responses"}, payload : Seq(Items), instructions : BOOLEAN]
         \union [api : {"messages"}, payload : Seq(Turns), instructions : BOOLEAN]
ASSUME AnswersAssumption ==
  Answers \subseteq [reasoning : BOOLEAN, text : BOOLEAN, calls : Seq(Identifiers), cut : BOOLEAN]
ASSUME RoutesAssumption == Routes \subseteq Seq({"chat", "native"}) \ {<<>>}
ASSUME RefusedAssumption == Refused \notin Seq(Messages) \union Seq(Items)
FieldNames == {"effort", "thinking", "format", "n", "choice"}
ASSUME FieldsAssumption == \A fields \in Fields : fields = [f \in FieldNames |-> fields[f]]
ASSUME LimitsAssumption == MaxEntries \in Nat \ {0} /\ TTL \in Nat /\ MaxAnswers \in Nat

-------------------------------------------------------------------------------
(* The ring of responses (store.rs) *)

Live(ring) == Only(ring, {e \in ToSet(ring) : e.age < TTL})
Holds(ring, id) == \E i \in DOMAIN ring : ring[i].id = id
EntryOf(ring, id) == ring[CHOOSE i \in DOMAIN ring : ring[i].id = id]

\* Mutant of PutFull: room is made before the expired ones go.
PutFullCountingFirst(ring, entry) ==
  LET live == Live(ring)
      excess == IF Len(ring) >= MaxEntries THEN Len(ring) - MaxEntries + 1 ELSE 0
  IN Append(SubSeq(live, excess + 1, Len(live)), entry)

\* put_full: the expired entries go first, then the oldest ones.
PutFull(ring, entry) ==
  LET live == Live(ring)
      excess == IF Len(live) >= MaxEntries THEN Len(live) - MaxEntries + 1 ELSE 0
  IN Append(SubSeq(live, excess + 1, Len(live)), entry)

Deleted(ring, id) == Only(ring, {e \in ToSet(ring) : e.id # id})

\* Every access expires what is too old.
Expire(s) == store' = [store EXCEPT ![s] = Live(@)]

-------------------------------------------------------------------------------
(* Requests *)

\* The Responses request of an ask.
InputOf(ask) == IF ask.api = "messages" THEN MessagesToInput(ask.payload) ELSE ask.payload

\* Mutant of TranslateRequest: the history comes behind the request.
TranslateRequestBehind(ring, input, instructions, prev) ==
  LET chat == InputToChat(input, instructions)
      history == IF Holds(Live(ring), prev) THEN EntryOf(ring, prev).history ELSE <<>>
  IN IF chat = Refused \/ (prev # NoPrevious /\ history = <<>>) THEN Refused
     ELSE chat \o history

\* translate_request: the history of the answer it goes on from comes before
\* all that the request says.
TranslateRequest(ring, input, instructions, prev) ==
  LET chat == InputToChat(input, instructions)
      history == IF Holds(Live(ring), prev) THEN EntryOf(ring, prev).history ELSE <<>>
  IN IF chat = Refused \/ (prev # NoPrevious /\ history = <<>>) THEN Refused
     ELSE history \o chat

\* Results a client has no call for in this request are results of calls of the
\* answer it goes on from.
OwnCalls(input) == {input[i].id : i \in {j \in DOMAIN input : input[j].type = "function_call"}}
Results(input) ==
  {input[i].id : i \in {j \in DOMAIN input : input[j].type = "function_call_output"}}
MakesSense(ask, prev) ==
  LET input == InputOf(ask)
      asked == IF prev \in DOMAIN told THEN ToSet(told[prev].answer.calls) ELSE {}
  IN /\ ask.api = "messages" => prev = NoPrevious
     /\ input # Refused => Results(input) = OwnCalls(input) \union asked

\* responses and messages: a streamed request is translated once, before its
\* first target is known; one that cannot be is refused and never sent.  Other
\* requests are translated for each chat target they reach.
Begin(w, ask, prev, stream, route) ==
  LET s == active
      input == InputOf(ask)
      early == stream /\ (ask.api = "messages" \/ Has([i \in DOMAIN route |-> [type |-> route[i]]],
                                                      {"chat"}))
      chat == IF early THEN TranslateRequest(store[s], input, ask.instructions, prev)
              ELSE Untranslated
  IN /\ inflight[w] = Idle
     /\ MakesSense(ask, prev)
     /\ input # Refused /\ chat # Refused
     /\ inflight' = [inflight EXCEPT ![w] =
          [phase |-> "next", slot |-> s, ask |-> ask, input |-> input, prev |-> prev,
           stream |-> stream, route |-> route, chat |-> chat]]
     /\ IF early /\ prev # NoPrevious THEN Expire(s) ELSE UNCHANGED store
     /\ UNCHANGED <<active, told>>

\* responses_alias_dispatch: the request goes to its next target.
Dispatch(w) ==
  LET r == inflight[w]
      translate == Head(r.route) = "chat" /\ r.chat = Untranslated
      chat == IF translate
              THEN TranslateRequest(store[r.slot], r.input, r.ask.instructions, r.prev)
              ELSE r.chat
  IN /\ r.phase = "next"
     /\ inflight' = [inflight EXCEPT ![w] =
          IF chat = Refused THEN Idle
          ELSE [r EXCEPT !.phase = "sent", !.chat = chat]]
     /\ IF translate /\ r.prev # NoPrevious THEN Expire(r.slot) ELSE UNCHANGED store
     /\ UNCHANGED <<active, told>>

\* NoAvailableKeyError: all keys of the target are frozen, the next one is tried.
Frozen(w) ==
  LET r == inflight[w]
  IN /\ r.phase = "sent"
     /\ inflight' = [inflight EXCEPT ![w] =
          IF Len(r.route) = 1 THEN Idle
          ELSE [r EXCEPT !.phase = "next", !.route = Tail(@),
                         !.chat = IF r.stream THEN @ ELSE Untranslated]]
     /\ UNCHANGED <<store, active, told>>

\* The history a streamed answer leaves is made from its output items.
HistoryOf(a, stream) == IF stream THEN HistoryFromOutput(AnswerToOutput(a)) ELSE History(a)

\* A chat upstream's answer is translated, stored and told to the client.
Answer(w, a) ==
  LET r == inflight[w]
      id == Len(told) + 1
      history == HistoryOf(a, r.stream)
  IN /\ r.phase = "sent" /\ Head(r.route) = "chat" /\ id <= MaxAnswers
     /\ store' = [store EXCEPT ![r.slot] =
          PutFull(@, [id |-> id, history |-> history, age |-> 0])]
     /\ told' = Append(told, [slot |-> r.slot, answer |-> a, empty |-> history = <<>>,
                              status |-> Status(a, r.stream), age |-> 0])
     /\ inflight' = [inflight EXCEPT ![w] = Idle]
     /\ UNCHANGED active

\* A native answer is passed on, an error ends the request.
End(w) ==
  /\ inflight[w].phase = "sent"
  /\ inflight' = [inflight EXCEPT ![w] = Idle]
  /\ UNCHANGED <<store, active, told>>

-------------------------------------------------------------------------------
(* The endpoints of a response *)

\* get_response, response_input_items, cancel_response: they show an answer that
\* is complete; a cancel marks it, for the other two to show.
Look == Expire(active) /\ UNCHANGED <<active, inflight, told>>

DeleteResponse(id) ==
  /\ store' = [store EXCEPT ![active] = Deleted(Live(@), id)]
  /\ told' = IF told[id].slot = active THEN [told EXCEPT ![id].age = TTL] ELSE told
  /\ UNCHANGED <<active, inflight>>

-------------------------------------------------------------------------------
(* Time and processes *)

Older(e) == [e EXCEPT !.age = IF @ < TTL THEN @ + 1 ELSE @]

Tick ==
  /\ store' = [s \in Slots |-> [i \in DOMAIN store[s] |-> Older(store[s][i])]]
  /\ told' = [i \in DOMAIN told |-> Older(told[i])]
  /\ UNCHANGED <<active, inflight>>

Restart(s) ==
  /\ store' = [store EXCEPT ![s] = <<>>]
  /\ inflight' = [w \in Workers |->
       IF inflight[w] # Idle /\ inflight[w].slot = s THEN Idle ELSE inflight[w]]
  /\ told' = [i \in DOMAIN told |->
       IF told[i].slot = s THEN [told[i] EXCEPT !.age = TTL] ELSE told[i]]
  /\ UNCHANGED active

Switch(s) == s # active /\ active' = s /\ UNCHANGED <<store, inflight, told>>

-------------------------------------------------------------------------------
Init ==
  /\ store = [s \in Slots |-> <<>>]
  /\ active \in Slots
  /\ inflight = [w \in Workers |-> Idle]
  /\ told = <<>>

Worker(w) ==
  \/ \E ask \in Asks, prev \in Ids \union {NoPrevious}, stream \in BOOLEAN, route \in Routes :
       Begin(w, ask, prev, stream, route)
  \/ Dispatch(w) \/ Frozen(w) \/ End(w)
  \/ \E a \in Answers : Answer(w, a)

Next ==
  \/ \E w \in Workers : Worker(w)
  \/ \E id \in DOMAIN told : DeleteResponse(id)
  \/ \E s \in Slots : Restart(s) \/ Switch(s)
  \/ Look \/ Tick

Spec == Init /\ [][Next]_vars

-------------------------------------------------------------------------------
(* Properties *)

\* What a conversation says in order, however it is cut into messages.
Said(m) ==
  [i \in DOMAIN m.parts |-> <<m.role, m.parts[i].type, m.parts[i].id>>]
  \o [i \in DOMAIN m.calls |-> <<"assistant", "call", m.calls[i]>>]
  \o IF m.role = "tool" THEN << <<"tool", "result", m.id>> >> ELSE <<>>
Spoken(messages) == FlattenSeq([i \in DOMAIN messages |-> Said(messages[i])])

\* The same of a client's blocks or items, read off one by one: of thinking, reasoning,
\* calls of built-in tools and what the router does not know, nothing.
SaidByBlock(role, b) ==
  CASE b.type \in {"text", "image"} -> << <<role, b.type, b.id>> >>
    [] b.type = "tool_use" -> << <<"assistant", "call", b.id>> >>
    [] b.type = "tool_result" -> << <<"tool", "result", b.id>> >>
    [] OTHER -> <<>>
SaidByItem(item) ==
  CASE item.type = "function_call" -> << <<"assistant", "call", item.id>> >>
    [] item.type = "function_call_output" -> << <<"tool", "result", item.id>> >>
    [] item.type = "message" ->
         [i \in DOMAIN item.parts |-> <<item.role, item.parts[i].type, item.parts[i].id>>]
    [] OTHER -> <<>>
Asked(ask) ==
  IF ask.api = "messages"
  THEN FlattenSeq([i \in DOMAIN ask.payload |->
         FlattenSeq([j \in DOMAIN ask.payload[i].blocks |->
           SaidByBlock(ask.payload[i].role, ask.payload[i].blocks[j])])])
  ELSE FlattenSeq([i \in DOMAIN ask.payload |-> SaidByItem(ask.payload[i])])

\* What no chat completion can carry.
HasFile(ask) ==
  \E i \in DOMAIN ask.payload :
    IF ask.api = "messages" THEN Has(ask.payload[i].blocks, {"document"})
    ELSE Has(ask.payload[i].parts, {"input_file"})

\* What the client was told, as items it could have sent back itself.
Resent(id) ==
  IF id = NoPrevious THEN <<>>
  ELSE LET output == AnswerToOutput(told[id].answer)
       IN FlattenSeq([i \in DOMAIN output |-> SaidByItem(output[i])])

Translated(w) == inflight[w] # Idle /\ inflight[w].chat # Untranslated

\* Texts, images, calls and results are kept, in their order: a chat upstream gets what
\* the answer the request goes on from said, then what the request says, exactly what it
\* would have got had the client sent that answer again; and a request with a file, which
\* cannot be kept, is not sent.  A Messages client that sends the blocks of an answer back
\* loses nothing but the thinking, and is told of calls only when it has them.  What is
\* dropped without a word is what SaidByBlock and SaidByItem read as nothing.
Returned(id) ==
  LET blocks == OutputToBlocks(AnswerToOutput(told[id].answer))
      input == MessagesToInput(<<[role |-> "assistant", blocks |-> blocks],
                                 [role |-> "user", blocks |-> <<AnswerText>>]>>)
  IN FlattenSeq([i \in DOMAIN input |-> SaidByItem(input[i])])
TextsAndCallsKept ==
  /\ \A w \in Workers : Translated(w) =>
       /\ Spoken(inflight[w].chat) = Resent(inflight[w].prev) \o Asked(inflight[w].ask)
       /\ ~HasFile(inflight[w].ask)
  /\ told # <<>> =>     \* of the last answer: each one is the last for a while
       LET id == Len(told)
           output == AnswerToOutput(told[id].answer)
       IN /\ Returned(id) = Resent(id) \o SaidByBlock("user", AnswerText)
          /\ StopReason(output, told[id].status) = "tool_use" =>
               Has(OutputToBlocks(output), {"tool_use"})

\* What the comment on responses_to_chat promises: a request with an item of a type the
\* router does not know is refused.  The code skips the item when it has no content, so
\* this does not hold, and no run checks it.
UnknownRefused ==
  \A w \in Workers : Translated(w) /\ inflight[w].ask.api = "responses" =>
    ~Has(inflight[w].ask.payload, {"other"})

\* A client can go on from the answer it was given, on the backend that gave it, for
\* as long as the ring promises: TTL, and MAX_ENTRIES later answers; and from none that
\* was deleted, has expired or never was.  The ring does not outgrow MAX_ENTRIES.
Later(id) == {j \in id + 1..Len(told) : told[j].slot = told[id].slot}
Remembered ==
  /\ \A id \in DOMAIN told :
       /\ ~told[id].empty /\ told[id].age < TTL
       /\ Cardinality(Later(id)) < MaxEntries
       => TranslateRequest(store[told[id].slot], <<Item("message", "user", <<>>, NoId)>>, FALSE, id)
            # Refused
  /\ \A s \in Slots, id \in Ids :
       (id \in DOMAIN told => told[id].age = TTL) => ~Holds(Live(store[s]), id)
  /\ \A s \in Slots : Len(store[s]) <= MaxEntries

\* No text comes between a call and its result: nothing but other calls, results and the
\* instructions of the request, wherever the call is, in the request or in the answer it
\* goes on from.
FollowsItsCall(messages, i) ==
  \E j \in 1..i - 1 :
    /\ messages[i].id \in ToSet(messages[j].calls)
    /\ \A k \in j + 1..i - 1 :
         messages[k].role = "tool" \/ messages[k].calls # <<>> \/ messages[k] = Instructions
ResultsFollowCalls ==
  \A w \in Workers : Translated(w) =>
    \A i \in DOMAIN inflight[w].chat :
      inflight[w].chat[i].role = "tool" => FollowsItsCall(inflight[w].chat, i)

\* What chat completions itself demands is more: results right behind the message with
\* their calls.  The code does not see to it, so this does not hold and no run checks it:
\* two calls of a turn become two messages, and both results come behind the second;
\* instructions come between the answer gone on from and the results of its calls.
ResultsAtOnce ==
  \A w \in Workers : Translated(w) =>
    LET chat == inflight[w].chat
    IN \A i \in DOMAIN chat : chat[i].role = "tool" =>
         \E j \in 1..i - 1 : /\ chat[i].id \in ToSet(chat[j].calls)
                             /\ \A k \in j + 1..i - 1 : chat[k].role = "tool"

\* What the protocols ask of a request taken by itself: a result comes right behind its
\* call or, when it is of a call of the answer gone on from, before all else, calls and
\* results apart; and no message is empty.
Orderly(ask) ==
  LET said == Asked(ask)
      call(i) == <<"assistant", "call", said[i][3]>>
      together(first, last) == \A k \in first..last : said[k][2] \in {"call", "result"}
  IN /\ \A i \in DOMAIN said : said[i][2] = "result" =>
          \/ \E j \in 1..i - 1 : said[j] = call(i) /\ together(j + 1, i - 1)
          \/ call(i) \notin ToSet(said) /\ together(1, i - 1)
     /\ ask.api = "responses" =>
          \A i \in DOMAIN ask.payload :
            ask.payload[i].type = "message" => ask.payload[i].parts # <<>>

\* What DeepSeek is known to refuse is never sent to it, whatever the client
\* asks for and the alias fills in (payload.rs, normalize_deepseek_official).
Refusable(sent, mentions) ==
  \/ sent.fields.format = "json_schema"
  \/ sent.fields.format = "json_object" /\ ~mentions
       /\ \A i \in DOMAIN sent.messages : sent.messages[i].id # "json"
  \/ sent.fields.n = "many"
  \/ ThinkingEnabled(sent.fields)
       /\ (ForcedToolChoice(sent.fields) \/ MissingReasoning(sent.messages))
DeepseekAccepts ==
  \A w \in Workers : Translated(w) /\ inflight[w].phase = "sent" =>
    \A fields \in Fields, alias \in Aliases, mentions \in BOOLEAN :
      alias.deepseek => ~Refusable(PreparePayload(fields, inflight[w].chat, alias, mentions), mentions)
===============================================================================
