------------------------------ MODULE Translation -----------------------------
(***************************************************************************)
(* The request and answer translations between the three protocols: an     *)
(* Anthropic Messages request becomes a Responses request, a Responses     *)
(* request becomes a chat completion request, and a chat answer goes back  *)
(* the same way.  Texts, images, tools and calls are named by identifiers; *)
(* a refused request is Refused.                                           *)
(*                                                                         *)
(* A Messages message is [role, blocks], a block [type, id].  A Responses  *)
(* item is [type, role, parts, id], a part again [type, id].  A chat       *)
(* message is [role, parts, calls, id].                                    *)
(***************************************************************************)
EXTENDS Naturals, Sequences, SequencesExt

CONSTANTS Refused

Item(type, role, parts, id) == [type |-> type, role |-> role, parts |-> parts, id |-> id]
ChatMessage(role, parts, calls, id) ==
  [role |-> role, parts |-> parts, calls |-> calls, id |-> id]
NoId == "none"

Has(seq, types) == \E i \in DOMAIN seq : seq[i].type \in types

\* What of a sequence is in a set, in order; as a concatenation, which unlike SelectSeq
\* can be reasoned about.
Only(seq, good) == FlattenSeq([i \in DOMAIN seq |-> IF seq[i] \in good THEN <<seq[i]>> ELSE <<>>])

-------------------------------------------------------------------------------
(* messages_to_responses *)

\* flush_message
Flush(st, role) ==
  IF st.parts = <<>> THEN st
  ELSE [items |-> Append(st.items, Item("message", role, st.parts, NoId)), parts |-> <<>>]

\* Mutant of TranslateBlock: a call does not close the message before it.
TranslateBlockUnflushed(st, role, b) ==
  CASE b.type \in {"text", "image"} -> [st EXCEPT !.parts = Append(@, b)]
    [] b.type = "tool_use" ->
         [st EXCEPT !.items = Append(@, Item("function_call", role, <<>>, b.id))]
    [] b.type = "tool_result" ->
         [Flush(st, role) EXCEPT
            !.items = Append(@, Item("function_call_output", role, <<>>, b.id))]
    [] b.type \in {"thinking", "document", "other"} -> st

\* Texts and images gather in one message; a tool block closes it, so that the
\* order is kept.  Thinking is dropped, and so is a block of a type the router does
\* not know ("other"); a document refuses the whole request, see MessagesToInput.
TranslateBlock(st, role, b) ==
  CASE b.type \in {"text", "image"} -> [st EXCEPT !.parts = Append(@, b)]
    [] b.type = "tool_use" ->
         [Flush(st, role) EXCEPT !.items = Append(@, Item("function_call", role, <<>>, b.id))]
    [] b.type = "tool_result" ->
         [Flush(st, role) EXCEPT
            !.items = Append(@, Item("function_call_output", role, <<>>, b.id))]
    [] b.type \in {"thinking", "document", "other"} -> st

TranslateMessage(m) ==
  Flush(FoldLeft(LAMBDA st, b : TranslateBlock(st, m.role, b),
                 [items |-> <<>>, parts |-> <<>>], m.blocks),
        m.role).items

MessagesToInput(msgs) ==
  LET input == FlattenSeq([i \in DOMAIN msgs |-> TranslateMessage(msgs[i])])
  IN IF input = <<>> \/ \E i \in DOMAIN msgs : Has(msgs[i].blocks, {"document"})
     THEN Refused ELSE input

-------------------------------------------------------------------------------
(* responses_to_chat *)

\* An item of any other type is a message when it has content; reasoning, the calls of
\* built-in tools and items without content ("other") are skipped.
TranslateItem(item) ==
  CASE item.type = "function_call" -> <<ChatMessage("assistant", <<>>, <<item.id>>, NoId)>>
    [] item.type = "function_call_output" -> <<ChatMessage("tool", <<>>, <<>>, item.id)>>
    [] item.type = "message" -> <<ChatMessage(item.role, item.parts, <<>>, NoId)>>
    [] item.type \in {"reasoning", "builtin_call", "other"} -> <<>>

Instructions == ChatMessage("system", <<>>, <<>>, NoId)
SystemMessage(instructions) == IF instructions THEN <<Instructions>> ELSE <<>>

InputToChat(items, instructions) ==
  LET messages == SystemMessage(instructions)
                    \o FlattenSeq([i \in DOMAIN items |-> TranslateItem(items[i])])
  IN IF messages = <<>> \/ \E i \in DOMAIN items : Has(items[i].parts, {"input_file"})
     THEN Refused ELSE messages

-------------------------------------------------------------------------------
(* Answers: a chat answer is [reasoning, text, calls, cut], all BOOLEAN but   *)
(* the calls; one that is cut ran out of tokens                               *)

AnswerText == [type |-> "text", id |-> "answer"]

\* chat_to_responses: the reasoning, the message, the calls.
AnswerToOutput(a) ==
  (IF a.reasoning THEN <<Item("reasoning", "assistant", <<>>, NoId)>> ELSE <<>>)
  \o (IF a.text THEN <<Item("message", "assistant", <<AnswerText>>, NoId)>> ELSE <<>>)
  \o [i \in DOMAIN a.calls |-> Item("function_call", "assistant", <<>>, a.calls[i])]

\* responses_to_messages: the same as blocks of a Messages answer.
OutputToBlocks(output) ==
  LET blocks(item) ==
        CASE item.type = "reasoning" -> <<[type |-> "thinking", id |-> item.id]>>
          [] item.type = "message" -> item.parts
          [] item.type = "function_call" -> <<[type |-> "tool_use", id |-> item.id]>>
  IN FlattenSeq([i \in DOMAIN output |-> blocks(output[i])])

\* Only a streamed answer says that it was cut short; one that is translated as a whole
\* is always "completed".
Status(a, stream) == IF stream /\ a.cut THEN "incomplete" ELSE "completed"

StopReason(output, status) ==
  IF status = "incomplete" THEN "max_tokens"
  ELSE IF Has(output, {"function_call"}) THEN "tool_use" ELSE "end_turn"

\* assistant_chat_messages: one message, however little the answer says.
History(a) ==
  <<ChatMessage("assistant", IF a.text THEN <<AnswerText>> ELSE <<>>, a.calls, NoId)>>

\* history_from_output: of an answer without text or calls there is nothing to
\* go on from.
HistoryFromOutput(output) ==
  LET calls == Only(output, {item \in ToSet(output) : item.type = "function_call"})
      text == Has(output, {"message"})
  IN IF ~text /\ calls = <<>> THEN <<>>
     ELSE History([text |-> text, calls |-> [i \in DOMAIN calls |-> calls[i].id]])

-------------------------------------------------------------------------------
(* prepare_upstream_payload: fields is [effort, thinking, format, n, choice], *)
(* "absent" where the request has none                                        *)

Standard == {"off", "minimal", "low", "medium", "high", "xhigh"}

\* translate_reasoning_effort: the levels the model maps, "absent" for one it
\* does not support; a level outside the standard is taken for xhigh.
TranslateEffort(effort, map) ==
  CASE effort = "absent" -> effort
    [] effort \in DOMAIN map -> map[effort]
    [] effort \in Standard \ DOMAIN map -> effort
    [] OTHER -> IF "xhigh" \in DOMAIN map THEN map["xhigh"] ELSE "xhigh"

\* The model's params fill what the client left out.
WithDefaults(fields, params) ==
  [f \in DOMAIN fields |->
     IF fields[f] = "absent" /\ f \in DOMAIN params THEN params[f] ELSE fields[f]]

ForcedToolChoice(fields) == fields.choice \in {"required", "function"}
MissingReasoning(messages) ==
  \E i \in DOMAIN messages : messages[i].role = "assistant" /\ messages[i].calls # <<>>
ThinkingEnabled(fields) == fields.thinking # "disabled"
WantsJson(fields) == fields.format \in {"json_object", "json_schema"}

\* ensure_json_hint, unless the prompt says "json" by itself.
JsonHint(messages, mentions) ==
  IF mentions THEN messages ELSE <<ChatMessage("system", <<>>, <<>>, "json")>> \o messages

\* normalize_deepseek_official
Normalize(fields, messages, mentions) ==
  LET rejects == ForcedToolChoice(fields) \/ MissingReasoning(messages)
  IN [fields |-> [fields EXCEPT
                    !.format = IF @ = "json_schema" THEN "json_object" ELSE @,
                    !.n = IF @ = "many" THEN "one" ELSE @,
                    !.thinking = IF ThinkingEnabled(fields) /\ rejects THEN "disabled" ELSE @],
      messages |-> IF WantsJson(fields) THEN JsonHint(messages, mentions) ELSE messages]

\* Mutant of PreparePayload: the params of the model come after the normalisation.
PreparePayloadLate(fields, messages, model, mentions) ==
  LET named == [fields EXCEPT !.effort = TranslateEffort(@, model.efforts)]
      sent == IF model.deepseek THEN Normalize(named, messages, mentions)
              ELSE [fields |-> named, messages |-> messages]
  IN [sent EXCEPT !.fields = WithDefaults(@, model.params)]

PreparePayload(fields, messages, model, mentions) ==
  LET named == [fields EXCEPT !.effort = TranslateEffort(@, model.efforts)]
      full == WithDefaults(named, model.params)
  IN IF model.deepseek THEN Normalize(full, messages, mentions)
     ELSE [fields |-> full, messages |-> messages]
===============================================================================
