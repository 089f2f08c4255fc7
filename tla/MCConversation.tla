---------------------------- MODULE MCConversation ----------------------------
(* Values of the constants of Conversation for TLC. *)
EXTENDS Conversation

SomeNames == {"q", "i", "a", "b", "c", "d", "e", "t", "c1", "c2"}

Text(id) == [type |-> "text", id |-> id]
Image(id) == [type |-> "image", id |-> id]
Use(id) == [type |-> "tool_use", id |-> id]
Result(id) == [type |-> "tool_result", id |-> id]
Thought == [type |-> "thinking", id |-> "t"]
Says(role, parts) == Item("message", role, parts, NoId)
Calls(id) == Item("function_call", "assistant", <<>>, id)
Returns(id) == Item("function_call_output", "user", <<>>, id)
Other == Item("other", "user", <<>>, NoId)
Unfamiliar == [type |-> "other", id |-> NoId]
Turn(role, blocks) == [role |-> role, blocks |-> blocks]

Ask(api, payload, instructions) ==
  [api |-> api, payload |-> payload, instructions |-> instructions]

File(type) == [type |-> type, id |-> "i"]

\* A whole turn with a call and its result sent again; the results of the calls of the
\* answer before and a question, with instructions before them; the same with a file; a
\* Messages request whose blocks change between texts, images, thoughts and tools, and one
\* with a file.  Among them is what the router skips.
SomeAsks ==
  {Ask("responses", <<Says("user", <<Text("q"), Image("i")>>),
                      Item("reasoning", "assistant", <<>>, NoId),
                      Item("builtin_call", "assistant", <<>>, NoId), Calls("c"), Other,
                      Returns("c")>>, TRUE),
   Ask("responses", <<Returns("c1"), Returns("c2"), Says("user", <<Text("q")>>)>>, TRUE),
   Ask("responses", <<Returns("c1"), Returns("c2"),
                      Says("user", <<Text("q"), File("input_file")>>)>>, FALSE),
   Ask("messages", <<Turn("user", <<Text("a"), Image("i"), Text("b")>>),
                     Turn("assistant", <<Thought, Text("b"), Unfamiliar, Use("c"), Use("d")>>),
                     Turn("user", <<Result("c"), Result("d"), Text("e")>>)>>, FALSE),
   Ask("messages", <<Turn("user", <<Text("q"), File("document")>>)>>, FALSE)}

\* What the theorem about results and their calls asks of requests.
ASSUME OrderlyAsks == \A ask \in SomeAsks : Orderly(ask)

SomeRoutes == {<<"native", "chat">>, <<"chat">>}

\* One answer with all parts, and one that ran out of tokens thinking: streamed, it
\* leaves nothing to go on from.
SomeAnswers ==
  {[reasoning |-> TRUE, text |-> TRUE, calls |-> <<"c1", "c2">>, cut |-> FALSE],
   [reasoning |-> TRUE, text |-> FALSE, calls |-> <<>>, cut |-> TRUE]}

Symmetric == Permutations(Slots)

SomeFields ==
  [effort : {"high"}, thinking : {"absent", "disabled"},
   format : {"absent", "json_schema"}, n : {"absent"},
   choice : {"auto", "required"}]

Alias(efforts, params) == [efforts |-> efforts, params |-> params, deepseek |-> TRUE]
SomeAliases ==
  {Alias([high |-> "absent"], [effort |-> "low"]),
   Alias([high |-> "max"], [thinking |-> "enabled", n |-> "many", format |-> "json_object"])}
===============================================================================
