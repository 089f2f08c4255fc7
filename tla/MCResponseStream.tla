--------------------------- MODULE MCResponseStream ---------------------------
(* Values of the constants of ResponseStream for TLC. *)
EXTENDS ResponseStream

Delta(type, index, size) == [type |-> type, index |-> index, size |-> size]
Ending(reason) == [type |-> "finish", reason |-> reason]
Chunk(parts) == [parts |-> parts, error |-> FALSE]

think == Delta("think", 0, 1)
text == Delta("text", 0, 1)

\* A tool call is announced without arguments or with its first ones; an
\* upstream may send the end with the last text.
Chunks ==
  {Chunk(<<>>), Chunk(<<think>>), Chunk(<<text>>), Chunk(<<think, text>>),
   Chunk(<<Delta("tool", 0, 0)>>), Chunk(<<Delta("tool", 0, 1), Delta("tool", 1, 1)>>),
   Chunk(<<Ending("stop")>>), Chunk(<<text, Ending("length")>>),
   [parts |-> <<>>, error |-> TRUE]}

FewChunks == {Chunk(<<text>>), Chunk(<<Ending("stop")>>)}

\* Of three chunks a chat completion has every shape the handler tells apart;
\* five events are the shortest whole answer with an item in it.
Lengths == [translate |-> 3, passthrough |-> 5]

EveryMode ==
  {<<"responses", "translate">>, <<"responses", "passthrough">>, <<"messages", "passthrough">>}
MessagesTranslated == {<<"messages", "translate">>}
===============================================================================
