------------------------------- MODULE MCServices -----------------------------
(***************************************************************************)
(* The values of Services for TLC.  One run explores the parts one after   *)
(* another.                                                                *)
(***************************************************************************)
EXTENDS Services, SequencesExt, TLC

\* Searches, and lookups, are told apart by nothing.
Interchangeable == Permutations(Searches) \cup Permutations(Lookups)

-------------------------------------------------------------------------------
(* Configuration *)

T(name) == [model |-> name, enabled |-> TRUE, keys |-> {}]
Off(name) == [T(name) EXCEPT !.enabled = FALSE]
For(name, keys) == [T(name) EXCEPT !.keys = keys]
OfKeys(on) == [url |-> TRUE, keys |-> on]
Physical(id) == [provider |-> Head(id), upstream |-> Tail(id), image |-> "unset", window |-> -1]
Pool(targets) == [targets |-> targets, legacy |-> FALSE]

\* A pool with a physical model, a pool with that pool and a virtual model.
SomeFiles ==
  [providers |-> ("p" :> OfKeys([k1 |-> TRUE, k2 |-> FALSE])) @@ ("q" :> OfKeys([k1 |-> TRUE])),
   models |-> (<<"p", "m">> :> Physical(<<"p", "m">>)) @@ (<<"q", "m">> :> Physical(<<"q", "m">>)),
   pools |-> (<<"fast">> :> Pool(<<For(<<"p", "m">>, {"k1"}), Off(<<"q", "m">>)>>))
             @@ (<<"main">> :> Pool(<<T(<<"fast">>), T(<<"v">>)>>)),
   virtual |-> <<"v">> :> ("q" :> <<"n">>)]

\* A model whose name in its provider has a slash, as many have: renaming its provider
\* breaks ReferencesKept.  No run uses it; the README says why.
DeepFiles ==
  [SomeFiles EXCEPT !.models = (<<"p", "a", "b">> :> Physical(<<"p", "a", "b">>)) @@ @,
                    !.pools = <<"fast">> :> Pool(<<T(<<"p", "a", "b">>)>>)]

Provide(op, name, new, keys) == [op |-> op, name |-> name, new |-> new, keys |-> keys]
Route(op, name, new, targets) == [op |-> op, name |-> name, new |-> new, targets |-> targets]
Mapping(op, name, p, upstream) == [op |-> op, name |-> name, provider |-> p, upstream |-> upstream]
Limits(register, ids) == [op |-> "set_models", register |-> register, ids |-> ids, window |-> 5]

\* A provider gets another name and loses its key; pools are made, renamed, put in a
\* circle, and deleted; models are registered by name.
SomeRequests ==
  {Provide("update_provider", "p", "r", [k1 |-> FALSE]),
   Provide("create_provider", "p", "p", [k1 |-> TRUE]),
   Route("update_pool", <<"fast">>, <<"quick">>, <<For(<<"q", "n">>, {"k1"}), T(<<"v">>)>>),
   Route("update_pool", <<"fast">>, <<"fast">>, <<T(<<"main">>), T(<<"q", "m">>)>>),
   Route("create_pool", <<"x">>, <<"x">>, <<T(<<"r", "n">>), T(<<"fast">>)>>),
   Route("delete_pool", <<"fast">>, <<"fast">>, <<>>),
   Mapping("map_virtual", <<"v">>, "p", <<"m">>),
   Mapping("unmap_virtual", <<"v">>, "q", <<>>),
   Limits(TRUE, {<<"p", "o">>}),
   Limits(FALSE, {<<"p", "m">>})}

SomeOrder == <<"p", "q", "r">>

-------------------------------------------------------------------------------
(* Usage *)

Key(provider, name, weight, quota) ==
  [provider |-> provider, name |-> name, weight |-> weight, quota |-> quota]
Candidate(model, weight, strategy, keys) ==
  [model |-> model, weight |-> weight, strategy |-> strategy, keys |-> keys]

\* Two keys of one name at two providers, the heavier one with a quota.
K1 == Key("p", 1, 2, 2)
K2 == Key("q", 1, 1, -1)
K3 == Key("p", 2, 1, -1)

SomePools ==
  ("main" :> <<Candidate("m", 1, "priority", <<K1, K3>>), Candidate("n", 1, "priority", <<K2>>)>>)
  @@ ("spread" :> <<Candidate("n", 1, "weighted", <<K2>>), Candidate("m", 2, "weighted", <<K3, K1>>),
                    Candidate("o", 0, "weighted", <<K1>>)>>)
  @@ ("even" :> <<Candidate("m", 1, "usage-aware", <<K1, K3>>), Candidate("n", 1, "usage-aware", <<K2>>)>>)
  @@ ("twice" :> <<Candidate("n", 1, "weighted", <<K2>>), Candidate("n", 1, "weighted", <<K2>>)>>)

ByAlias(alias, session) == [alias |-> alias, session |-> session]
Price(uncached, cached, output) == [uncached |-> uncached, cached |-> cached, output |-> output]
Outcome(ok, prompt, cached, output) ==
  [ok |-> ok, prompt |-> prompt, cached |-> cached, output |-> output]

\* Rows of earlier requests: of a key, and of one that is no more, with more cached
\* than asked.
Row(alias, key, outcome) ==
  outcome @@ [at |-> 0, model |-> alias, key |-> <<key.provider, key.name>>, session |-> -1]
SomeTable == <<Row("even", K1, Outcome(TRUE, 2, 1, 1)),
               Row("spread", Key("q", 3, 1, -1), Outcome(TRUE, 1, 2, 1))>>

SomeAsks == {ByAlias("main", 1), ByAlias("spread", -1), ByAlias("even", -1)}
SomePrices == ("main" :> Price(3, 1, 5)) @@ ("spread" :> Price(2, 1, 4))
SomeOpenings == {{K1, K2, K3}, {K2, K3}}
SomeTables == {SomeTable}
SomeOutcomes == {Outcome(TRUE, 2, 1, 1), Outcome(FALSE, 0, 0, 0)}

-------------------------------------------------------------------------------
(* WebSearch *)

SearchKey(name, weight) == [name |-> name, weight |-> weight, enabled |-> TRUE, configured |-> TRUE]
SearchProvider(name, keys) == [name |-> name, keys |-> keys]
Chrome(enabled, engines) == [enabled |-> enabled, engines |-> engines]

\* Chrome on and off, an engine nobody knows, a provider without a key to draw.
SomeContents ==
  {[chrome |-> [unset |-> TRUE],
    providers |-> <<SearchProvider("exa", <<SearchKey("a", 2)>>),
                    SearchProvider("tavily", <<SearchKey("a", 2), SearchKey("b", 1)>>)>>],
   [chrome |-> Chrome(TRUE, <<"bing", "duck", "bing">>),
    providers |-> <<SearchProvider("brave", <<[SearchKey("a", 1) EXCEPT !.configured = FALSE]>>)>>],
   [chrome |-> Chrome(FALSE, <<>>), providers |-> <<SearchProvider("duck", <<SearchKey("a", 1)>>)>>]}

-------------------------------------------------------------------------------
(* FailureRules *)

Code(codes) == [status |-> codes, any |-> {}, all |-> {}]
Words(any, all) == [status |-> {}, any |-> any, all |-> all]
Template(invalid, limited, unsupported) ==
  [invalid |-> invalid, rate_limited |-> limited, model_unsupported |-> unsupported]
Reply(status, words) == [status |-> status, words |-> words]

ByDefault == Template({Code({401})}, {Code({429})}, {Words({"model"}, {"unsupported"})})
Special == Template({Words({}, {"plan", "expired"})}, {Code({401, 429})}, {})

\* The templates of the code, a file with one more and a binding to one that is not
\* there, and a file without a default.
InCode == [templates |-> "default" :> ByDefault @@ "ark" :> Special, bindings |-> <<>>]
SomeRules ==
  {[templates |-> "default" :> ByDefault @@ "q" :> Special, bindings |-> "p" :> "gone"],
   [templates |-> "ark" :> Special, bindings |-> "p" :> "ark"]}

NoFile == [absent |-> TRUE]
SomeReplies ==
  {Reply(401, {}), Reply(429, {"plan", "expired"}), Reply(400, {"model", "unsupported"})}

-------------------------------------------------------------------------------
(* NameResolution *)

NamesBy(enabled, nameservers, static, life) ==
  [enabled |-> enabled, nameservers |-> nameservers, static |-> static, ttl |-> life]

SomeNames ==
  {NamesBy(TRUE, <<"s1", "s2">>, <<>>, 1), NamesBy(TRUE, <<>>, "h" :> "fixed", 2),
   NamesBy(FALSE, <<"s1">>, <<>>, 1)}
===============================================================================
