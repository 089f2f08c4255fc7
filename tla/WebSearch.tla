------------------------------- MODULE WebSearch ------------------------------
(***************************************************************************)
(* POST /v1/search: a plan made under the lock of the pool, then the       *)
(* engines of a headless Chrome one after another in a shared budget, and  *)
(* the pool of API keys when they found nothing.                           *)
(*                                                                         *)
(* A provider is its name and its keys in the order they are drawn from.   *)
(* Pages and answers are abstracted to found, empty and failed.            *)
(***************************************************************************)
EXTENDS Selection

CONSTANTS
  Workers,      \* searches at a time
  Requested,    \* what a request may name as its provider, and None
  Contents,     \* what the configuration file may hold
  Broken,       \* the content of a half-written file
  None,
  Budget,       \* polls the engines of a search have between them
  MaxLost, MaxEdits   \* bounds, for model checking

VARIABLES
  file,    \* search-providers.json, or Absent, or Broken
  search,  \* worker -> the search it is at
  tabs,    \* open tabs of the browser
  lost,    \* those that no running search will close (history)
  put,     \* the update of the dashboard between its two lock sections, or NoPut
  edits    \* changes of the file so far

vars == <<file, search, tabs, lost, put, edits>>

Absent == [absent |-> TRUE]
NoPut == [none |-> TRUE]
Unset == [unset |-> TRUE]
EmptyFile == [chrome |-> Unset, providers |-> <<>>]
KnownProviders == {"tavily", "exa", "brave"}
KnownEngines == {"google", "bing"}

-------------------------------------------------------------------------------
(* Configuration *)

\* The pool keeps no copy: without a readable file there is the empty default.
Get == IF file \in {Absent, Broken} THEN EmptyFile ELSE file

ChromeConfig == IF Get.chrome = Unset THEN [enabled |-> TRUE, engines |-> <<>>] ELSE Get.chrome
EnginesOrDefault(chrome) ==
  IF chrome.engines = <<>> THEN <<"google", "bing">> ELSE chrome.engines

\* A missing file is written by whoever reads it first.
Materialised == file' = IF file = Absent THEN EmptyFile ELSE file

AvailableKeys(provider) ==
  FlattenSeq([i \in DOMAIN provider.keys |->
    LET k == provider.keys[i]
    IN IF k.enabled /\ k.weight > 0 /\ k.configured THEN <<k>> ELSE <<>>])

ProviderNames == {p.name : p \in ToSet(Get.providers)}

\* Those of the providers named that have a key to draw, as weighted items.
Offer(names) ==
  FlattenSeq([i \in DOMAIN Get.providers |->
    LET p == Get.providers[i]
        keys == AvailableKeys(p)
    IN IF p.name \in names /\ keys # <<>>
       THEN <<[name |-> p.name, keys |-> keys, weight |-> Total(keys)]>> ELSE <<>>])

\* Mutant of Candidates: the name that was asked for does not matter.
CandidatesAny(requested) == Offer(ProviderNames)

\* All of them, or the one that was asked for.
Candidates(requested) ==
  Offer({n \in ProviderNames : requested \in {None, "auto", n}})

\* A provider is drawn by the weight of all its keys, then one of them by its own.
PickProviderKey(requested, draw, keyDraw) ==
  LET candidates == Candidates(requested)
      provider == IF requested \in {None, "auto"} THEN candidates[Drawn(candidates, draw)]
                  ELSE candidates[1]
  IN [provider |-> provider.name, key |-> provider.keys[Drawn(provider.keys, keyDraw)].name]

\* What may be drawn; nothing when the request or the file names an unknown
\* provider, or no key is there.
Picks(requested) ==
  LET candidates == Candidates(requested)
  IN IF \/ requested \notin KnownProviders \cup {None, "auto"}
        \/ \E p \in ToSet(Get.providers) : p.name \notin KnownProviders
        \/ candidates = <<>>
     THEN {}
     ELSE UNION {{PickProviderKey(requested, d, k) :
                    k \in 0 .. ((IF requested \in {None, "auto"}
                                 THEN candidates[Drawn(candidates, d)].weight
                                 ELSE candidates[1].weight) - 1)} :
                 d \in 0 .. (Total(candidates) - 1)}

-------------------------------------------------------------------------------
(* The handler *)

Idle == [at |-> "idle"]
Answered(s, by, found) == [asked |-> s.asked, at |-> "answered", by |-> by, found |-> found,
                           plan |-> s.plan, failed |-> s.failed, pool |-> s.pool]

New(requested, at, plan) ==
  [asked |-> requested, at |-> at, plan |-> plan, engines |-> plan, left |-> Budget,
   page |-> "none", failed |-> {}, pool |-> "untried", target |-> None]

Explicit(requested) == requested \in {"chrome"} \cup KnownEngines

\* Chrome when it is named, or when nothing is named and it is on; the pool for any
\* other name, "auto" too.
Resolve(requested) ==
  LET chrome == ChromeConfig
      engines == IF requested \in KnownEngines THEN <<requested>> ELSE EnginesOrDefault(chrome)
      unplanned == New(requested, "pool", <<>>)
  IN IF Explicit(requested) /\ ~chrome.enabled THEN {Answered(unplanned, "503", FALSE)}
     ELSE IF Explicit(requested) \/ (requested = None /\ chrome.enabled)
     THEN {New(requested, "connect", engines)}
     ELSE IF Picks(requested) = {} THEN {Answered(unplanned, "503", FALSE)}
     ELSE {[unplanned EXCEPT !.at = "execute", !.target = t] : t \in Picks(requested)}

Set(w, s) == search' = [search EXCEPT ![w] = s]

Ask(w, requested) ==
  /\ search[w] = Idle
  /\ \E s \in Resolve(requested) : Set(w, s)
  /\ Materialised
  /\ UNCHANGED <<tabs, lost, put, edits>>

\* The search of the engines is over without results.
Unfound(s) == [s EXCEPT !.at = "fallback", !.page = "none", !.engines = <<>>]

Connect(w) ==
  LET s == search[w]
  IN /\ s.at = "connect"
     /\ \/ Set(w, [s EXCEPT !.at = "engine"])
        \/ Set(w, [Unfound(s) EXCEPT !.failed = ToSet(s.plan)])
     /\ UNCHANGED <<file, tabs, lost, put, edits>>

NextEngine(s) == [s EXCEPT !.at = "engine", !.failed = @ \cup {Head(s.engines)},
                           !.engines = Tail(@), !.page = "none"]

\* The tab for the next engine; an unknown one is passed over.  A command that timed
\* out may have opened a tab whose id nobody learns.
OpenTab(w) ==
  LET s == search[w]
  IN /\ s.at = "engine" /\ s.engines # <<>>
     /\ \/ /\ Head(s.engines) \in KnownEngines
           /\ \E left \in 0 .. s.left : Set(w, [s EXCEPT !.at = "render", !.left = left])
           /\ tabs' = tabs + 1
           /\ UNCHANGED lost
        \/ Set(w, NextEngine(s)) /\ UNCHANGED <<tabs, lost>>
        \/ /\ Head(s.engines) \in KnownEngines /\ lost < MaxLost
           /\ Set(w, NextEngine(s)) /\ tabs' = tabs + 1 /\ lost' = lost + 1
     /\ UNCHANGED <<file, put, edits>>

NoEngineLeft(w) ==
  LET s == search[w]
  IN /\ s.at = "engine" /\ s.engines = <<>>
     /\ Set(w, Unfound(s))
     /\ UNCHANGED <<file, tabs, lost, put, edits>>

\* One poll: the deadline, the results, a failed command, or later again.
Render(w) ==
  LET s == search[w]
  IN /\ s.at = "render"
     /\ \/ s.left = 0 /\ Set(w, [s EXCEPT !.at = "close", !.page = "timeout"])
        \/ s.left > 0 /\ \E page \in {"found", "empty", "failed"} :
                           Set(w, [s EXCEPT !.at = "close", !.page = page])
        \/ s.left > 0 /\ Set(w, [s EXCEPT !.left = @ - 1])
     /\ UNCHANGED <<file, tabs, lost, put, edits>>

\* Mutant of CloseTab: a failed command returns before the tab is closed.
CloseTabUnlessFailed(w) ==
  LET s == search[w]
  IN /\ s.at = "close"
     /\ Set(w, IF s.page = "found" THEN Answered(s, Head(s.engines), TRUE) ELSE NextEngine(s))
     /\ \/ tabs' = (IF s.page = "failed" THEN tabs ELSE tabs - 1) /\ UNCHANGED lost
        \/ lost < MaxLost /\ lost' = lost + 1 /\ UNCHANGED tabs
     /\ UNCHANGED <<file, put, edits>>

\* The tab is closed however it went; whether that worked is not looked at.
CloseTab(w) ==
  LET s == search[w]
  IN /\ s.at = "close"
     /\ Set(w, IF s.page = "found" THEN Answered(s, Head(s.engines), TRUE) ELSE NextEngine(s))
     /\ \/ tabs' = tabs - 1 /\ UNCHANGED lost
        \/ lost < MaxLost /\ lost' = lost + 1 /\ UNCHANGED tabs
     /\ UNCHANGED <<file, put, edits>>

\* Who named the engine gets its failure; the others the pool, looked up again.
Fallback(w) ==
  LET s == search[w]
  IN /\ s.at = "fallback"
     /\ \/ Explicit(s.asked) /\ Set(w, Answered(s, "503", FALSE)) /\ UNCHANGED file
        \/ /\ ~Explicit(s.asked)
           /\ Materialised
           /\ \/ /\ Picks(s.asked) = {}
                 /\ Set(w, Answered([s EXCEPT !.pool = "none"], "503", FALSE))
              \/ \E t \in Picks(s.asked) : Set(w, [s EXCEPT !.at = "execute", !.target = t])
     /\ UNCHANGED <<tabs, lost, put, edits>>

\* The provider answers.  After Chrome an empty answer is a failure, at once it is not.
Execute(w) ==
  LET s == search[w]
      by == s.target.provider
      fellBack == s.plan # <<>>
  IN /\ s.at = "execute"
     /\ \E reply \in {"found", "empty", "failed"} :
          Set(w, IF reply = "found" \/ (reply = "empty" /\ ~fellBack)
                 THEN Answered(s, by, reply = "found")
                 ELSE Answered([s EXCEPT !.pool = reply], "503", FALSE))
     /\ UNCHANGED <<file, tabs, lost, put, edits>>

\* A client that goes away takes the handler with it, wherever it awaits something.
Leave(w) ==
  LET open == search[w].at \in {"render", "close"}
  IN /\ search[w].at \notin {"idle", "answered"}
     /\ open => lost < MaxLost
     /\ lost' = IF open THEN lost + 1 ELSE lost
     /\ Set(w, Idle)
     /\ UNCHANGED <<file, tabs, put, edits>>

Done(w) == search[w].at = "answered" /\ Set(w, Idle) /\ UNCHANGED <<file, tabs, lost, put, edits>>

-------------------------------------------------------------------------------
(* Changes of the file *)

\* The dashboard sends a file with or without a section for Chrome: without, the one
\* there is is read first, and kept.
PutBegins(content, withChrome) ==
  /\ put = NoPut /\ edits < MaxEdits
  /\ \A p \in ToSet(content.providers) : p.name \in KnownProviders
  /\ put' = [content |-> [content EXCEPT !.chrome = IF withChrome THEN @ ELSE Get.chrome]]
  /\ IF withChrome THEN UNCHANGED file ELSE Materialised
  /\ edits' = edits + 1
  /\ UNCHANGED <<search, tabs, lost>>

PutWrites ==
  /\ put # NoPut
  /\ file' = put.content /\ put' = NoPut
  /\ UNCHANGED <<search, tabs, lost, edits>>

\* An operator saves the file by hand: it is half written for a moment.
HandEdit ==
  /\ edits < MaxEdits
  /\ \E content \in Contents \cup {Absent, Broken} : content # file /\ file' = content
  /\ edits' = edits + 1
  /\ UNCHANGED <<search, tabs, lost, put>>

Init ==
  /\ file \in Contents
  /\ search = [w \in Workers |-> Idle]
  /\ tabs = 0 /\ lost = 0 /\ put = NoPut /\ edits = 0

Next ==
  \/ \E w \in Workers : \/ \E requested \in Requested : Ask(w, requested)
                        \/ Connect(w) \/ OpenTab(w) \/ NoEngineLeft(w) \/ Render(w) \/ CloseTab(w)
                        \/ Fallback(w) \/ Execute(w) \/ Leave(w) \/ Done(w)
  \/ \E content \in Contents, withChrome \in BOOLEAN : PutBegins(content, withChrome)
  \/ PutWrites \/ HandEdit

Spec == Init /\ [][Next]_vars

-------------------------------------------------------------------------------
(* Properties *)

TypeOK ==
  /\ file \in Contents \cup {Absent, Broken, EmptyFile}
       \cup {[c EXCEPT !.chrome = d.chrome] : c, d \in Contents \cup {EmptyFile}}
  /\ \A w \in Workers : search[w].at \in {"idle", "connect", "engine", "render", "close",
                                          "fallback", "execute", "answered"}
  /\ tabs \in Nat /\ lost \in 0 .. MaxLost /\ edits \in 0 .. MaxEdits

\* Every open tab belongs to a search that will close it, but for those of searches cut
\* off, and of commands that failed: no path of the handler forgets one.
TabsReturned ==
  tabs = lost + Cardinality({w \in Workers : search[w].at \in {"render", "close"}})

\* Who names an engine or a provider is answered by it or told 503; an engine answers only
\* after those planned before it have failed; the pool answers in place of Chrome, and a
\* search that names none is refused, only after every engine of the plan has failed, and
\* then the pool, too.
AnswersHonest ==
  \A w \in Workers :
    LET s == search[w]
    IN s.at = "answered" =>
         /\ s.asked \in KnownEngines \cup KnownProviders => s.by \in {s.asked, "503"}
         /\ s.asked = "chrome" => s.by \in KnownEngines \cup {"503"}
         /\ s.by \in KnownEngines =>
              s.found /\ \E i \in DOMAIN s.plan :
                           s.plan[i] = s.by /\ \A j \in 1 .. (i - 1) : s.plan[j] \in s.failed
         /\ s.plan # <<>> /\ s.by \notin KnownEngines => ToSet(s.plan) \subseteq s.failed
         /\ s.asked = None /\ s.plan # <<>> /\ s.by = "503" => s.pool # "untried"

===============================================================================
