------------------------------ MODULE FailureRules -----------------------------
(***************************************************************************)
(* error-rules.json: what makes an upstream's failure an invalid key, a    *)
(* rate limit or an unsupported model, how the file reaches the backends,  *)
(* and what a request makes of a failure.                                  *)
(*                                                                         *)
(* A rule is [status, any, all], sets of codes and of words; a template    *)
(* gives each class its rules; a reply is [status, words].  The other      *)
(* watched files are Configuration's: here they only wake the watcher.     *)
(***************************************************************************)
EXTENDS Naturals, FiniteSets, SequencesExt

CONSTANTS
  Slots,        \* backends
  Editors,      \* those that get the edits of the dashboard
  Absent, Broken,   \* what the file may be, besides a configuration
  Builtin,      \* the templates in the code
  Contents,     \* configurations the dashboard or an operator may write
  Providers, Replies,   \* upstreams, and what they may reply: [status, words]
  MaxChanges    \* bound of the writes, for model checking

VARIABLES
  rulesFile,  \* its content
  rules,      \* slot -> the configuration in force, or Down
  unseen,     \* slots whose watcher has not seen the last write
  seen,       \* slots whose watcher has seen it and waits for the lock
  putting,    \* slot -> the configuration it is writing, or Nothing
  writes      \* writes so far

vars == <<rulesFile, rules, unseen, seen, putting, writes>>

Down == [down |-> TRUE]
Nothing == [nothing |-> TRUE]

-------------------------------------------------------------------------------
(* Classification *)

\* A rule without codes takes any status, one without alternatives any words.
Matches(rule, reply) ==
  /\ rule.status = {} \/ reply.status \in rule.status
  /\ rule.all \subseteq reply.words
  /\ rule.any = {} \/ rule.any \cap reply.words # {}

NoRules == [invalid |-> {}, rate_limited |-> {}, model_unsupported |-> {}]

\* The template a provider is bound to, the one of its name, the default one; a file
\* that has none of them leaves the provider without rules.
TemplateFor(cfg, provider) ==
  LET names == (IF provider \in DOMAIN cfg.bindings THEN <<cfg.bindings[provider]>> ELSE <<>>)
               \o <<provider, "default">>
      known == SelectSeq(names, LAMBDA n : n \in DOMAIN cfg.templates)
  IN IF known = <<>> THEN NoRules ELSE cfg.templates[known[1]]

\* The first class with a rule that matches.
Classify(cfg, provider, reply) ==
  LET template == TemplateFor(cfg, provider)
      told == SelectSeq(<<"invalid", "rate_limited", "model_unsupported">>,
                        LAMBDA c : \E rule \in template[c] : Matches(rule, reply))
  IN IF told = <<>> THEN "transient" ELSE told[1]

-------------------------------------------------------------------------------
(* The file *)

\* load_error_rules: what the file says takes the place of the builtin templates.
Loaded == IF rulesFile = Absent THEN Builtin ELSE rulesFile
Loads == rulesFile # Broken

Running(s) == rules[s] # Down

\* reload_error_rules: a broken file leaves what is in force.
Reloaded(s) == IF Loads THEN [rules EXCEPT ![s] = Loaded] ELSE rules

\* A backend starts on the builtin templates when the file is broken.
OnStart == IF Loads THEN Loaded ELSE Builtin

Init ==
  /\ rulesFile \in Contents \cup {Absent, Broken}
  /\ rules = [s \in Slots |-> OnStart]
  /\ unseen = {} /\ seen = {} /\ writes = 0
  /\ putting = [s \in Slots |-> Nothing]

\* update_error_rules: the file is emptied, then filled, and then the rules are in
\* force; the lock of the backend is held from beginning to end.
PutBegins(s, content) ==
  /\ s \in Editors /\ Running(s) /\ putting[s] = Nothing /\ writes < MaxChanges
  /\ putting' = [putting EXCEPT ![s] = content]
  /\ rulesFile' = Broken /\ unseen' = Slots /\ writes' = writes + 1
  /\ UNCHANGED <<rules, seen>>

PutEnds(s) ==
  /\ putting[s] # Nothing
  /\ rulesFile' = putting[s] /\ unseen' = Slots
  /\ rules' = [rules EXCEPT ![s] = putting[s]]
  /\ putting' = [putting EXCEPT ![s] = Nothing]
  /\ UNCHANGED <<seen, writes>>

\* An operator writes or removes the file, or leaves it half written for a moment.
HandEdit(content) ==
  /\ writes < MaxChanges /\ writes' = writes + 1
  /\ rulesFile' = content /\ unseen' = Slots
  /\ UNCHANGED <<rules, seen, putting>>

\* The watcher takes its snapshot, and waits for the lock.
Notice(s) ==
  /\ Running(s) /\ s \in unseen \ seen
  /\ seen' = seen \cup {s} /\ unseen' = unseen \ {s}
  /\ UNCHANGED <<rulesFile, rules, putting, writes>>

HotReload(s) ==
  /\ s \in seen /\ putting[s] = Nothing
  /\ rules' = Reloaded(s)
  /\ seen' = seen \ {s}
  /\ UNCHANGED <<rulesFile, unseen, putting, writes>>

Crash(s) ==
  /\ Running(s)
  /\ rules' = [rules EXCEPT ![s] = Down]
  /\ seen' = seen \ {s} /\ putting' = [putting EXCEPT ![s] = Nothing]
  /\ UNCHANGED <<rulesFile, unseen, writes>>

\* The rules are loaded and the watcher takes its first snapshot; a write between the
\* two, which it would not notice, is left out.
Start(s) ==
  /\ ~Running(s)
  /\ rules' = [rules EXCEPT ![s] = OnStart]
  /\ unseen' = unseen \ {s}
  /\ UNCHANGED <<rulesFile, seen, putting, writes>>

Next ==
  \/ \E s \in Slots : \/ \E content \in Contents : PutBegins(s, content)
                      \/ PutEnds(s) \/ Notice(s) \/ HotReload(s) \/ Crash(s) \/ Start(s)
  \/ \E content \in Contents \cup {Absent, Broken} : HandEdit(content)

Spec == Init /\ [][Next]_vars

-------------------------------------------------------------------------------
(* Properties *)

TypeOK ==
  /\ rulesFile \in Contents \cup {Absent, Broken}
  /\ \A s \in Slots : rules[s] \in Contents \cup {Builtin, Down}
  /\ seen \subseteq {s \in Slots : Running(s)} /\ unseen \subseteq Slots
  /\ writes \in 0 .. MaxChanges

\* A backend whose watcher has nothing left to look at judges every failure by the file,
\* if that can be read: no order of writes, polls, broken files and restarts leaves it
\* on old rules.  (hot_reload.rs:64, state/mod.rs:464)
Converged ==
  \A s \in Slots :
    (Running(s) /\ s \notin unseen \cup seen /\ putting[s] = Nothing /\ Loads) =>
      \A p \in Providers, reply \in Replies :
        Classify(rules[s], p, reply) = Classify(Loaded, p, reply)
===============================================================================
