--------------------------- MODULE RuleEvaluation ---------------------------
(***************************************************************************)
(* The window rules of crates/wm-rules/src/lib.rs: RuleEngine::new sorts   *)
(* them by priority, evaluate walks what it made once.  A rule is          *)
(* [priority, matches, actions, stop], where matches is the set of         *)
(* metadata that contains the rule's two literals.                         *)
(***************************************************************************)
EXTENDS Naturals, Sequences, FiniteSets, SequencesExt

\* sort_by_key is stable: rules of one priority keep the order of the source.
Precedes(rules, i, j) ==
  \/ rules[i].priority < rules[j].priority
  \/ rules[i].priority = rules[j].priority /\ i < j

\* The sorted rules, each as its place in the source: k - 1 of them come before
\* the k-th.
RuleOrder(rules) ==
  [k \in DOMAIN rules |->
     CHOOSE i \in DOMAIN rules :
       Cardinality({j \in DOMAIN rules : Precedes(rules, j, i)}) = k - 1]

RuleEngine(rules) ==
  LET order == RuleOrder(rules)
  IN  [k \in DOMAIN rules |-> rules[order[k]]]

\* The loop of evaluate: what has been collected, and whether a rule has
\* stopped it.
Evaluate(engine, metadata) ==
  LET Step(collected, rule) ==
        IF collected.stopped \/ metadata \notin rule.matches
        THEN collected
        ELSE [actions |-> collected.actions \o rule.actions, stopped |-> rule.stop]
  IN  FoldLeft(Step, [actions |-> <<>>, stopped |-> FALSE], engine).actions

-----------------------------------------------------------------------------
\* What the actions of a rule depend on, without an order of evaluation: it
\* acts when it matches and no matching rule that comes before it stops.
Acts(rules, metadata, j) ==
  /\ metadata \in rules[j].matches
  /\ \A i \in DOMAIN rules :
       Precedes(rules, i, j) /\ metadata \in rules[i].matches => ~rules[i].stop

\* One action of its own per rule names the rule: the result lists exactly the
\* acting rules, each once, higher priorities (lower numbers) first.
EvaluatesAsSpecified(rules, metadata) ==
  LET named == [i \in DOMAIN rules |-> [rules[i] EXCEPT !.actions = <<i>>]]
      result == Evaluate(RuleEngine(named), metadata)
  IN  /\ ToSet(result) = {j \in DOMAIN rules : Acts(rules, metadata, j)}
      /\ \A k, l \in DOMAIN result : k < l => Precedes(rules, result[k], result[l])
=============================================================================
