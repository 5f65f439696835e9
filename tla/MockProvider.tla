---------------------------- MODULE MockProvider ----------------------------
(***************************************************************************)
(* agentic/providers.py: what MockProvider.complete answers to a batch of  *)
(* prompts, a pure function of its two tables.  fail_on maps keys to error *)
(* types, responses maps keys to texts; a key is one exact prompt or a     *)
(* shell pattern.                                                          *)
(*                                                                         *)
(* A prompt is what agents.py builds of a step: the step it is for and the *)
(* type of the agent, whose prefix ("retrieve:", ...) starts the text.  Of *)
(* a text only what Agent.execute tells apart is kept.                     *)
(*                                                                         *)
(* An operator X_Mistake is X with one plausible mistake: see              *)
(* AgenticSystem.tla.                                                      *)
(***************************************************************************)
EXTENDS Integers, Sequences

AgentType == {"retriever", "analyzer", "writer"}

(* "ok" is not raised: it stands for no failure.                           *)
Error == {"transient", "permanent", "other"}

(* A blank text is refused as the output of an OK result; one that starts  *)
(* with "[degraded]" is taken for the batcher's fallback.                  *)
Text == {"plain", "degraded_looking", "blank"}

Prompt(s, type) == [step |-> s, type |-> type]

(* The keys, and the patterns in the order sorted() gives them: "*" comes  *)
(* before "analyze:*", "retrieve:*" and "write:*".                         *)
SortedPatterns == <<"*", "analyzer", "retriever", "writer">>
Exactly(p) == <<"exact", p.step>>
Pattern(g) == <<"pattern", g>>

(* fnmatchcase of a prompt against a pattern.                              *)
Matches(g, p) == g = "*" \/ g = p.type

(* The exact-then-pattern lookup that _match_failure and _resolve share;   *)
(* default is None for the first and the synthetic text for the second.    *)
Lookup(table, p, default) ==
    LET hits == {i \in DOMAIN SortedPatterns :
                    /\ Pattern(SortedPatterns[i]) \in DOMAIN table
                    /\ Matches(SortedPatterns[i], p)}
    IN  IF Exactly(p) \in DOMAIN table THEN table[Exactly(p)]
        ELSE IF hits = {} THEN default
        ELSE table[Pattern(SortedPatterns[CHOOSE i \in hits : \A j \in hits : i <= j])]

MatchFailure(failOn, p) == Lookup(failOn, p, "ok")
Resolve(responses, p)   == Lookup(responses, p, "plain")

(* The last failing prompt decides.                                        *)
Complete_LastFails(failOn, prompts) ==
    LET failing == {i \in DOMAIN prompts : MatchFailure(failOn, prompts[i]) # "ok"}
    IN  IF failing = {} THEN "ok"
        ELSE MatchFailure(failOn,
                          prompts[CHOOSE i \in failing : \A j \in failing : i >= j])

(* complete: the error of the first prompt that fails, or "ok" when every  *)
(* prompt gets its completion, in order.                                   *)
Complete(failOn, prompts) ==
    LET failing == {i \in DOMAIN prompts : MatchFailure(failOn, prompts[i]) # "ok"}
    IN  IF failing = {} THEN "ok"
        ELSE MatchFailure(failOn,
                          prompts[CHOOSE i \in failing : \A j \in failing : i <= j])
=============================================================================
