----------------------------- MODULE PolicyEngine -----------------------------
(***************************************************************************)
(* The privacy policy: what the loader makes of a document                 *)
(* (privacy/policy/loader.py), what the settings and the adapter make of a *)
(* legacy one (policies/policy_engine.py, privacy/policy/legacy.py), and   *)
(* how the engine decides about a finding (privacy/policy/engine.py).      *)
(*                                                                         *)
(* The conditions of a rule are sets of accepted values for some of the    *)
(* dimensions of a decision, and limits for its two numbers.  A pattern of *)
(* JSON paths is the set of the paths it matches, a digest of a value is   *)
(* the value in its normal form, reasons and obligations are left out.     *)
(***************************************************************************)
EXTENDS Integers, SequencesExt

PrivacyAction ==
    {"ALLOW", "TOKENIZE", "REDACT", "SURROGATE", "GENERALIZE", "HASH", "BLOCK", "REQUIRE_REVIEW"}
Prohibition == {"BLOCK", "REQUIRE_REVIEW"}

EligibleTypes == {"DOMAIN", "EMAIL", "LOCATION", "ORG", "PERSON", "URL"}
KnownTypes == EligibleTypes \cup
    {"API_KEY", "JWT", "CARD_NUMBER", "IBAN", "INN", "PASSPORT", "IP_ADDRESS"}
RequiredScope == {"tenant", "application", "direction", "provider", "purpose"}
OptionalScope == {"route", "model", "jurisdiction"}
Dimension == RequiredScope \cup OptionalScope \cup
    {"entity_type", "data_class", "json_path", "role", "recognizer", "token_scope", "risk_bucket"}

MaxPriority == 1000000

-----------------------------------------------------------------------------
(* load_policy_v2. *)

\* An empty list is no condition: it has to be left out.
ListsAreFilled(conditions) == \A d \in DOMAIN conditions : conditions[d] # {}

RangeLoads(range, limit) == 0 <= range[1] /\ range[1] <= range[2] /\ range[2] <= limit

RuleLoads(rule) ==
    /\ rule.priority \in 0 .. MaxPriority
    /\ rule.action \in PrivacyAction
    /\ DOMAIN rule.when \subseteq Dimension /\ ListsAreFilled(rule.when)
    /\ "entity_type" \in DOMAIN rule.when => rule.when["entity_type"] \subseteq KnownTypes
    /\ RangeLoads(rule.confidence, 1000) /\ RangeLoads(rule.risk, 100)

AssertionLoads(assertion) ==
    /\ assertion.type \in EligibleTypes
    /\ assertion.action = "ALLOW"
    /\ RequiredScope \subseteq DOMAIN assertion.scope
    /\ DOMAIN assertion.scope \subseteq RequiredScope \cup OptionalScope
    /\ ListsAreFilled(assertion.scope)

Distinct(keys) == IsInjective(keys)

Unique(rules) ==
    /\ Distinct([i \in DOMAIN rules |-> rules[i].id])
    /\ Distinct([i \in DOMAIN rules |-> rules[i].priority])

Loads(raw) ==
    /\ raw.version = 2
    /\ raw.default \in Prohibition
    /\ \A i \in DOMAIN raw.rules : RuleLoads(raw.rules[i])
    /\ \A i \in DOMAIN raw.assertions : AssertionLoads(raw.assertions[i])
    /\ Unique(raw.rules)
    /\ LET given == raw.assertions
       IN  /\ Distinct([i \in DOMAIN given |-> given[i].id])
           /\ Distinct([i \in DOMAIN given |-> <<given[i].type, given[i].value, given[i].scope>>])

Policy(default, rules, assertions) ==
    [default |-> default, rules |-> rules, assertions |-> assertions]

\* sorted(): the higher priority first, and the earlier of two that are equal.
PlaceOf(rules, i) ==
    Cardinality({j \in DOMAIN rules :
        \/ rules[j].priority > rules[i].priority
        \/ rules[j].priority = rules[i].priority /\ j <= i})

InOrder(rules) ==
    [n \in DOMAIN rules |-> rules[CHOOSE i \in DOMAIN rules : PlaceOf(rules, i) = n]]

Load(raw) == Policy(raw.default, InOrder(raw.rules), raw.assertions)

-----------------------------------------------------------------------------
(* Legacy documents: entries of a type and an action, either possibly wrong. *)

LegacyAction == [ALLOW |-> "ALLOW", MASK |-> "TOKENIZE", REDACT |-> "REDACT", BLOCK |-> "BLOCK"]

With(rules, type, action) ==
    [t \in DOMAIN rules \cup {type} |-> IF t = type THEN action ELSE rules[t]]

\* An entry without a known action does not count.
Entered(rules, entry) ==
    IF entry.action \in DOMAIN LegacyAction THEN With(rules, entry.type, entry.action)
                                            ELSE rules

\* The entries in turn: the later one of a type counts.
LegacyRulesUpTo(raw) ==
    LET known[n \in 0 .. Len(raw.entries)] ==
            IF n = 0 THEN <<>> ELSE Entered(known[n - 1], raw.entries[n])
    IN  known

LegacyRules(raw) == LegacyRulesUpTo(raw)[Len(raw.entries)]

\* PolicyEngine: the settings overrule the document.
LegacyEngine(raw) ==
    LET keyed == With(LegacyRules(raw), "API_KEY", IF raw.blockKeys THEN "BLOCK" ELSE "MASK")
    IN  IF raw.blockCards THEN With(keyed, "CARD_NUMBER", "BLOCK") ELSE keyed

\* action_for: what the engine itself does with a type it has no rule for.
ActionFor(engine, type) == IF type \in DOMAIN engine THEN engine[type] ELSE "MASK"

\* LegacyPolicyAdapter: one rule for each type, in the order of their names,
\* which decides nothing because their conditions exclude each other.
Adapt(engine) ==
    LET rule(type) ==
            [id |-> type, action |-> LegacyAction[engine[type]],
             when |-> [entity_type |-> {type}], confidence |-> <<0, 1000>>, risk |-> <<0, 100>>]
        types == SetToSeq(DOMAIN engine)
    IN  Policy("BLOCK", [i \in DOMAIN types |-> rule(types[i])], <<>>)

-----------------------------------------------------------------------------
(* PolicyEngineV2. *)

\* PolicyContext, and the finding: all that a decision depends on.
Facts(finding, risk, request) ==
    LET of == [entity_type |-> finding.type, data_class |-> finding.class,
               recognizer |-> finding.recognizers, risk_bucket |-> risk.bucket,
               confidence |-> finding.confidence, risk |-> risk.score]
    IN  [d \in DOMAIN request \cup DOMAIN of |-> IF d \in DOMAIN of THEN of[d] ELSE request[d]]

Fits(conditions, facts) == \A d \in DOMAIN conditions : facts[d] \in conditions[d]

Within(n, range) == range[1] <= n /\ n <= range[2]

\* _matches_conditions
Matches(rule, facts) ==
    /\ Fits(rule.when, facts)
    /\ Within(facts.confidence, rule.confidence)
    /\ Within(facts.risk, rule.risk)

\* hash_public_value of a stripped, casefolded value: a ligature is the letters
\* it stands for, invisible characters and marks are characters of the value.
Digest(value) ==
    IF ToSet(value.spelled) \subseteq {"plain", "double"} THEN value.of ELSE "unlike any other"

\* Mutant: an assertion holds up to the moment of its expiry.
ExpiredLater(assertion, now) == assertion.expires < now

Expired(assertion, now) == assertion.expires <= now

\* _public_assertion
Asserts(assertion, facts, value, now) ==
    /\ ~ Expired(assertion, now)
    /\ assertion.type = facts.entity_type
    /\ assertion.value = Digest(value)
    /\ Fits(assertion.scope, facts)

Decision(action, by) == [action |-> action, by |-> by]

\* _matching_rule: the first that matches, if any.
MatchingRule(rules, facts) ==
    LET matching == {n \in DOMAIN rules : Matches(rules[n], facts)}
    IN  IF matching = {} THEN 0 ELSE Min(matching)

\* decide: a rule that prohibits, an assertion, any other rule, the default.
Decide(policy, facts, value, now) ==
    LET n == MatchingRule(policy.rules, facts)
    IN  IF n # 0 /\ policy.rules[n].action \in Prohibition
        THEN Decision(policy.rules[n].action, "rule")
        ELSE IF \E i \in DOMAIN policy.assertions : Asserts(policy.assertions[i], facts, value, now)
        THEN Decision("ALLOW", "assertion")
        ELSE IF n # 0 THEN Decision(policy.rules[n].action, "rule")
        ELSE Decision(policy.default, "default")
===============================================================================
