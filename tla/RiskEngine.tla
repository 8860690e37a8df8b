------------------------------ MODULE RiskEngine ------------------------------
(***************************************************************************)
(* PrivacyRiskEngine (privacy/risk/engine.py): how much the findings of a  *)
(* text say about a person, between 0 and 100.  The strongest finding      *)
(* counts; combinations add to it.                                         *)
(***************************************************************************)
EXTENDS Integers, FiniteSetsExt

BaseWeight ==
    [PUBLIC_DATA |-> 5, QUASI_IDENTIFIER |-> 30, LOCATION |-> 35,
     BUSINESS_CONFIDENTIAL |-> 45, DIRECT_PII |-> 55, FINANCIAL |-> 70,
     HEALTH |-> 75, AUTH_SECRET |-> 90]

\* round() of thousandths, halves to the even neighbour.
Round(n) ==
    LET whole == n \div 1000
        rest == n % 1000
    IN  IF rest > 500 \/ (rest = 500 /\ whole % 2 = 1) THEN whole + 1 ELSE whole

Capped(n, limit) == Min({n, limit})

\* A doubtful finding counts at least for a quarter.
Weighted(finding) == Round(BaseWeight[finding.class] * Max({250, finding.confidence}))

Weight(finding) ==
    LET weighted == Weighted(finding)
    IN  CASE finding.validation \in {"VALID", "AMBIGUOUS"} -> weighted + 5
          [] finding.validation = "INVALID" -> Capped(weighted, 15)
          [] OTHER -> weighted

Together(classes, a, b, points) == IF {a, b} \subseteq classes THEN points ELSE 0

\* Combinations of findings whose checksum does not fail.
Combined(findings) ==
    LET effective == {f \in findings : f.validation # "INVALID"}
        classes == {f.class : f \in effective}
        quasi == Cardinality({f.type : f \in {f \in effective : f.class = "QUASI_IDENTIFIER"}})
    IN  (IF quasi >= 3 THEN 25 ELSE IF quasi = 2 THEN 12 ELSE 0) +
        Together(classes, "DIRECT_PII", "QUASI_IDENTIFIER", 12) +
        Together(classes, "LOCATION", "QUASI_IDENTIFIER", 10) +
        Together(classes, "FINANCIAL", "DIRECT_PII", 10)

\* Mutant: the average finding counts.
StrongestAverage(findings) ==
    MapThenSumSet(Weight, findings) \div Cardinality(findings)

Strongest(findings) == Max({Weight(f) : f \in findings})

Bucket(score) ==
    CASE score >= 75 -> "CRITICAL" [] score >= 50 -> "HIGH"
      [] score >= 25 -> "MEDIUM" [] OTHER -> "LOW"

Assessment(score) == [score |-> score, bucket |-> Bucket(score)]

\* Mutant: the sum is not capped.
AssessUncapped(findings) ==
    Assessment(IF findings = {} THEN 0
               ELSE Strongest(findings) + Combined(findings) +
                    Capped(2 * (Cardinality(findings) - 1), 10))

\* Findings do not overlap, so that they are a set.
Assess(findings) ==
    Assessment(
        IF findings = {} THEN 0
        ELSE Capped(Strongest(findings) + Combined(findings) +
                    Capped(2 * (Cardinality(findings) - 1), 10), 100))
===============================================================================
