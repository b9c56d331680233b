-------------------------- MODULE ContentScreening --------------------------
(***************************************************************************)
(* How a text is judged: the blocklist, the classifier's verdict and the   *)
(* thresholds of a content rating level, put together by the Guardian      *)
(* (platform/moderation/guardian, blocklist, classifier, context, config)  *)
(* and read by those who asked (lib/safety, platform/social/               *)
(* guardian-adapter). Severities are 0 (low) to 3 (critical), confidences  *)
(* and the escalation threshold percentages.                               *)
(***************************************************************************)
EXTENDS Naturals, FiniteSets

Severity == 0..3

\* A classifier's answer.
Verdict == [safe : BOOLEAN, severity : Severity, confidence : 0..100]

\* What the classifier says when it cannot say: unsafe, medium, half sure.
FailedVerdict == [safe |-> FALSE, severity |-> 1, confidence |-> 50]

\* The thresholds of a level as the database is seeded.
Seeded(level) ==
  CASE level = 1 -> [block |-> 1, warn |-> 0, below |-> 70]
    [] level = 2 -> [block |-> 2, warn |-> 1, below |-> 60]
    [] level = 3 -> [block |-> 3, warn |-> 2, below |-> 50]

\* The thresholds when the configuration cannot be read.
Strict == [block |-> 0, warn |-> 0, below |-> 95]

\* The highest severity among the patterns a text matches; scanBlocklist says
\* low of a text that matches none.
MaxSeverity(matches) ==
  CHOOSE s \in matches \cup {0} : \A m \in matches : m <= s

\* A hit of high or critical severity blocks at once, without the classifier.
BlockedOutright(matches) == MaxSeverity(matches) >= 2

\* Some kinds of content count as less severe, critical never as low.
Reduced(severity, by) ==
  LET floor == IF severity = 3 /\ by > 0 THEN 1 ELSE 0
  IN IF severity >= floor + by THEN severity - by ELSE floor

\* The Guardian's decision once the classifier has answered.
Decision(matches, verdict, thresholds, by) ==
  IF verdict.safe
  THEN IF matches # {} THEN "warn" ELSE "allow"
  ELSE LET severity == Reduced(verdict.severity, by)
       IN CASE verdict.confidence < thresholds.below -> "escalate"
            [] verdict.confidence >= thresholds.below /\ severity >= thresholds.block -> "block"
            [] verdict.confidence >= thresholds.below /\ severity < thresholds.block
                 /\ severity >= thresholds.warn -> "warn"
            [] OTHER -> "allow"

Actions == {"allow", "warn", "block", "escalate"}

\* An input, and a group's name, goes on with a warning; a model's output is
\* shown only when it is allowed outright.
InputPasses(action) == action \in {"allow", "warn"}
OutputPasses(action) == action = "allow"
=============================================================================
