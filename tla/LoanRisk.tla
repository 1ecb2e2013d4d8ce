------------------------------ MODULE LoanRisk ------------------------------
(***************************************************************************)
(* The loan scorecard (src/products/loans/api/risk.py): four factors whose *)
(* points add up to a score, a recommendation by two thresholds, and the   *)
(* workflow's shortcut on top of it.  An application is a record of the    *)
(* facts the factors look at; dti is in thousandths, as the code rounds it.*)
(***************************************************************************)
EXTENDS Naturals

ApproveMax == 35
DeclineMin == 65
AutoApproveMax == 20

CreditPoints(score) ==
    IF score >= 760 THEN 0
    ELSE IF score >= 700 THEN 10
    ELSE IF score >= 640 THEN 22
    ELSE 40

DtiPoints(dti) ==
    IF dti <= 280 THEN 0 ELSE IF dti <= 430 THEN 15 ELSE 30

OverdraftPoints(events) ==
    IF events = 0 THEN 0 ELSE IF events <= 2 THEN 10 ELSE 20

SizePoints(amount) ==
    IF amount > 50000 THEN 10 ELSE IF amount > 20000 THEN 5 ELSE 0

\* score_risk; the clamp to 0 .. 100 never bites, the maxima add up to 100.
Score(facts, overdrafts) ==
    CreditPoints(facts.credit) + DtiPoints(facts.dti)
        + OverdraftPoints(overdrafts) + SizePoints(facts.amount)

Recommendation(score) ==
    IF score <= ApproveMax THEN "APPROVE"
    ELSE IF score >= DeclineMin THEN "DECLINE"
    ELSE "REVIEW"

\* _overdraft_events: withdrawals of an account in the red, as far as the
\* Transactions API answers.
OverdraftsRead(facts, answered) == IF answered THEN facts.overdrafts ELSE 0

\* Mutation: the shortcut forgets the score and trusts the recommendation.
ShortcutOnRecommendation(score) ==
    IF Recommendation(score) = "APPROVE" THEN "APPROVE"
    ELSE IF Recommendation(score) = "DECLINE" THEN "REJECT"
    ELSE "await"

\* The switch `route` of the workflow.
Shortcut(score) ==
    IF Recommendation(score) = "APPROVE" /\ score <= AutoApproveMax
    THEN "APPROVE"
    ELSE IF Recommendation(score) = "DECLINE" THEN "REJECT"
    ELSE "await"
=============================================================================
