---------------------------- MODULE SafetyEngine ----------------------------
(***************************************************************************)
(* The decision engine of ui/safety_signals.py: what one turn of a         *)
(* conversation decides, given the turns before it, and how the state is   *)
(* rebuilt from the evidence rows.  Pure operators: nothing here keeps     *)
(* state of its own.                                                       *)
(*                                                                         *)
(* Confidences are naturals, in ten-thousandths: one digit finer than a    *)
(* row keeps.  The engine tells signals apart by class only, save          *)
(* self_harm and the breach, so one name stands for the five probes, one   *)
(* for the two fraud signals and one for the two other wellbeing signals.  *)
(***************************************************************************)
EXTENDS Integers, SequencesExt

CONSTANTS
    High, Med, SupervisedHigh, LeakQuarantine,
    SessionFlaggedReview, ConsecutiveFlagged, RefusalsReview,
    SecurityReview, VelocityWindow, VelocityReview,
    PrincipalSessionsRepeat, LongSession, SecurityQuarantine

\* DEFAULT_THRESHOLDS, which a deployment may override one by one.
ASSUME ThresholdAssumption ==
    /\ {High, Med, SupervisedHigh, LeakQuarantine} \subseteq Nat \ {0}
    /\ {SessionFlaggedReview, ConsecutiveFlagged, RefusalsReview,
        SecurityReview, VelocityReview, PrincipalSessionsRepeat, LongSession,
        SecurityQuarantine} \subseteq Nat \ {0}
    /\ VelocityWindow \in Nat

\* True of the defaults: whatever acts on its own also counts.
ASSUME OrderAssumption == Med =< High /\ Med =< SupervisedHigh

\* And that rounding takes no confidence below the threshold it reached.
ASSUME GrainAssumption == Med % 10 = 0 /\ High % 10 = 0

----------------------------------------------------------------------------
\* One turn

ModelSignals == {"probe", "scam", "self_harm", "distress",
                 "answer_policy_breach"}

Signals == ModelSignals \cup {"concurrent_turn"}

ClassOf ==
    [probe |-> "security", concurrent_turn |-> "security", scam |-> "fraud",
     self_harm |-> "wellbeing", distress |-> "wellbeing",
     answer_policy_breach |-> "none"]

\* filter_class(), and "none" where Model Armor did not block.
ArmorClasses == {"none", "security", "privacy", "content", "unclassified"}

Certain == 10000

\* round(v, 3)
Rounded(conf) == ((conf + 5) \div 10) * 10

Silent == [n \in Signals |-> 0]

Turns ==
    [signals : [Signals -> 0..Certain], agent_refused : BOOLEAN,
     armor : ArmorClasses, classifier_error : BOOLEAN, ts : Nat]

EmptyTurn(ts) ==
    [signals |-> Silent, agent_refused |-> FALSE, armor |-> "none",
     classifier_error |-> FALSE, ts |-> ts]

ConcurrentTurn(ts) ==
    [EmptyTurn(ts) EXCEPT !.signals["concurrent_turn"] = Certain]

ArmorTurn(class, ts) == [EmptyTurn(ts) EXCEPT !.armor = class]

UnscreenedTurn(ts) == [EmptyTurn(ts) EXCEPT !.classifier_error = TRUE]

\* parse_verdict and classify: a name the server owns is dropped, and with no
\* answer to judge there is neither a refusal nor a breach.
ClassifiedTurn(verdict, refused, answered, ts) ==
    [EmptyTurn(ts) EXCEPT
        !.signals = [n \in Signals |->
            IF \/ n \notin ModelSignals
               \/ n = "answer_policy_breach" /\ ~answered
            THEN 0 ELSE verdict[n]],
        !.agent_refused = refused /\ answered]

AtLeast(turn, level, classes) ==
    {n \in Signals : turn.signals[n] >= level /\ ClassOf[n] \in classes}

Fired(turn) ==
    \/ AtLeast(turn, Med, {"security", "fraud", "wellbeing", "none"}) # {}
    \/ turn.armor # "none"

IsSecurityHit(turn) ==
    AtLeast(turn, Med, {"security"}) # {} \/ turn.armor = "security"

Flagging(turn) == AtLeast(turn, Med, {"fraud", "wellbeing"})

FlaggedConf(turn) == Max({turn.signals[n] : n \in Flagging(turn)})

----------------------------------------------------------------------------
\* The session so far

Decisions == {"none", "handoff_crisis", "handoff_fraud", "quarantine",
              "withhold"}

SessionStates ==
    [turns : Nat, flagged : Nat, consecutive_flagged : Nat,
     trailing_conf : Seq(Nat), security_hits : Nat, security_times : Seq(Nat),
     refusals : Nat, breaches : Nat, tier1_hits : Nat, tier2_hits : Nat,
     quarantined : BOOLEAN, principal_sessions_flagged : Nat]

NoSession ==
    [turns |-> 0, flagged |-> 0, consecutive_flagged |-> 0,
     trailing_conf |-> <<>>, security_hits |-> 0, security_times |-> <<>>,
     refusals |-> 0, breaches |-> 0, tier1_hits |-> 0, tier2_hits |-> 0,
     quarantined |-> FALSE, principal_sessions_flagged |-> 0]

One(cond) == IF cond THEN 1 ELSE 0

LastThree(seq) ==
    IF Len(seq) > 3 THEN SubSeq(seq, Len(seq) - 2, Len(seq)) ELSE seq

Advance(s, turn, tier, action) ==
    LET flags == Flagging(turn) # {}
        hit == IsSecurityHit(turn)
    IN  [s EXCEPT
        !.turns = @ + 1,
        !.flagged = @ + One(flags),
        !.consecutive_flagged = IF flags THEN @ + 1 ELSE 0,
        !.trailing_conf =
            IF flags THEN LastThree(Append(@, FlaggedConf(turn))) ELSE @,
        !.security_hits = @ + One(hit),
        !.security_times = IF hit THEN Append(@, turn.ts) ELSE @,
        !.refusals = @ + One(turn.agent_refused),
        !.breaches = @ + One(turn.signals["answer_policy_breach"] >= High),
        !.tier1_hits = @ + One(tier = 1),
        !.tier2_hits = @ + One(tier = 2),
        !.quarantined = @ \/ action = "quarantine"]

Supervised(s) == s.tier1_hits > 0

HitsWithin(s, window, now) ==
    Cardinality({k \in DOMAIN s.security_times :
                    now - s.security_times[k] =< window})

----------------------------------------------------------------------------
\* The decision

HighFor(s) == IF Supervised(s) THEN SupervisedHigh ELSE High

\* Mutation: the turn being decided is not counted.
SecBefore(turn, s) == s.security_hits

SecNow(turn, s) == s.security_hits + One(IsSecurityHit(turn))

\* An attempt that worked.
BreachOnProbe(turn) ==
    /\ AtLeast(turn, High, {"security"}) # {} \/ turn.armor = "security"
    /\ turn.signals["answer_policy_breach"] >= LeakQuarantine

\* Mutation: a locked session is judged afresh.
LocksAfresh(turn, s) ==
    BreachOnProbe(turn) \/ SecNow(turn, s) >= SecurityQuarantine

Locks(turn, s) ==
    \/ s.quarantined
    \/ BreachOnProbe(turn)
    \/ SecNow(turn, s) >= SecurityQuarantine

\* Mutation: the hand-offs are looked at before the lock.
ActionHandoffFirst(turn, s) ==
    IF turn.signals["self_harm"] >= HighFor(s) THEN "handoff_crisis"
    ELSE IF turn.signals["scam"] >= HighFor(s) THEN "handoff_fraud"
    ELSE IF Locks(turn, s) THEN "quarantine"
    ELSE "none"

ActionFor(turn, s) ==
    IF Locks(turn, s) THEN "quarantine"
    ELSE IF turn.signals["self_harm"] >= HighFor(s) THEN "handoff_crisis"
    ELSE IF turn.signals["scam"] >= HighFor(s) THEN "handoff_fraud"
    ELSE "none"

EscalationSlope(turn, s) ==
    LET n == Len(s.trailing_conf)
    IN  /\ Flagging(turn) # {}
        /\ n >= 2
        /\ s.trailing_conf[n - 1] < s.trailing_conf[n]
        /\ s.trailing_conf[n] < FlaggedConf(turn)

\* Mutation: a limit is passed, not reached.
RefusedPastLimit(turn, s) ==
    /\ Fired(turn) \/ turn.agent_refused
    /\ s.refusals + One(turn.agent_refused) > RefusalsReview

RefusedTooOften(turn, s) ==
    /\ Fired(turn) \/ turn.agent_refused
    /\ s.refusals + One(turn.agent_refused) >= RefusalsReview

\* The trajectory asks for a human.
Review(turn, s) ==
    LET flags == Flagging(turn) # {}
        hit == IsSecurityHit(turn)
    IN  \/ s.flagged + One(flags) >= SessionFlaggedReview
        \/ flags /\ s.consecutive_flagged + 1 >= ConsecutiveFlagged
        \/ EscalationSlope(turn, s)
        \/ RefusedTooOften(turn, s)
        \/ SecNow(turn, s) >= SecurityReview
        \/ hit /\ HitsWithin(s, VelocityWindow, turn.ts) + 1 >= VelocityReview
        \/ turn.signals["answer_policy_breach"] >= High
        \/ /\ flags \/ hit
           /\ s.principal_sessions_flagged >= PrincipalSessionsRepeat
        \/ (Fired(turn) \/ turn.agent_refused) /\ s.turns + 1 >= LongSession

TierFor(turn, s) ==
    IF ActionFor(turn, s) # "none" THEN 1
    ELSE IF Review(turn, s) THEN 2 ELSE 0

\* The correlation class of the control event: who handles it.
ClassFor(turn, s) ==
    LET action == ActionFor(turn, s)
    IN  CASE action = "quarantine"     -> "security"
          [] action = "handoff_crisis" -> "wellbeing"
          [] action = "handoff_fraud"  -> "fraud"
          [] TierFor(turn, s) = 0      -> "none"
          [] IsSecurityHit(turn)       -> "security"
          [] OTHER ->
                IF AtLeast(turn, Med, {"fraud"}) # {} THEN "fraud"
                ELSE IF Flagging(turn) # {} THEN "wellbeing"
                ELSE "conduct"

Evaluate(turn, s) ==
    [tier |-> TierFor(turn, s), action |-> ActionFor(turn, s),
     cls |-> ClassFor(turn, s)]

----------------------------------------------------------------------------
\* The evidence row, as far as a later turn reads it back

\* Mutation: the row keeps only what acts on its own.
EvidenceRowHigh(turn, decision) ==
    [signals |-> [n \in Signals |->
        IF turn.signals[n] >= High THEN Rounded(turn.signals[n]) ELSE 0],
     agent_refused |-> turn.agent_refused, armor |-> turn.armor,
     ts |-> turn.ts, tier |-> decision.tier, action |-> decision.action]

EvidenceRow(turn, decision) ==
    [signals |-> [n \in Signals |->
        IF turn.signals[n] >= Med THEN Rounded(turn.signals[n]) ELSE 0],
     agent_refused |-> turn.agent_refused, armor |-> turn.armor,
     ts |-> turn.ts, tier |-> decision.tier, action |-> decision.action]

\* One step of state_from_rows.
AdvanceFromRow(s, row) ==
    Advance(s, [signals |-> row.signals, agent_refused |-> row.agent_refused,
                armor |-> row.armor, classifier_error |-> FALSE,
                ts |-> row.ts],
            row.tier, row.action)

\* state_from_rows: the rows oldest first.
StateFromRows(rows, principal) ==
    FoldLeft(AdvanceFromRow,
             [NoSession EXCEPT !.principal_sessions_flagged = principal], rows)

=============================================================================
