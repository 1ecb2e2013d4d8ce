--------------------------- MODULE SafetySession ---------------------------
(***************************************************************************)
(* One session whose turns are screened one after the other, as            *)
(* _safety_screen of ui/server.py and the offline trajectory evaluation    *)
(* drive the engine.  Two states are kept side by side: the one advanced   *)
(* in memory, turn by turn, and the one rebuilt from the evidence rows,    *)
(* which is what the next request really starts from.                      *)
(***************************************************************************)
EXTENDS SafetyEngine

CONSTANTS
    Verdicts,       \* what the classifier may say: functions on Signals
    Principals,     \* sessions_flagged of the principal, read at the start
    FailClosed,     \* SAFETY_FAIL_CLOSED
    MaxTurns,       \* bound on the turns of the session
    MaxNow          \* bound on the clock, in velocity-window minutes

ASSUME SessionAssumption ==
    /\ Verdicts \subseteq [Signals -> 0..Certain]
    /\ Principals \subseteq Nat
    /\ FailClosed \in BOOLEAN
    /\ MaxTurns \in Nat /\ MaxNow \in Nat

VARIABLES
    now,        \* the clock a turn is stamped with
    state,      \* SessionState, advanced in memory
    rebuilt,    \* state_from_rows of the rows written so far
    answer      \* what the last turn was answered with: Decision.action

sessionVars == <<now, state, rebuilt, answer>>

SessionInit ==
    /\ now = 0
    /\ \E p \in Principals :
        /\ state = [NoSession EXCEPT !.principal_sessions_flagged = p]
        /\ rebuilt = state
    /\ answer = "none"

\* SAFETY_FAIL_CLOSED withholds what nobody could screen and nothing decided.
Answered(turn, decision) ==
    IF turn.classifier_error /\ FailClosed /\ decision.action = "none"
    THEN [decision EXCEPT !.action = "withhold"] ELSE decision

\* Decide, record, advance: the tail every kind of turn shares.
Decide(turn) ==
    LET decision == Answered(turn, Evaluate(turn, state))
    IN  /\ state.turns < MaxTurns
        /\ state' = Advance(state, turn, decision.tier, decision.action)
        /\ rebuilt' = AdvanceFromRow(rebuilt, EvidenceRow(turn, decision))
        /\ answer' = decision.action
        /\ UNCHANGED now

Classified ==
    {ClassifiedTurn(v, refused, answered, now) :
        v \in Verdicts, refused \in BOOLEAN, answered \in BOOLEAN}

Screened(turn) == ~state.quarantined /\ Decide(turn)

Unscreened == ~state.quarantined /\ Decide(UnscreenedTurn(now))

\* A locked session is answered by the lock: nothing is classified.
Locked == state.quarantined /\ Decide(EmptyTurn(now))

ArmorBlocked(class) == Decide(ArmorTurn(class, now))

TurnedAway == Decide(ConcurrentTurn(now))

Tick ==
    /\ now < MaxNow
    /\ now' = now + 1
    /\ UNCHANGED <<state, rebuilt, answer>>

SessionNext ==
    \/ \E turn \in Classified : Screened(turn)
    \/ Unscreened
    \/ Locked
    \/ \E class \in ArmorClasses \ {"none"} : ArmorBlocked(class)
    \/ TurnedAway
    \/ Tick

SessionSpec == SessionInit /\ [][SessionNext]_sessionVars

----------------------------------------------------------------------------
\* Properties

SessionTypeOK ==
    /\ now \in Nat
    /\ state \in SessionStates
    /\ rebuilt \in SessionStates
    /\ answer \in Decisions

(***************************************************************************)
(* The count that is supposed to reach five locks the session when it      *)
(* does, by whatever mix of probes, Model Armor blocks and turned-away     *)
(* messages it got there and whatever hand-offs came in between.           *)
(***************************************************************************)
HitsLockSession ==
    state.security_hits >= SecurityQuarantine => state.quarantined

(***************************************************************************)
(* Nothing the user says re-opens a locked session, and every turn of it   *)
(* is answered by the lock: not by a hand-off, nor by the model.           *)
(***************************************************************************)
LockIsFinal ==
    [][state.quarantined =>
        /\ state'.quarantined
        /\ state' # state =>
             /\ answer' = "quarantine"
             /\ state'.tier1_hits > state.tier1_hits]_sessionVars

(***************************************************************************)
(* A session cannot reach one of the trajectory's limits (security hits,   *)
(* flagged turns, refusals) without a control event having told somebody.  *)
(***************************************************************************)
TrajectoryIsReported ==
    \/ state.security_hits >= SecurityReview
    \/ state.flagged >= SessionFlaggedReview
    \/ state.refusals >= RefusalsReview
    => state.tier1_hits + state.tier2_hits > 0

(***************************************************************************)
(* The state a request rebuilds from the rows counts what the earlier      *)
(* requests counted in memory: a row drops the signals below `med`, and    *)
(* nothing a later decision needs.  Rounding is the one difference: a      *)
(* confidence just short of `high` is a breach when it is read back.       *)
(***************************************************************************)
RebuiltCountsAlike ==
    /\ [rebuilt EXCEPT !.trailing_conf = <<>>, !.breaches = 0]
        = [state EXCEPT !.trailing_conf = <<>>, !.breaches = 0]
    /\ rebuilt.trailing_conf =
        [k \in DOMAIN state.trailing_conf |-> Rounded(state.trailing_conf[k])]
    /\ rebuilt.breaches >= state.breaches
=============================================================================
