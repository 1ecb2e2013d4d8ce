------------------------ MODULE SafetySession_proofs ------------------------
(***************************************************************************)
(* The decision engine over a session of any length, for any thresholds    *)
(* and any confidences the classifier may give: when it locks, that it     *)
(* stays locked, that it tells somebody, and that the state rebuilt from   *)
(* the evidence rows decides what the one in memory would.                 *)
(***************************************************************************)
EXTENDS SafetySession, SequenceTheorems, TLAPS

(***************************************************************************)
(* Confidences                                                             *)
(***************************************************************************)
\* What Advance reads of a turn or of a row.
Readable(turn) ==
    turn.signals \in [Signals -> Nat] /\ turn.ts \in Nat

LEMMA FlaggingIsFew ==
    ASSUME NEW turn
    PROVE  Flagging(turn) \subseteq {"scam", "self_harm", "distress"}
  BY DEF Flagging, AtLeast, ClassOf, Signals, ModelSignals

(* The highest of the few confidences that flag a turn is one of them.     *)
LEMMA FlaggedConfIsHighest ==
    ASSUME NEW turn, Readable(turn), Flagging(turn) # {}
    PROVE  /\ \E n \in Flagging(turn) : FlaggedConf(turn) = turn.signals[n]
           /\ \A n \in Flagging(turn) : FlaggedConf(turn) >= turn.signals[n]
           /\ FlaggedConf(turn) \in Nat
<1> DEFINE F == Flagging(turn)
           S == {turn.signals[n] : n \in F}
<1>1. F \subseteq Signals /\ \A n \in F : turn.signals[n] \in Nat
  BY DEF Flagging, AtLeast, Readable
<1>2. \E x \in S : \A y \in S : x >= y
  <2>1. F \subseteq {"scam", "self_harm", "distress"} /\ F # {}
    BY FlaggingIsFew
  <2> HIDE DEF F
  <2>2. \E n \in F : \A m \in F : turn.signals[n] >= turn.signals[m]
    <3> DEFINE Less(n, m) == m \in F /\ turn.signals[n] < turn.signals[m]
    <3> SUFFICES ASSUME \A n \in F : \E m \in F :
                            ~(turn.signals[n] >= turn.signals[m])
                 PROVE  FALSE
      OBVIOUS
    <3>1. \A n \in F : \E m \in F : turn.signals[n] < turn.signals[m]
      BY <1>1
    <3>2. \A n \in F : \/ Less(n, "scam") \/ Less(n, "self_harm")
                       \/ Less(n, "distress")
      BY <3>1, <2>1
    <3>3. \/ "scam" \in F \/ "self_harm" \in F \/ "distress" \in F
      BY <2>1
    <3> QED BY <3>2, <3>3, <1>1
  <2> QED BY <2>2
<1>3. FlaggedConf(turn) \in S /\ \A y \in S : FlaggedConf(turn) >= y
  BY <1>2 DEF FlaggedConf, Max
<1> QED BY <1>1, <1>3

(* Rounding keeps the order, and the thresholds a row is read back with.   *)
LEMMA RoundedFacts ==
    /\ \A c \in Nat : Rounded(c) \in Nat
    /\ \A c, d \in Nat : c >= d => Rounded(c) >= Rounded(d)
    /\ \A c \in Nat : c >= Med => Rounded(c) >= Med
    /\ \A c \in Nat : c >= High => Rounded(c) >= High
  BY ThresholdAssumption, GrainAssumption DEF Rounded

(***************************************************************************)
(* Turns and rows                                                          *)
(***************************************************************************)
\* What AdvanceFromRow reads as a turn.
ReadBack(row) ==
    [signals |-> row.signals, agent_refused |-> row.agent_refused,
     armor |-> row.armor, classifier_error |-> FALSE, ts |-> row.ts]

LEMMA LastThreeFacts ==
    ASSUME NEW S, NEW seq \in Seq(S)
    PROVE  /\ LastThree(seq) \in Seq(S)
           /\ Len(LastThree(seq)) = IF Len(seq) > 3 THEN 3 ELSE Len(seq)
           /\ \A k \in 1 .. Len(LastThree(seq)) :
                 LastThree(seq)[k] =
                    seq[k + (IF Len(seq) > 3 THEN Len(seq) - 3 ELSE 0)]
<1>1. Len(seq) \in Nat /\ \A k \in 1 .. Len(seq) : seq[k] \in S
  OBVIOUS
<1>2. CASE Len(seq) <= 3
  BY <1>1, <1>2 DEF LastThree
<1>3. CASE Len(seq) > 3
  <2> DEFINE m == Len(seq) - 2
             n == Len(seq)
  <2>1. m \in Int /\ n \in Int /\ \A k \in m .. n : seq[k] \in S
    BY <1>1, <1>3
  <2>2. /\ SubSeq(seq, m, n) \in Seq(S)
        /\ Len(SubSeq(seq, m, n)) = IF m <= n THEN n - m + 1 ELSE 0
        /\ \A k \in 1 .. n - m + 1 : SubSeq(seq, m, n)[k] = seq[m + k - 1]
    <3> HIDE DEF m, n
    <3> QED BY <2>1, SubSeqProperties
  <2>3. LastThree(seq) = SubSeq(seq, m, n)
    BY <1>3 DEF LastThree
  <2>4. m <= n /\ n - m + 1 = 3
    BY <1>1
  <2>5. \A k \in 1 .. 3 : m + k - 1 = k + (Len(seq) - 3)
    BY <1>1
  <2> QED BY <1>3, <2>2, <2>3, <2>4, <2>5
<1> QED BY <1>1, <1>2, <1>3

(* A turn advances a state to a state.                                     *)
LEMMA AdvanceType ==
    ASSUME NEW s \in SessionStates, NEW turn, Readable(turn),
           NEW tier, NEW action
    PROVE  Advance(s, turn, tier, action) \in SessionStates
<1> DEFINE conf == IF Flagging(turn) # {}
                   THEN LastThree(Append(s.trailing_conf, FlaggedConf(turn)))
                   ELSE s.trailing_conf
           times == IF IsSecurityHit(turn)
                    THEN Append(s.security_times, turn.ts)
                    ELSE s.security_times
<1>1. conf \in Seq(Nat)
  <2>1. s.trailing_conf \in Seq(Nat)
    BY DEF SessionStates
  <2>2. ASSUME Flagging(turn) # {}
        PROVE  LastThree(Append(s.trailing_conf, FlaggedConf(turn)))
                  \in Seq(Nat)
    <3>1. FlaggedConf(turn) \in Nat
      BY <2>2, FlaggedConfIsHighest
    <3>2. Append(s.trailing_conf, FlaggedConf(turn)) \in Seq(Nat)
      BY <2>1, <3>1
    <3> QED BY <3>2, LastThreeFacts
  <2> QED BY <2>1, <2>2
<1>2. times \in Seq(Nat)
  BY DEF SessionStates, Readable
<1> HIDE DEF conf, times
<1>3. Advance(s, turn, tier, action) =
        [s EXCEPT
            !.turns = @ + 1,
            !.flagged = @ + One(Flagging(turn) # {}),
            !.consecutive_flagged = IF Flagging(turn) # {} THEN @ + 1 ELSE 0,
            !.trailing_conf = conf,
            !.security_hits = @ + One(IsSecurityHit(turn)),
            !.security_times = times,
            !.refusals = @ + One(turn.agent_refused),
            !.breaches =
                @ + One(turn.signals["answer_policy_breach"] >= High),
            !.tier1_hits = @ + One(tier = 1),
            !.tier2_hits = @ + One(tier = 2),
            !.quarantined = @ \/ action = "quarantine"]
  BY DEF Advance, conf, times
<1> DEFINE locked == s.quarantined \/ action = "quarantine"
           flagged == s.flagged + One(Flagging(turn) # {})
           row == IF Flagging(turn) # {} THEN s.consecutive_flagged + 1 ELSE 0
           hits == s.security_hits + One(IsSecurityHit(turn))
           refusals == s.refusals + One(turn.agent_refused)
           breaches == s.breaches
                        + One(turn.signals["answer_policy_breach"] >= High)
           first == s.tier1_hits + One(tier = 1)
           second == s.tier2_hits + One(tier = 2)
<1>4. /\ flagged \in Nat /\ row \in Nat /\ hits \in Nat /\ refusals \in Nat
      /\ breaches \in Nat /\ first \in Nat /\ second \in Nat
      /\ s.turns + 1 \in Nat
  <2>1. /\ s.turns \in Nat /\ s.flagged \in Nat
        /\ s.consecutive_flagged \in Nat /\ s.security_hits \in Nat
        /\ s.refusals \in Nat /\ s.breaches \in Nat
        /\ s.tier1_hits \in Nat /\ s.tier2_hits \in Nat
    BY DEF SessionStates
  <2>2. One(Flagging(turn) # {}) \in Nat /\ One(IsSecurityHit(turn)) \in Nat
    BY DEF One
  <2>3. One(turn.agent_refused) \in Nat
    BY DEF One
  <2>4. One(turn.signals["answer_policy_breach"] >= High) \in Nat
    BY DEF One
  <2>5. One(tier = 1) \in Nat /\ One(tier = 2) \in Nat
    BY DEF One
  <2>6. flagged \in Nat /\ row \in Nat /\ hits \in Nat
    BY <2>1, <2>2
  <2>7. refusals \in Nat /\ breaches \in Nat
    BY <2>1, <2>3, <2>4
  <2>8. first \in Nat /\ second \in Nat /\ s.turns + 1 \in Nat
    BY <2>1, <2>5
  <2> QED BY <2>6, <2>7, <2>8
<1>5. locked \in BOOLEAN
  OBVIOUS
<1> HIDE DEF locked, flagged, row, hits, refusals, breaches, first, second
<1>6. [s EXCEPT
            !.turns = @ + 1, !.flagged = flagged,
            !.consecutive_flagged = row, !.trailing_conf = conf,
            !.security_hits = hits, !.security_times = times,
            !.refusals = refusals, !.breaches = breaches,
            !.tier1_hits = first, !.tier2_hits = second,
            !.quarantined = locked] \in SessionStates
  BY <1>1, <1>2, <1>4, <1>5 DEF SessionStates
<1> QED BY <1>3, <1>6
        DEF locked, flagged, row, hits, refusals, breaches, first, second

LEMMA AdvanceFields ==
    ASSUME NEW s \in SessionStates, NEW turn, NEW tier, NEW action,
           NEW a, a = Advance(s, turn, tier, action)
    PROVE  /\ a.turns = s.turns + 1
           /\ a.flagged = s.flagged + One(Flagging(turn) # {})
           /\ a.consecutive_flagged =
                 IF Flagging(turn) # {} THEN s.consecutive_flagged + 1 ELSE 0
           /\ a.trailing_conf =
                 IF Flagging(turn) # {}
                 THEN LastThree(Append(s.trailing_conf, FlaggedConf(turn)))
                 ELSE s.trailing_conf
           /\ a.security_hits = s.security_hits + One(IsSecurityHit(turn))
           /\ a.security_times =
                 IF IsSecurityHit(turn) THEN Append(s.security_times, turn.ts)
                 ELSE s.security_times
           /\ a.refusals = s.refusals + One(turn.agent_refused)
           /\ a.breaches = s.breaches
                 + One(turn.signals["answer_policy_breach"] >= High)
           /\ a.tier1_hits = s.tier1_hits + One(tier = 1)
           /\ a.tier2_hits = s.tier2_hits + One(tier = 2)
           /\ a.quarantined <=> s.quarantined \/ action = "quarantine"
           /\ a.principal_sessions_flagged = s.principal_sessions_flagged
  BY DEF Advance, SessionStates

(* A row drops what is below med and keeps, rounded, all the rest.         *)
LEMMA RowReadsBack ==
    ASSUME NEW turn \in Turns, NEW d,
           NEW b, b = ReadBack(EvidenceRow(turn, d))
    PROVE  /\ Readable(turn) /\ Readable(b)
           /\ b.ts = turn.ts /\ b.agent_refused = turn.agent_refused
           /\ Flagging(b) = Flagging(turn)
           /\ IsSecurityHit(b) <=> IsSecurityHit(turn)
           /\ Flagging(turn) # {} =>
                 FlaggedConf(b) = Rounded(FlaggedConf(turn))
           /\ turn.signals["answer_policy_breach"] >= High =>
                 b.signals["answer_policy_breach"] >= High
<1>1. /\ turn.signals \in [Signals -> Nat] /\ turn.ts \in Nat
      /\ b.ts = turn.ts /\ b.agent_refused = turn.agent_refused
      /\ b.armor = turn.armor
      /\ b.signals = [n \in Signals |->
            IF turn.signals[n] >= Med THEN Rounded(turn.signals[n]) ELSE 0]
  <2>1. turn.signals \in [Signals -> 0 .. Certain] /\ turn.ts \in Nat
    BY DEF Turns
  <2>2. turn.signals \in [Signals -> Nat]
    <3>1. 0 .. Certain \subseteq Nat
      BY DEF Certain
    <3> QED BY <2>1, <3>1
  <2> QED BY <2>1, <2>2 DEF ReadBack, EvidenceRow
<1>2. Med \in Nat \ {0} /\ High \in Nat /\ Med <= High
  BY ThresholdAssumption, OrderAssumption
<1>3. Readable(turn) /\ Readable(b)
  BY <1>1, RoundedFacts DEF Readable
<1>4. \A n \in Signals : b.signals[n] >= Med <=> turn.signals[n] >= Med
  BY <1>1, <1>2, RoundedFacts
<1>5. \A classes : AtLeast(b, Med, classes) = AtLeast(turn, Med, classes)
  BY <1>4 DEF AtLeast
<1>6. /\ Flagging(b) = Flagging(turn)
      /\ IsSecurityHit(b) <=> IsSecurityHit(turn)
  BY <1>1, <1>5 DEF Flagging, IsSecurityHit
<1>7. ASSUME Flagging(turn) # {}
      PROVE  FlaggedConf(b) = Rounded(FlaggedConf(turn))
  <2>1. \A n \in Flagging(turn) :
          n \in Signals /\ b.signals[n] = Rounded(turn.signals[n])
    BY <1>1 DEF Flagging, AtLeast
  <2>2. PICK n \in Flagging(turn) : FlaggedConf(turn) = turn.signals[n]
    BY <1>3, <1>7, FlaggedConfIsHighest
  <2>3. PICK m \in Flagging(turn) : FlaggedConf(b) = b.signals[m]
    BY <1>3, <1>6, <1>7, FlaggedConfIsHighest
  <2>4. /\ FlaggedConf(turn) >= turn.signals[m]
        /\ FlaggedConf(b) >= b.signals[n]
    BY <1>3, <1>6, <1>7, FlaggedConfIsHighest
  <2>5. /\ turn.signals[n] \in Nat /\ turn.signals[m] \in Nat
        /\ b.signals[n] = Rounded(turn.signals[n])
        /\ b.signals[m] = Rounded(turn.signals[m])
    BY <1>1, <2>1
  <2>6. Rounded(turn.signals[n]) >= Rounded(turn.signals[m])
    BY <2>2, <2>4, <2>5, RoundedFacts
  <2>7. Rounded(turn.signals[n]) \in Nat /\ Rounded(turn.signals[m]) \in Nat
    BY <2>5, RoundedFacts
  <2> QED BY <2>2, <2>3, <2>4, <2>5, <2>6, <2>7
<1>8. turn.signals["answer_policy_breach"] >= High =>
        b.signals["answer_policy_breach"] >= High
  <2>1. "answer_policy_breach" \in Signals
    BY DEF Signals, ModelSignals
  <2> QED BY <2>1, <1>1, <1>2, RoundedFacts
<1> QED BY <1>1, <1>3, <1>6, <1>7, <1>8

(* Whatever a turn of the session comes from, it is a turn.                *)
LEMMA TurnsAreTurns ==
    ASSUME now \in Nat
    PROVE  /\ \A turn \in Classified : turn \in Turns
           /\ UnscreenedTurn(now) \in Turns
           /\ EmptyTurn(now) \in Turns
           /\ \A class \in ArmorClasses : ArmorTurn(class, now) \in Turns
           /\ ConcurrentTurn(now) \in Turns
<1>1. EmptyTurn(now) \in Turns
  <2>1. Silent \in [Signals -> 0 .. Certain]
    BY DEF Silent, Certain
  <2> QED BY <2>1 DEF EmptyTurn, Turns, ArmorClasses
<1>2. UnscreenedTurn(now) \in Turns
  BY <1>1 DEF UnscreenedTurn, Turns
<1>3. \A class \in ArmorClasses : ArmorTurn(class, now) \in Turns
  BY <1>1 DEF ArmorTurn, Turns
<1>4. ConcurrentTurn(now) \in Turns
  <2>1. [EmptyTurn(now).signals EXCEPT !["concurrent_turn"] = Certain]
            \in [Signals -> 0 .. Certain]
    <3>1. EmptyTurn(now).signals \in [Signals -> 0 .. Certain]
      BY <1>1 DEF Turns
    <3>2. Certain \in 0 .. Certain
      BY DEF Certain
    <3> QED BY <3>1, <3>2
  <2> QED BY <1>1, <2>1 DEF ConcurrentTurn, Turns
<1>5. ASSUME NEW turn \in Classified PROVE turn \in Turns
  <2>1. PICK v \in Verdicts, refused \in BOOLEAN, answered \in BOOLEAN :
            turn = ClassifiedTurn(v, refused, answered, now)
    BY DEF Classified
  <2>2. v \in [Signals -> 0 .. Certain]
    BY SessionAssumption
  <2>3. [n \in Signals |->
            IF \/ n \notin ModelSignals
               \/ n = "answer_policy_breach" /\ ~answered
            THEN 0 ELSE v[n]] \in [Signals -> 0 .. Certain]
    <3>1. 0 \in 0 .. Certain
      BY DEF Certain
    <3> QED BY <2>2, <3>1
  <2>4. (refused /\ answered) \in BOOLEAN
    OBVIOUS
  <2> QED BY <1>1, <2>1, <2>3, <2>4 DEF ClassifiedTurn, Turns
<1> QED BY <1>1, <1>2, <1>3, <1>4, <1>5

(***************************************************************************)
(* The invariant                                                           *)
(***************************************************************************)
\* RebuiltCountsAlike, field by field.
TrailsAlike(r, s) ==
    /\ Len(r) = Len(s)
    /\ \A k \in 1 .. Len(s) : r[k] = Rounded(s[k])

Alike(r, s) ==
    /\ r.turns = s.turns /\ r.flagged = s.flagged
    /\ r.consecutive_flagged = s.consecutive_flagged
    /\ r.security_hits = s.security_hits
    /\ r.security_times = s.security_times
    /\ r.refusals = s.refusals
    /\ r.tier1_hits = s.tier1_hits /\ r.tier2_hits = s.tier2_hits
    /\ r.quarantined = s.quarantined
    /\ r.principal_sessions_flagged = s.principal_sessions_flagged
    /\ TrailsAlike(r.trailing_conf, s.trailing_conf)
    /\ r.breaches >= s.breaches

EngineInv ==
    /\ SessionTypeOK
    /\ HitsLockSession
    /\ TrajectoryIsReported
    /\ Alike(rebuilt, state)

(* Two initial segments of the positive numbers with the same members end  *)
(* at the same number.                                                     *)
LEMMA SameSpan ==
    ASSUME NEW a \in Nat, NEW b \in Nat, 1 .. a = 1 .. b
    PROVE  a = b
<1>1. \A k \in Int : (1 <= k /\ k <= a) <=> (1 <= k /\ k <= b)
  <2> TAKE k \in Int
  <2>1. k \in 1 .. a <=> k \in 1 .. b
    OBVIOUS
  <2> QED BY <2>1
<1>2. CASE a < b
  <2>1. (1 <= b /\ b <= a) <=> (1 <= b /\ b <= b)
    BY <1>1
  <2> QED BY <2>1, <1>2
<1>3. CASE b < a
  <2>1. (1 <= a /\ a <= a) <=> (1 <= a /\ a <= b)
    BY <1>1
  <2> QED BY <2>1, <1>3
<1> QED BY <1>2, <1>3

LEMMA AlikeIsAlike ==
    ASSUME SessionTypeOK
    PROVE  Alike(rebuilt, state) <=> RebuiltCountsAlike
<1>1. /\ rebuilt.trailing_conf \in Seq(Nat) /\ state.trailing_conf \in Seq(Nat)
  BY DEF SessionTypeOK, SessionStates
<1>2. TrailsAlike(rebuilt.trailing_conf, state.trailing_conf) <=>
        rebuilt.trailing_conf =
          [k \in DOMAIN state.trailing_conf |->
              Rounded(state.trailing_conf[k])]
  <2> DEFINE r == rebuilt.trailing_conf
             t == state.trailing_conf
             R == [k \in DOMAIN t |-> Rounded(t[k])]
  <2>1. /\ DOMAIN r = 1 .. Len(r) /\ DOMAIN t = 1 .. Len(t)
        /\ Len(r) \in Nat /\ Len(t) \in Nat
        /\ r = [k \in 1 .. Len(r) |-> r[k]]
    <3>1. ASSUME NEW q \in Seq(Nat)
          PROVE  /\ DOMAIN q = 1 .. Len(q) /\ Len(q) \in Nat
                 /\ q = [k \in 1 .. Len(q) |-> q[k]]
      BY LenProperties
    <3> QED BY <1>1, <3>1
  <2> HIDE DEF r, t
  <2>2. ASSUME TrailsAlike(r, t) PROVE r = R
    BY <2>1, <2>2 DEF TrailsAlike
  <2>3. ASSUME r = R PROVE TrailsAlike(r, t)
    <3>1. 1 .. Len(r) = 1 .. Len(t)
      BY <2>1, <2>3
    <3>2. Len(r) = Len(t)
      BY <2>1, <3>1, SameSpan
    <3>3. \A k \in 1 .. Len(t) : r[k] = Rounded(t[k])
      BY <2>1, <2>3
    <3> QED BY <3>2, <3>3 DEF TrailsAlike
  <2> QED BY <2>2, <2>3 DEF r, t
<1>3. [rebuilt EXCEPT !.trailing_conf = <<>>, !.breaches = 0]
        = [state EXCEPT !.trailing_conf = <<>>, !.breaches = 0]
      <=> /\ rebuilt.turns = state.turns /\ rebuilt.flagged = state.flagged
          /\ rebuilt.consecutive_flagged = state.consecutive_flagged
          /\ rebuilt.security_hits = state.security_hits
          /\ rebuilt.security_times = state.security_times
          /\ rebuilt.refusals = state.refusals
          /\ rebuilt.tier1_hits = state.tier1_hits
          /\ rebuilt.tier2_hits = state.tier2_hits
          /\ rebuilt.quarantined = state.quarantined
          /\ rebuilt.principal_sessions_flagged =
                state.principal_sessions_flagged
  BY DEF SessionTypeOK, SessionStates
<1> QED BY <1>2, <1>3 DEF Alike, RebuiltCountsAlike

(* A session starts with nothing counted, in memory and in the table.      *)
LEMMA InitEngine == SessionInit => EngineInv
<1> SUFFICES ASSUME SessionInit PROVE EngineInv
  OBVIOUS
<1>1. PICK p \in Principals :
        state = [NoSession EXCEPT !.principal_sessions_flagged = p]
        /\ rebuilt = state /\ now = 0 /\ answer = "none"
  BY DEF SessionInit
<1>2. NoSession \in SessionStates
  BY DEF NoSession, SessionStates
<1>3. p \in Nat
  BY SessionAssumption
<1>4. state \in SessionStates
  BY <1>1, <1>2, <1>3 DEF SessionStates
<1>5. SessionTypeOK
  BY <1>1, <1>4 DEF SessionTypeOK, Decisions
<1>6. /\ state.security_hits = 0 /\ state.flagged = 0 /\ state.refusals = 0
      /\ state.trailing_conf = <<>>
  BY <1>1 DEF NoSession
<1>7. HitsLockSession /\ TrajectoryIsReported
  BY <1>6, ThresholdAssumption DEF HitsLockSession, TrajectoryIsReported
<1>8. Len(state.trailing_conf) = 0
  BY <1>6
<1>9. Alike(rebuilt, state)
  <2>1. TrailsAlike(state.trailing_conf, state.trailing_conf)
    BY <1>8 DEF TrailsAlike
  <2>2. state.breaches >= state.breaches
    BY <1>4 DEF SessionStates
  <2> QED BY <1>1, <2>1, <2>2 DEF Alike
<1> QED BY <1>5, <1>7, <1>9 DEF EngineInv

(* What is decided of a turn: the lock before anything else, and nothing   *)
(* withheld in its place.                                                  *)
LEMMA DecisionFacts ==
    ASSUME NEW turn, NEW s, NEW d, d = Answered(turn, Evaluate(turn, s))
    PROVE  /\ d.tier = TierFor(turn, s)
           /\ d.action \in Decisions
           /\ d.action = "quarantine" <=> Locks(turn, s)
           /\ Locks(turn, s) => d.tier = 1
  BY DEF Answered, Evaluate, TierFor, ActionFor, Decisions

(* Both states append, round and cut their trails in the same places.      *)
LEMMA TrailsGrowAlike ==
    ASSUME NEW r \in Seq(Nat), NEW t \in Seq(Nat), TrailsAlike(r, t),
           NEW c \in Nat
    PROVE  TrailsAlike(LastThree(Append(r, Rounded(c))),
                       LastThree(Append(t, c)))
<1> DEFINE u == Append(r, Rounded(c))
           v == Append(t, c)
<1>1. Rounded(c) \in Nat
  BY RoundedFacts
<1>2. /\ u \in Seq(Nat) /\ v \in Seq(Nat) /\ Len(u) = Len(v) /\ Len(v) \in Nat
      /\ \A k \in 1 .. Len(v) : u[k] = Rounded(v[k])
  BY <1>1 DEF TrailsAlike
<1> HIDE DEF u, v
<1> DEFINE cut == IF Len(v) > 3 THEN Len(v) - 3 ELSE 0
<1>3. /\ Len(LastThree(u)) = IF Len(v) > 3 THEN 3 ELSE Len(v)
      /\ Len(LastThree(v)) = IF Len(v) > 3 THEN 3 ELSE Len(v)
      /\ \A k \in 1 .. Len(LastThree(v)) :
            /\ LastThree(u)[k] = u[k + cut]
            /\ LastThree(v)[k] = v[k + cut]
  BY <1>2, LastThreeFacts
<1>4. \A k \in 1 .. Len(LastThree(v)) : k + cut \in 1 .. Len(v)
  BY <1>2, <1>3
<1>5. \A k \in 1 .. Len(LastThree(v)) :
        LastThree(u)[k] = Rounded(LastThree(v)[k])
  BY <1>2, <1>3, <1>4
<1>6. TrailsAlike(LastThree(u), LastThree(v))
  BY <1>3, <1>5 DEF TrailsAlike
<1> QED BY <1>6 DEF u, v

(* The row of a turn takes the rebuilt state where the turn took the other.*)
LEMMA AdvanceAlike ==
    ASSUME NEW s \in SessionStates, NEW r \in SessionStates, Alike(r, s),
           NEW turn \in Turns, NEW d
    PROVE  Alike(AdvanceFromRow(r, EvidenceRow(turn, d)),
                 Advance(s, turn, d.tier, d.action))
<1> DEFINE b == ReadBack(EvidenceRow(turn, d))
           x == AdvanceFromRow(r, EvidenceRow(turn, d))
           y == Advance(s, turn, d.tier, d.action)
<1>1. x = Advance(r, b, d.tier, d.action)
  BY DEF AdvanceFromRow, ReadBack, EvidenceRow
<1>2. /\ Readable(turn) /\ Readable(b)
      /\ b.ts = turn.ts /\ b.agent_refused = turn.agent_refused
      /\ Flagging(b) = Flagging(turn)
      /\ IsSecurityHit(b) <=> IsSecurityHit(turn)
      /\ Flagging(turn) # {} => FlaggedConf(b) = Rounded(FlaggedConf(turn))
      /\ turn.signals["answer_policy_breach"] >= High =>
            b.signals["answer_policy_breach"] >= High
  BY RowReadsBack
<1> HIDE DEF b, x, y
<1>3. TrailsAlike(x.trailing_conf, y.trailing_conf)
  <2>1. CASE Flagging(turn) # {}
    <3>1. FlaggedConf(turn) \in Nat
      BY <2>1, <1>2, FlaggedConfIsHighest
    <3>2. /\ x.trailing_conf =
                LastThree(Append(r.trailing_conf, Rounded(FlaggedConf(turn))))
          /\ y.trailing_conf =
                LastThree(Append(s.trailing_conf, FlaggedConf(turn)))
      BY <2>1, <1>1, <1>2, AdvanceFields DEF y
    <3>3. /\ r.trailing_conf \in Seq(Nat) /\ s.trailing_conf \in Seq(Nat)
          /\ TrailsAlike(r.trailing_conf, s.trailing_conf)
      BY DEF SessionStates, Alike
    <3> QED BY <3>1, <3>2, <3>3, TrailsGrowAlike
  <2>2. CASE Flagging(turn) = {}
    BY <2>2, <1>1, <1>2, AdvanceFields DEF y, Alike
  <2> QED BY <2>1, <2>2
<1>4. x.breaches >= y.breaches
  <2>1. /\ x.breaches = r.breaches
                + One(b.signals["answer_policy_breach"] >= High)
        /\ y.breaches = s.breaches
                + One(turn.signals["answer_policy_breach"] >= High)
    BY <1>1, AdvanceFields DEF y
  <2>2. r.breaches >= s.breaches /\ r.breaches \in Nat /\ s.breaches \in Nat
    BY DEF Alike, SessionStates
  <2> QED BY <2>1, <2>2, <1>2 DEF One
<1>5. /\ x.turns = y.turns /\ x.flagged = y.flagged
      /\ x.consecutive_flagged = y.consecutive_flagged
      /\ x.security_times = y.security_times
      /\ x.principal_sessions_flagged = y.principal_sessions_flagged
      /\ x.tier1_hits = y.tier1_hits /\ x.tier2_hits = y.tier2_hits
      /\ x.refusals = y.refusals
  BY <1>1, <1>2, AdvanceFields DEF y, Alike
<1>6. x.security_hits = y.security_hits
  BY <1>1, <1>2, AdvanceFields DEF y, Alike, One
<1>7. x.quarantined = y.quarantined
  <2>1. x.quarantined \in BOOLEAN /\ y.quarantined \in BOOLEAN
    BY <1>1, <1>2, AdvanceType DEF y, SessionStates
  <2>2. x.quarantined <=> y.quarantined
    BY <1>1, AdvanceFields DEF y, Alike
  <2> QED BY <2>1, <2>2
<1>8. Alike(x, y)
  BY <1>3, <1>4, <1>5, <1>6, <1>7 DEF Alike
<1> QED BY <1>8 DEF x, y

(***************************************************************************)
(* Every step                                                              *)
(***************************************************************************)
(* What one turn does, whatever kind it is.                                *)
LEMMA DecideKeeps ==
    ASSUME EngineInv, NEW turn \in Turns, Decide(turn)
    PROVE  EngineInv'
<1> DEFINE d == Answered(turn, Evaluate(turn, state))
<1>1. /\ state' = Advance(state, turn, d.tier, d.action)
      /\ rebuilt' = AdvanceFromRow(rebuilt, EvidenceRow(turn, d))
      /\ answer' = d.action
      /\ now' = now
  BY DEF Decide
<1>2. /\ d.tier = TierFor(turn, state)
      /\ d.action \in Decisions
      /\ d.action = "quarantine" <=> Locks(turn, state)
      /\ Locks(turn, state) => d.tier = 1
  BY DecisionFacts
<1> HIDE DEF d
<1>3. state \in SessionStates /\ rebuilt \in SessionStates /\ now \in Nat
  BY DEF EngineInv, SessionTypeOK
<1>4. SessionTypeOK'
  <2>1. Readable(turn) /\ Readable(ReadBack(EvidenceRow(turn, d)))
    BY RowReadsBack
  <2>2. state' \in SessionStates
    BY <1>1, <1>3, <2>1, AdvanceType
  <2>3. rebuilt' = Advance(rebuilt, ReadBack(EvidenceRow(turn, d)),
                           d.tier, d.action)
    BY <1>1 DEF AdvanceFromRow, ReadBack, EvidenceRow
  <2>4. rebuilt' \in SessionStates
    BY <1>3, <2>1, <2>3, AdvanceType
  <2> QED BY <1>1, <1>2, <1>3, <2>2, <2>4 DEF SessionTypeOK
<1>5. Alike(rebuilt, state)'
  <2>1. Alike(AdvanceFromRow(rebuilt, EvidenceRow(turn, d)),
              Advance(state, turn, d.tier, d.action))
    BY <1>3, AdvanceAlike DEF EngineInv
  <2>2. Alike(rebuilt', state')
    BY <1>1, <2>1
  <2> QED BY <2>2 DEF Alike, TrailsAlike
<1>6. /\ state'.flagged = state.flagged + One(Flagging(turn) # {})
      /\ state'.security_hits = SecNow(turn, state)
      /\ state'.refusals = state.refusals + One(turn.agent_refused)
      /\ state'.tier1_hits = state.tier1_hits + One(d.tier = 1)
      /\ state'.tier2_hits = state.tier2_hits + One(d.tier = 2)
      /\ state'.quarantined <=> state.quarantined \/ d.action = "quarantine"
  BY <1>1, <1>3, AdvanceFields DEF SecNow
<1>7. HitsLockSession'
  BY <1>2, <1>6 DEF HitsLockSession, Locks
<1>8. TrajectoryIsReported'
  <2>1. state.tier1_hits \in Nat /\ state.tier2_hits \in Nat
    BY <1>3 DEF SessionStates
  <2>2. CASE state.tier1_hits + state.tier2_hits > 0
    BY <2>1, <2>2, <1>6 DEF TrajectoryIsReported, One
  <2>3. CASE d.tier \in {1, 2}
    BY <2>1, <2>3, <1>6 DEF TrajectoryIsReported, One
  <2>4. CASE /\ d.tier \notin {1, 2}
             /\ ~(state.tier1_hits + state.tier2_hits > 0)
    <3>1. ~Review(turn, state)
      BY <2>4, <1>2 DEF TierFor
    <3>2. ~(state.refusals >= RefusalsReview)
      BY <2>4 DEF EngineInv, TrajectoryIsReported
    <3>3. /\ ~(state'.flagged >= SessionFlaggedReview)
          /\ ~(state'.security_hits >= SecurityReview)
      BY <3>1, <1>6 DEF Review
    <3>4. ~(state'.refusals >= RefusalsReview)
      <4>1. CASE turn.agent_refused
        BY <3>1, <4>1, <1>6 DEF Review, RefusedTooOften
      <4>2. CASE ~turn.agent_refused
        BY <3>2, <4>2, <1>3, <1>6 DEF One, SessionStates
      <4> QED BY <4>1, <4>2
    <3> QED BY <3>3, <3>4 DEF TrajectoryIsReported
  <2>5. d.tier \in {1, 2} \/ d.tier \notin {1, 2}
    OBVIOUS
  <2> QED BY <2>2, <2>3, <2>4, <2>5
<1> QED BY <1>4, <1>5, <1>7, <1>8 DEF EngineInv

(* Every step but a tick decides a turn.                                   *)
LEMMA NextDecides ==
    ASSUME EngineInv, SessionNext
    PROVE  (\E turn \in Turns : Decide(turn)) \/ Tick
<1>1. now \in Nat
  BY DEF EngineInv, SessionTypeOK
<1> QED BY <1>1, TurnsAreTurns
        DEF SessionNext, Screened, Unscreened, Locked, ArmorBlocked, TurnedAway

LEMMA StepEngine == EngineInv /\ [SessionNext]_sessionVars => EngineInv'
<1> SUFFICES ASSUME EngineInv, [SessionNext]_sessionVars
             PROVE  EngineInv'
  OBVIOUS
<1>1. CASE Tick \/ UNCHANGED sessionVars
  <2>1. UNCHANGED <<state, rebuilt, answer>> /\ now' \in Nat
    BY <1>1 DEF Tick, sessionVars, EngineInv, SessionTypeOK
  <2>2. SessionTypeOK' /\ HitsLockSession' /\ TrajectoryIsReported'
    BY <2>1 DEF EngineInv, SessionTypeOK, HitsLockSession, TrajectoryIsReported
  <2>3. Alike(rebuilt, state)'
    BY <2>1 DEF EngineInv, Alike, TrailsAlike
  <2> QED BY <2>2, <2>3 DEF EngineInv
<1>2. ASSUME NEW turn \in Turns, Decide(turn) PROVE EngineInv'
  BY <1>2, DecideKeeps
<1> QED BY <1>1, <1>2, NextDecides

LEMMA EngineInvariant == SessionSpec => []EngineInv
  BY InitEngine, StepEngine, PTL DEF SessionSpec

(* State and answers keep their types, for any thresholds (SessionState).  *)
THEOREM EngineTypeCorrect == SessionSpec => []SessionTypeOK
<1>1. EngineInv => SessionTypeOK
  BY DEF EngineInv
<1> QED BY <1>1, EngineInvariant, PTL

(* The hit that brings the count to the limit locks the session, for every *)
(* limit and every way there (safety_signals.py, evaluate).                *)
THEOREM HitsAlwaysLock == SessionSpec => []HitsLockSession
<1>1. EngineInv => HitsLockSession
  BY DEF EngineInv
<1> QED BY <1>1, EngineInvariant, PTL

(* No session reaches a limit of its trajectory without a control event.   *)
THEOREM TrajectoriesAreReported == SessionSpec => []TrajectoryIsReported
<1>1. EngineInv => TrajectoryIsReported
  BY DEF EngineInv
<1> QED BY <1>1, EngineInvariant, PTL

(* What load_state rebuilds from any number of rows counts what the turns  *)
(* themselves counted (evidence_row, state_from_rows).                     *)
THEOREM RowsCarryTheState == SessionSpec => []RebuiltCountsAlike
<1>1. EngineInv => RebuiltCountsAlike
  BY AlikeIsAlike DEF EngineInv
<1> QED BY <1>1, EngineInvariant, PTL

(* A locked session stays locked and answers every turn with the lock.     *)
THEOREM LocksAreFinal == SessionSpec => LockIsFinal
<1>1. ASSUME EngineInv, [SessionNext]_sessionVars, state.quarantined
      PROVE  /\ state'.quarantined
             /\ state' # state => /\ answer' = "quarantine"
                                 /\ state'.tier1_hits > state.tier1_hits
  <2>1. CASE Tick \/ UNCHANGED sessionVars
    BY <1>1, <2>1 DEF Tick, sessionVars
  <2>2. ASSUME NEW turn \in Turns, Decide(turn)
        PROVE  /\ state'.quarantined
               /\ answer' = "quarantine"
               /\ state'.tier1_hits > state.tier1_hits
    <3> DEFINE d == Answered(turn, Evaluate(turn, state))
    <3>1. /\ state' = Advance(state, turn, d.tier, d.action)
          /\ answer' = d.action
      BY <2>2 DEF Decide
    <3>2. d.action = "quarantine" /\ d.tier = 1
      BY <1>1, DecisionFacts DEF Locks
    <3> HIDE DEF d
    <3>3. state \in SessionStates
      BY <1>1 DEF EngineInv, SessionTypeOK
    <3>4. /\ state'.tier1_hits = state.tier1_hits + One(d.tier = 1)
          /\ state'.quarantined
      BY <1>1, <3>1, <3>3, AdvanceFields
    <3> QED BY <3>1, <3>2, <3>3, <3>4 DEF One, SessionStates
  <2> QED BY <1>1, <2>1, <2>2, NextDecides
<1>2. EngineInv /\ [SessionNext]_sessionVars =>
        [state.quarantined =>
            /\ state'.quarantined
            /\ state' # state =>
                    answer' = "quarantine"
                    /\ state'.tier1_hits > state.tier1_hits]_sessionVars
  BY <1>1
<1> QED BY <1>2, EngineInvariant, PTL DEF SessionSpec, LockIsFinal

=============================================================================
