------------------------- MODULE BackOffice_proofs --------------------------
(***************************************************************************)
(* Theorems about the back office: the loan workflow, the golden           *)
(* evaluations, the agent registry and the knowledge search.  They share   *)
(* no state.                                                               *)
(***************************************************************************)
EXTENDS Loan, GoldenEvals, AgentRegistry, KnowledgeSearch,
        SequenceTheorems, FunctionTheorems, FiniteSetTheorems,
        WellFoundedInduction, TLAPS

(***************************************************************************)
(* Loan approval.  The invariant is one of each loan: what was filed, what *)
(* the policy went by, the row before the status, and the decisions in     *)
(* turn for as long as one process takes them.                             *)
(***************************************************************************)
LoanRow == [id : Nat, version : Nat,
            decision : Decisions \cup {"APPROVE", "REJECT"},
            approver : Approvers]
SubmittingCall == [stage : {"create", "assess", "pend"}, at : Instances,
                   loan : Loans, workflow : BOOLEAN]
DecidingCall == [stage : {"append", "insert", "update", "audit"},
                 at : Instances, loan : Loans, row : LoanRow,
                 workflow : BOOLEAN]

LoanTypes ==
    /\ request \in [Loans -> Applications \cup {None}]
    /\ table \in [Loans -> {"absent", "CREATED", "PENDING_APPROVAL",
                            "APPROVED", "REJECTED", "MODIFIED"}]
    /\ risk = [l \in Loans |-> risk[l]]
    /\ rows \in [Loans -> Seq(LoanRow)]
    /\ memory \in [Instances -> [Loans -> Nat]]
    /\ call \in [Calls -> {Idle} \cup SubmittingCall \cup DecidingCall]
    /\ execution = [l \in Loans |-> execution[l]]
    /\ verdict = [l \in Loans |-> verdict[l]]
    /\ made \in [Loans -> Nat]
    /\ taker \in [Loans -> Instances \cup {None, "several"}]

Submits(q, l) == call[q] \in SubmittingCall /\ call[q].loan = l
Decides(q, l) == call[q] \in DecidingCall /\ call[q].loan = l

\* The application of a loan has been filed and no call is about it.
Settled(l) == request[l] # None /\ \A q \in Calls : ~Submits(q, l)

Assessed(l) ==
    /\ risk[l].answered \in BOOLEAN
    /\ risk[l].score = Score(request[l],
                             OverdraftsRead(request[l], risk[l].answered))

Policy(l, decision) ==
    LET true == Score(request[l], request[l].overdrafts) IN
    \/ decision = "REJECT" /\ true >= DeclineMin
    \/ decision = "APPROVE" /\ (true <= AutoApproveMax \/ ~risk[l].answered)

Routed == {"route", "waiting", "capture", "decide", "notify", "done"}

\* What the workflow goes by stands: it was assessed once, before it.
Filed(l) ==
    /\ table[l] # "absent" => request[l] # None
    /\ \A q \in Calls : Decides(q, l) => request[l] # None
    /\ \A q \in Calls : Submits(q, l) =>
          /\ request[l] # None
          /\ \A r \in Calls : Submits(r, l) => r = q
          /\ call[q].stage = "pend" => Assessed(l)
    /\ execution[l] \in Routed => Settled(l) /\ Assessed(l)

Acts(l, by) == by.approver = "auto-policy" => Settled(l)
                                              /\ Policy(l, by.decision)

ByPolicy(l) ==
    /\ execution[l] = "capture" =>
          /\ verdict[l] \in [decision : Decisions \cup {"APPROVE", "REJECT"},
                             approver : Approvers]
          /\ Acts(l, verdict[l])
    /\ \A q \in Calls : Decides(q, l) =>
          /\ Acts(l, call[q].row)
          /\ call[q].workflow => Settled(l) /\ Assessed(l)
    /\ \A k \in 1 .. Len(rows[l]) : Acts(l, rows[l][k])

\* No status before its row.
RowFirst(l) ==
    /\ \A q \in Calls : Decides(q, l) /\ call[q].stage = "update" =>
          \E k \in 1 .. Len(rows[l]) : rows[l][k] = call[q].row
    /\ table[l] \in {"APPROVED", "REJECTED", "MODIFIED"} =>
          \E k \in 1 .. Len(rows[l]) :
             StatusOf(rows[l][k].decision) = table[l]

\* One process takes the loan's decisions, one after the other.
Newest(l, row) ==
    /\ \E k \in 1 .. Len(rows[l]) : rows[l][k] = row
    /\ \A k \in 1 .. Len(rows[l]) : rows[l][k].id = made[l] => rows[l][k] = row

Untaken(l) ==
    /\ made[l] = 0 /\ rows[l] = <<>>
    /\ \A i \in Instances : memory[i][l] = 0
    /\ \A q \in Calls : ~Decides(q, l)

Decided(q, l) ==
    /\ call[q].at = taker[l]
    /\ call[q].row.id = made[l] /\ call[q].row.version = made[l]
    /\ \A r \in Calls : Decides(r, l) => r = q
    /\ IF call[q].stage \in {"append", "insert"}
       THEN \A k \in 1 .. Len(rows[l]) : rows[l][k].id < made[l]
       ELSE Newest(l, call[q].row)
    /\ call[q].stage = "audit" => table[l] = StatusOf(call[q].row.decision)

Taken(l) ==
    /\ taker[l] \in Instances
    /\ made[l] >= 1 /\ Settled(l)
    /\ \A k \in 1 .. Len(rows[l]) : /\ rows[l][k].version = rows[l][k].id
                                    /\ rows[l][k].id <= made[l]
    /\ memory[taker[l]][l]
          = IF \E q \in Calls : Decides(q, l) /\ call[q].stage = "append"
            THEN made[l] - 1 ELSE made[l]
    /\ \A q \in Calls : Decides(q, l) => Decided(q, l)
    /\ (\A q \in Calls : ~Decides(q, l)) =>
          \E k \in 1 .. Len(rows[l]) :
             /\ Newest(l, rows[l][k]) /\ rows[l][k].id = made[l]
             /\ table[l] = StatusOf(rows[l][k].decision)

InTurn(l) == \/ taker[l] = "several"
             \/ taker[l] = None /\ Untaken(l)
             \/ Taken(l)

Sound(l) == Filed(l) /\ ByPolicy(l) /\ RowFirst(l) /\ InTurn(l)

LoanInv == LoanTypes /\ \A l \in Loans : Sound(l)

(* There is no loan, no call and no execution at the start.                *)
LEMMA InitLoanInv == Init => LoanInv
<1> SUFFICES ASSUME Init PROVE LoanInv
  OBVIOUS
<1>1. LoanTypes
  BY DEF Init, LoanTypes, Idle
<1>2. \A q \in Calls : call[q] \notin SubmittingCall \cup DecidingCall
  <2> SUFFICES ASSUME NEW q \in Calls
               PROVE  call[q] \notin SubmittingCall \cup DecidingCall
    OBVIOUS
  <2>1. call[q].stage = "idle"
    BY DEF Init, Idle
  <2> QED BY <2>1 DEF SubmittingCall, DecidingCall
<1>3. \A l \in Loans : Len(rows[l]) = 0
  BY DEF Init
<1>4. \A l \in Loans : Filed(l) /\ ByPolicy(l) /\ RowFirst(l)
  BY <1>2, <1>3
  DEF Init, Filed, ByPolicy, RowFirst, Submits, Decides, Routed
<1>5. \A l \in Loans : InTurn(l)
  BY <1>2 DEF Init, InTurn, Untaken, Decides
<1> QED BY <1>1, <1>4, <1>5 DEF LoanInv, Sound

(***************************************************************************)
(* What a step does to the calls.                                          *)
(***************************************************************************)
(* A call is at rest, submits an application or decides a loan.            *)
LEMMA KindsOfCalls ==
    ASSUME LoanTypes, NEW q \in Calls
    PROVE  /\ call[q].stage \in {"create", "assess", "pend"}
                 <=> call[q] \in SubmittingCall
           /\ call[q].stage \in {"append", "insert", "update", "audit"}
                 <=> call[q] \in DecidingCall
           /\ ~Free(q) <=> call[q] \in SubmittingCall \cup DecidingCall
BY DEF LoanTypes, SubmittingCall, DecidingCall, Idle, Free

\* The call q becomes rec.
Turns(q, rec) == call' = [call EXCEPT ![q] = rec]

(* A call that goes on to a stage changes its own record only.             *)
LEMMA GoesTurns ==
    ASSUME LoanTypes, NEW q \in Calls, NEW stage, Goes(q, stage)
    PROVE  Turns(q, [call[q] EXCEPT !.stage = stage])
BY DEF LoanTypes, Goes, Turns

(* What a call's record becomes, and that the others stay.                 *)
LEMMA TurnsTo ==
    ASSUME LoanTypes, NEW q \in Calls,
           NEW rec \in {Idle} \cup SubmittingCall \cup DecidingCall,
           Turns(q, rec)
    PROVE  /\ call' \in [Calls -> {Idle} \cup SubmittingCall \cup DecidingCall]
           /\ call'[q] = rec
           /\ \A r \in Calls \ {q} : call'[r] = call[r]
BY DEF LoanTypes, Turns

(* A call at rest submits nothing and decides nothing.                     *)
LEMMA IdleIsNone == Idle \notin SubmittingCall /\ Idle \notin DecidingCall
BY DEF Idle, SubmittingCall, DecidingCall

\* Nothing of the loan m is touched; another process may have stopped.
Spares(m) ==
    /\ request'[m] = request[m] /\ table'[m] = table[m]
    /\ risk'[m] = risk[m] /\ rows'[m] = rows[m]
    /\ execution'[m] = execution[m] /\ verdict'[m] = verdict[m]
    /\ made'[m] = made[m] /\ taker'[m] = taker[m]
    /\ \A i \in Instances : \/ memory'[i][m] = memory[i][m]
                            \/ memory'[i][m] = 0 /\ i # taker[m]
    /\ \A q \in Calls : /\ Submits(q, m)' <=> Submits(q, m)
                        /\ Decides(q, m)' <=> Decides(q, m)
                        /\ Submits(q, m) \/ Decides(q, m)
                              => call'[q] = call[q]

(* A loan that a step spares stays sound.                                  *)
LEMMA SparedIsSound ==
    ASSUME NEW m \in Loans, Sound(m), Spares(m) PROVE Sound(m)'
<1>1. Settled(m)' <=> Settled(m)
  BY DEF Spares, Settled
<1>2. Assessed(m)' <=> Assessed(m)
  BY DEF Spares, Assessed
<1>3. \A d : Policy(m, d)' <=> Policy(m, d)
  BY DEF Spares, Policy
<1>4. \A by : Acts(m, by)' <=> Acts(m, by)
  BY <1>1, <1>3 DEF Acts, Policy
<1>5. Filed(m)'
  BY <1>1, <1>2 DEF Sound, Filed, Spares
<1>6. ByPolicy(m)'
  BY <1>1, <1>2, <1>4 DEF Sound, ByPolicy, Spares
<1>7. RowFirst(m)'
  <2>1. ASSUME NEW q \in Calls, Decides(q, m)', call'[q].stage = "update"
        PROVE  \E k \in 1 .. Len(rows'[m]) : rows'[m][k] = call'[q].row
    BY <2>1 DEF Sound, RowFirst, Spares
  <2>2. table'[m] \in {"APPROVED", "REJECTED", "MODIFIED"} =>
            \E k \in 1 .. Len(rows'[m]) :
               StatusOf(rows'[m][k].decision) = table'[m]
    BY DEF Sound, RowFirst, Spares
  <2> QED BY <2>1, <2>2 DEF RowFirst
<1>8. ASSUME taker[m] = "several" PROVE InTurn(m)'
  BY <1>8 DEF InTurn, Spares
<1>9. ASSUME taker[m] = None /\ Untaken(m) PROVE InTurn(m)'
  BY <1>9 DEF InTurn, Untaken, Spares
<1>10. ASSUME Taken(m) PROVE InTurn(m)'
  <2>1. \A row : Newest(m, row)' <=> Newest(m, row)
    BY DEF Newest, Spares
  <2>2. \A q \in Calls : Decides(q, m) => (Decided(q, m)' <=> Decided(q, m))
    BY <2>1 DEF Decided, Spares
  <2>3. Taken(m)'
    <3>1. memory'[taker[m]][m] = memory[taker[m]][m]
      BY <1>10 DEF Taken, Spares
    <3> QED BY <1>1, <1>10, <2>1, <2>2, <3>1 DEF Taken, Spares
  <2> QED BY <2>3 DEF InTurn
<1> QED BY <1>5, <1>6, <1>7, <1>8, <1>9, <1>10 DEF Sound, InTurn

(* Which calls are about a loan after one of them has turned.              *)
LEMMA CallsOf ==
    ASSUME LoanTypes, NEW q \in Calls,
           NEW rec \in {Idle} \cup SubmittingCall \cup DecidingCall,
           Turns(q, rec), NEW l
    PROVE  /\ \A r \in Calls \ {q} : /\ Submits(r, l)' <=> Submits(r, l)
                                     /\ Decides(r, l)' <=> Decides(r, l)
                                     /\ call'[r] = call[r]
           /\ Submits(q, l)' <=> rec \in SubmittingCall /\ rec.loan = l
           /\ Decides(q, l)' <=> rec \in DecidingCall /\ rec.loan = l
           /\ call'[q] = rec
BY TurnsTo DEF Submits, Decides

\* What an action of a call about l leaves alone.
Others(l) ==
    \A m \in Loans \ {l} :
        /\ request'[m] = request[m] /\ table'[m] = table[m]
        /\ risk'[m] = risk[m] /\ rows'[m] = rows[m]
        /\ execution'[m] = execution[m] /\ verdict'[m] = verdict[m]
        /\ made'[m] = made[m] /\ taker'[m] = taker[m]
        /\ \A i \in Instances : memory'[i][m] = memory[i][m]

(* A call disturbs the loan it is about, and no other.                     *)
LEMMA SoundElsewhere ==
    ASSUME LoanInv, NEW q \in Calls, NEW l \in Loans,
           NEW rec \in {Idle} \cup SubmittingCall \cup DecidingCall,
           Turns(q, rec), call[q] = Idle \/ call[q].loan = l,
           rec = Idle \/ rec.loan = l,
           Others(l), LoanTypes', Sound(l)'
    PROVE  LoanInv'
<1> SUFFICES ASSUME NEW m \in Loans \ {l} PROVE Sound(m)'
  BY DEF LoanInv
<1>1. LoanTypes /\ Sound(m)
  BY DEF LoanInv
<1>2. /\ ~Submits(q, m) /\ ~Decides(q, m)
      /\ ~Submits(q, m)' /\ ~Decides(q, m)'
  BY <1>1, CallsOf, IdleIsNone DEF Submits, Decides
<1>3. \A r \in Calls : /\ Submits(r, m)' <=> Submits(r, m)
                       /\ Decides(r, m)' <=> Decides(r, m)
                       /\ Submits(r, m) \/ Decides(r, m)
                             => call'[r] = call[r]
  BY <1>1, <1>2, CallsOf
<1>4. Spares(m)
  BY <1>3 DEF Spares, Others
<1> QED BY <1>1, <1>4, SparedIsSound

\* While an application is in hand, nothing has been decided on it.
LEMMA InHand ==
    ASSUME LoanInv, NEW l \in Loans,
           request[l] = None \/ \E q \in Calls : Submits(q, l)
    PROVE  /\ ~Settled(l) /\ execution[l] \notin Routed
           /\ \A q \in Calls : Decides(q, l) =>
                 /\ call[q].row.approver # "auto-policy"
                 /\ ~call[q].workflow
           /\ \A k \in 1 .. Len(rows[l]) :
                 rows[l][k].approver # "auto-policy"
           /\ \/ taker[l] = "several"
              \/ taker[l] = None /\ Untaken(l)
<1>1. ~Settled(l)
  BY DEF Settled
<1>2. Filed(l) /\ ByPolicy(l) /\ InTurn(l)
  BY DEF LoanInv, Sound
<1> QED BY <1>1, <1>2 DEF Filed, ByPolicy, Acts, InTurn, Taken

(* An application that arrives is filed by one call, in front of           *)
(* everything else about its loan.                                         *)
LEMMA SubmitSound ==
    ASSUME LoanInv, NEW q \in Calls, NEW i \in Instances, NEW l \in Loans,
           NEW f \in Applications, NEW w \in BOOLEAN, Submit(q, i, l, f, w)
    PROVE  LoanInv'
<1> DEFINE rec == [stage |-> "create", at |-> i, loan |-> l, workflow |-> w]
<1>t. LoanTypes /\ Sound(l)
  BY DEF LoanInv
<1>1. /\ request[l] = None /\ request' = [request EXCEPT ![l] = f]
      /\ Turns(q, rec)
      /\ execution' = IF w THEN [execution EXCEPT ![l] = "submit"]
                      ELSE execution
      /\ UNCHANGED <<table, risk, rows, memory, verdict, made, taker>>
      /\ call[q] = Idle
  BY <1>t, KindsOfCalls, IdleIsNone DEF Submit, Turns, LoanTypes, Free
<1>2. rec \in SubmittingCall /\ rec \notin DecidingCall /\ rec.loan = l
      /\ rec.stage = "create"
  BY DEF SubmittingCall, DecidingCall
<1> HIDE DEF rec
<1>3. LoanTypes'
  BY <1>t, <1>1, <1>2, TurnsTo DEF LoanTypes
<1>4. Others(l)
  BY <1>t, <1>1 DEF Others, LoanTypes
<1>5. /\ request'[l] # None /\ ~Settled(l)
      /\ execution[l] \notin Routed /\ execution'[l] \notin Routed
  BY <1>t, <1>1, InHand, SetAssumption DEF LoanTypes, Routed
<1>6. /\ \A r \in Calls : ~Submits(r, l)
      /\ \A r \in Calls : Submits(r, l)' <=> r = q
      /\ \A r \in Calls : /\ Decides(r, l)' <=> Decides(r, l)
                          /\ Decides(r, l) => call'[r] = call[r]
      /\ call'[q] = rec
  BY <1>t, <1>1, <1>2, CallsOf, IdleIsNone DEF Sound, Filed, Submits, Decides
<1>7. Filed(l)'
  BY <1>1, <1>2, <1>5, <1>6 DEF Filed
<1>8. ByPolicy(l)'
  BY <1>1, <1>5, <1>6, InHand DEF ByPolicy, Acts, Routed
<1>9. RowFirst(l)'
  BY <1>t, <1>1, <1>6 DEF Sound, RowFirst
<1>10. InTurn(l)'
  BY <1>1, <1>6, InHand DEF InTurn, Untaken
<1> QED BY <1>1, <1>2, <1>3, <1>4, <1>7, <1>8, <1>9, <1>10, SoundElsewhere
        DEF Sound

\* What a write of the application's own handler may do.
InHandStep(q, l, rec) ==
    /\ Submits(q, l)
    /\ rec = Idle \/ (rec \in SubmittingCall /\ rec.loan = l)
    /\ Turns(q, rec)
    /\ \/ UNCHANGED table
       \/ table' = [table EXCEPT ![l] = "CREATED"]
       \/ table' = [table EXCEPT ![l] = "PENDING_APPROVAL"]
    /\ UNCHANGED risk \/ \E x : risk' = [risk EXCEPT ![l] = x]
    /\ \/ UNCHANGED execution
       \/ execution' = [execution EXCEPT ![l] = "failed"]
       \/ /\ execution' = [execution EXCEPT ![l] = "route"]
          /\ rec = Idle /\ Assessed(l)'
    /\ rec # Idle /\ rec.stage = "pend" => Assessed(l)'
    /\ UNCHANGED <<request, rows, memory, verdict, made, taker>>

(* A write of the application's handler preserves the invariant.           *)
LEMMA InHandIsSound ==
    ASSUME LoanInv, NEW q \in Calls, NEW l \in Loans,
           NEW rec, InHandStep(q, l, rec)
    PROVE  LoanInv'
<1>t. LoanTypes /\ Sound(l)
  BY DEF LoanInv
<1>1. /\ rec \in {Idle} \cup SubmittingCall \cup DecidingCall
      /\ rec \notin DecidingCall /\ (rec = Idle \/ rec.loan = l)
      /\ Turns(q, rec) /\ call[q].loan = l
  <2>1. rec \in SubmittingCall => rec \notin DecidingCall
    BY DEF SubmittingCall, DecidingCall
  <2> QED BY <2>1, IdleIsNone DEF InHandStep, Submits
<1>2. /\ \A r \in Calls : Decides(r, l)' <=> Decides(r, l)
      /\ \A r \in Calls : Decides(r, l) => call'[r] = call[r]
      /\ \A r \in Calls : Submits(r, l)' => r = q /\ rec # Idle
      /\ call'[q] = rec /\ \A r \in Calls : Submits(r, l) => r = q
  <2>1. ~Decides(q, l)
    BY DEF InHandStep, Submits, Decides, SubmittingCall, DecidingCall
  <2>2. \A r \in Calls : Submits(r, l) => r = q
    BY <1>t DEF Sound, Filed, InHandStep
  <2>3. /\ \A r \in Calls \ {q} : /\ Submits(r, l)' <=> Submits(r, l)
                                  /\ Decides(r, l)' <=> Decides(r, l)
                                  /\ call'[r] = call[r]
        /\ Decides(q, l)' <=> rec \in DecidingCall /\ rec.loan = l
        /\ Submits(q, l)' <=> rec \in SubmittingCall /\ rec.loan = l
        /\ call'[q] = rec
    BY <1>t, <1>1, CallsOf
  <2>4. Submits(q, l)' => rec # Idle
    BY <2>3, IdleIsNone
  <2>5. \A r \in Calls : Decides(r, l)' <=> Decides(r, l)
    BY <1>1, <2>1, <2>3 DEF Decides
  <2>6. \A r \in Calls : Decides(r, l) => call'[r] = call[r]
    BY <2>1, <2>3 DEF Decides
  <2>7. \A r \in Calls : Submits(r, l)' => r = q /\ rec # Idle
    BY <2>2, <2>3, <2>4 DEF Submits
  <2> QED BY <2>2, <2>3, <2>5, <2>6, <2>7
<1>3. LoanTypes'
  <2>1. call' \in [Calls -> {Idle} \cup SubmittingCall \cup DecidingCall]
    BY <1>t, <1>1, TurnsTo
  <2>2. table' \in [Loans -> {"absent", "CREATED", "PENDING_APPROVAL",
                            "APPROVED", "REJECTED", "MODIFIED"}]
    BY <1>t DEF InHandStep, LoanTypes
  <2>3. risk' = [m \in Loans |-> risk'[m]]
    BY <1>t DEF InHandStep, LoanTypes
  <2>4. execution' = [m \in Loans |-> execution'[m]]
    BY <1>t DEF InHandStep, LoanTypes
  <2> QED BY <1>t, <2>1, <2>2, <2>3, <2>4 DEF InHandStep, LoanTypes
<1>4. Others(l)
  BY <1>t DEF Others, LoanTypes, InHandStep
<1>5. /\ request'[l] # None /\ request'[l] = request[l]
      /\ execution[l] \notin Routed
      /\ execution'[l] \in Routed => rec = Idle /\ Assessed(l)'
      /\ table'[l] = table[l] \/ table'[l] \in {"CREATED", "PENDING_APPROVAL"}
  <2>1. execution[l] \notin Routed
    BY InHand DEF InHandStep
  <2>2. request'[l] # None /\ request'[l] = request[l]
    BY <1>t DEF InHandStep, Sound, Filed
  <2>3. execution'[l] \in Routed => rec = Idle /\ Assessed(l)'
    BY <1>t, <2>1 DEF InHandStep, Routed, LoanTypes
  <2> QED BY <1>t, <2>1, <2>2, <2>3 DEF InHandStep, LoanTypes
<1>6. Filed(l)'
  <2>1. Settled(l)' \/ rec # Idle
    BY <1>2, <1>5 DEF Settled
  <2>2. call'[q].stage = "pend" /\ rec # Idle => Assessed(l)'
    BY <1>2 DEF InHandStep
  <2> QED BY <1>2, <1>5, <2>1, <2>2 DEF Filed
<1>7. ByPolicy(l)'
  <2>1. execution'[l] # "capture"
    <3>1. execution[l] # "capture"
      BY <1>5 DEF Routed
    <3> QED BY <1>t, <3>1 DEF InHandStep, LoanTypes
  <2>2. ASSUME NEW r \in Calls, Decides(r, l)'
        PROVE  call'[r].row.approver # "auto-policy" /\ ~call'[r].workflow
    BY <1>2, <2>2, InHand DEF InHandStep
  <2>3. \A k \in 1 .. Len(rows'[l]) : rows'[l][k].approver # "auto-policy"
    BY InHand DEF InHandStep
  <2> QED BY <2>1, <2>2, <2>3 DEF ByPolicy, Acts
<1>8. RowFirst(l)'
  <2>1. ASSUME NEW r \in Calls, Decides(r, l)', call'[r].stage = "update"
        PROVE  \E k \in 1 .. Len(rows'[l]) : rows'[l][k] = call'[r].row
    BY <1>t, <1>2, <2>1 DEF Sound, RowFirst, InHandStep
  <2> QED BY <1>t, <1>5, <2>1 DEF Sound, RowFirst, InHandStep
<1>9. InTurn(l)'
  BY <1>2, InHand DEF InTurn, Untaken, InHandStep
<1> QED BY <1>1, <1>3, <1>4, <1>6, <1>7, <1>8, <1>9, SoundElsewhere
        DEF Sound

(* A call that fails ends, and fails the execution that waits for it.      *)
LEMMA FailsInHand ==
    ASSUME NEW q \in Calls, NEW l, call[q].loan = l, Fails(q)
    PROVE  /\ Turns(q, Idle)
           /\ \/ UNCHANGED execution
              \/ execution' = [execution EXCEPT ![l] = "failed"]
BY DEF Fails, Answers, Turns

(* The row of the loan is created, or its handler fails.                   *)
LEMMA CreateLoanSound ==
    ASSUME LoanInv, NEW q \in Calls, CreateLoan(q) PROVE LoanInv'
<1>t. LoanTypes
  BY DEF LoanInv
<1>1. PICK l \in Loans : l = call[q].loan /\ Submits(q, l)
  BY <1>t, KindsOfCalls DEF CreateLoan, Submits, SubmittingCall
<1>2. PICK rec : InHandStep(q, l, rec)
  <2>1. CASE Goes(q, "assess") /\ UNCHANGED execution
    <3> DEFINE rec == [call[q] EXCEPT !.stage = "assess"]
    <3>1. rec \in SubmittingCall /\ rec.loan = l /\ rec.stage = "assess"
      BY <1>1 DEF Submits, SubmittingCall
    <3>2. Turns(q, rec)
      BY <1>t, <2>1, GoesTurns
    <3> HIDE DEF rec
    <3> QED BY <1>1, <2>1, <3>1, <3>2 DEF InHandStep, CreateLoan
  <2>2. CASE Fails(q)
    <3> QED BY <1>1, <2>2, FailsInHand DEF InHandStep, CreateLoan
  <2> QED BY <2>1, <2>2 DEF CreateLoan
<1> QED BY <1>1, <1>2, InHandIsSound

(* The risk that is recorded is the score of the application as read, with *)
(* or without the overdrafts.                                              *)
LEMMA AssessSound ==
    ASSUME LoanInv, NEW q \in Calls, Assess(q) PROVE LoanInv'
<1>t. LoanTypes
  BY DEF LoanInv
<1>1. PICK l \in Loans : l = call[q].loan /\ Submits(q, l)
  BY <1>t, KindsOfCalls DEF Assess, Submits, SubmittingCall
<1>2. PICK answered \in BOOLEAN :
         LET written == [risk EXCEPT ![l] =
                [score |-> Score(request[l],
                                 OverdraftsRead(request[l], answered)),
                 answered |-> answered]]
         IN \/ risk' = written /\ Goes(q, "pend") /\ UNCHANGED execution
            \/ risk' \in {risk, written} /\ Fails(q)
  BY <1>1 DEF Assess
<1> DEFINE x == [score |-> Score(request[l],
                                 OverdraftsRead(request[l], answered)),
                 answered |-> answered]
<1>3. PICK rec : InHandStep(q, l, rec)
  <2>1. CASE /\ risk' = [risk EXCEPT ![l] = x]
             /\ Goes(q, "pend") /\ UNCHANGED execution
    <3> DEFINE rec == [call[q] EXCEPT !.stage = "pend"]
    <3>1. rec \in SubmittingCall /\ rec.loan = l /\ rec.stage = "pend"
      BY <1>1 DEF Submits, SubmittingCall
    <3>2. Turns(q, rec)
      BY <1>t, <2>1, GoesTurns
    <3>3. risk'[l] = x /\ request' = request
      BY <1>t, <1>1, <2>1 DEF LoanTypes, Assess
    <3>4. Assessed(l)'
      <4>1. risk'[l].answered = answered
        BY <3>3
      <4>2. risk'[l].score
               = Score(request[l], OverdraftsRead(request[l], answered))
        BY <3>3
      <4>3. Score(request[l], OverdraftsRead(request[l], answered))
               = Score(request'[l], OverdraftsRead(request'[l],
                                                   risk'[l].answered))
        BY <3>3, <4>1
      <4> QED BY <4>1, <4>2, <4>3 DEF Assessed
    <3>5. \E y : risk' = [risk EXCEPT ![l] = y]
      BY <2>1
    <3> HIDE DEF rec, x
    <3> QED BY <1>1, <2>1, <3>1, <3>2, <3>4, <3>5 DEF InHandStep, Assess
  <2>2. CASE risk' \in {risk, [risk EXCEPT ![l] = x]} /\ Fails(q)
    <3> HIDE DEF x
    <3> QED BY <1>1, <2>2, FailsInHand DEF InHandStep, Assess
  <2> QED BY <1>2, <2>1, <2>2
<1> QED BY <1>1, <1>3, InHandIsSound

(* The loan awaits its decision once its assessment is recorded.           *)
LEMMA PendSound ==
    ASSUME LoanInv, NEW q \in Calls, Pend(q) PROVE LoanInv'
<1>t. LoanTypes
  BY DEF LoanInv
<1>1. PICK l \in Loans : l = call[q].loan /\ Submits(q, l)
  BY <1>t, KindsOfCalls DEF Pend, Submits, SubmittingCall
<1>2. Assessed(l)' /\ Turns(q, Idle)
  <2>1. Assessed(l)
    BY <1>1 DEF Pend, LoanInv, Sound, Filed
  <2>2. Assessed(l)'
    BY <2>1 DEF Pend, Assessed
  <2> QED BY <2>2 DEF Pend, Fails, Answers, Turns
<1>3. InHandStep(q, l, Idle)
  <2>1. CASE Answers(q, "route") /\ table' = [table EXCEPT
                                              ![l] = "PENDING_APPROVAL"]
    <3>1. \/ UNCHANGED execution
          \/ execution' = [execution EXCEPT ![l] = "route"]
      BY <1>1, <2>1 DEF Answers
    <3> QED BY <1>1, <1>2, <2>1, <3>1 DEF InHandStep, Pend
  <2>2. CASE Fails(q)
    BY <1>1, <1>2, <2>2, FailsInHand DEF InHandStep, Pend
  <2> QED BY <1>1, <2>1, <2>2 DEF Pend
<1> QED BY <1>1, <1>3, InHandIsSound

(***************************************************************************)
(* Decisions                                                               *)
(***************************************************************************)
\* A decision is taken, by a person or by the execution.
BeginStep(q, i, l, d, a, w) ==
    /\ Begin(q, i, l, d, a, w)
    /\ UNCHANGED <<request, table, risk, rows, memory, verdict>>
    /\ a = "auto-policy" => Settled(l) /\ Policy(l, d)
    /\ w => Settled(l) /\ Assessed(l)
    /\ UNCHANGED execution
          \/ (w /\ execution' = [execution EXCEPT ![l] = "decide"])

(* A decision takes its version from the memory of one process: the loan   *)
(* is this process's own, or from now on several processes'.               *)
LEMMA BeginSound ==
    ASSUME LoanInv, NEW q \in Calls, NEW i \in Instances, NEW l \in Loans,
           NEW d \in Decisions \cup {"APPROVE", "REJECT"},
           NEW a \in Approvers, NEW w \in BOOLEAN,
           BeginStep(q, i, l, d, a, w)
    PROVE  LoanInv'
<1> DEFINE row == [id |-> made[l] + 1, version |-> Version(i, l),
                   decision |-> d, approver |-> a]
           rec == [stage |-> "append", at |-> i, loan |-> l,
                   workflow |-> w, row |-> row]
<1>t. LoanTypes /\ Sound(l) /\ made[l] \in Nat /\ memory[i][l] \in Nat
  BY DEF LoanInv, LoanTypes
<1>1. /\ Turns(q, rec) /\ call[q] = Idle /\ table[l] # "absent"
      /\ made' = [made EXCEPT ![l] = @ + 1]
      /\ taker' = [taker EXCEPT ![l] =
            IF @ \in {None, i} /\ InFlight(l) = {} THEN i ELSE "several"]
      /\ UNCHANGED <<request, table, risk, rows, memory, verdict>>
      /\ a = "auto-policy" => Settled(l) /\ Policy(l, d)
      /\ w => Settled(l) /\ Assessed(l)
      /\ \/ UNCHANGED execution
         \/ w /\ execution' = [execution EXCEPT ![l] = "decide"]
  <2>1. Turns(q, rec)
    BY DEF BeginStep, Begin, Turns
  <2>2. call[q] = Idle
    BY <1>t, KindsOfCalls, IdleIsNone DEF BeginStep, Begin, LoanTypes, Free
  <2> HIDE DEF rec
  <2> QED BY <2>1, <2>2 DEF BeginStep, Begin
<1>2. /\ row \in LoanRow
      /\ row.id = made[l] + 1 /\ row.version = memory[i][l] + 1
      /\ row.decision = d /\ row.approver = a
  BY <1>t DEF LoanRow, Version
<1>3. /\ rec \in DecidingCall /\ rec \notin SubmittingCall /\ rec.loan = l
      /\ rec.stage = "append" /\ rec.row = row /\ rec.workflow = w
      /\ rec.at = i
  <2> HIDE DEF row
  <2> QED BY <1>2 DEF DecidingCall, SubmittingCall
<1> HIDE DEF rec, row
<1>4. LoanTypes'
  <2>1. call' \in [Calls -> {Idle} \cup SubmittingCall \cup DecidingCall]
    BY <1>t, <1>1, <1>3, TurnsTo
  <2>2. /\ made' \in [Loans -> Nat]
        /\ taker' \in [Loans -> Instances \cup {None, "several"}]
    BY <1>t, <1>1 DEF LoanTypes
  <2>3. execution' = [m \in Loans |-> execution'[m]]
    BY <1>t, <1>1 DEF LoanTypes
  <2> QED BY <1>t, <1>1, <2>1, <2>2, <2>3 DEF LoanTypes
<1>5. Others(l)
  BY <1>t, <1>1 DEF Others, LoanTypes
<1>6. \A r \in Calls \ {q} :
         /\ Submits(r, l)' <=> Submits(r, l)
         /\ Decides(r, l)' <=> Decides(r, l)
         /\ call'[r] = call[r]
  <2>1. LoanTypes /\ Turns(q, rec)
    BY <1>t, <1>1
  <2>2. rec \in {Idle} \cup SubmittingCall \cup DecidingCall
    BY <1>3
  <2> QED BY <2>1, <2>2, CallsOf
<1>7. \A r \in Calls : Submits(r, l)' <=> Submits(r, l)
  BY <1>t, <1>1, <1>3, CallsOf, IdleIsNone DEF Submits
<1>8. \A r \in Calls : Submits(r, l) => call'[r] = call[r]
  BY <1>t, <1>1, <1>3, <1>6, IdleIsNone DEF Submits
<1>9. Decides(q, l)' /\ ~Decides(q, l) /\ call'[q] = rec
  BY <1>t, <1>1, <1>3, CallsOf, IdleIsNone DEF Decides
<1>10. Settled(l)' <=> Settled(l)
  BY <1>1, <1>7 DEF Settled
<1>11. Assessed(l)' <=> Assessed(l)
  BY <1>1 DEF Assessed
<1>12. \A by : Acts(l, by)' <=> Acts(l, by)
  BY <1>1, <1>10 DEF Acts, Policy
<1>13. Filed(l)'
  <2>1. execution'[l] \in Routed => execution[l] \in Routed \/ w
    BY <1>1, <1>t DEF LoanTypes
  <2>2. \A r \in Calls : Decides(r, l)' => request'[l] # None
    BY <1>t, <1>1 DEF Sound, Filed
  <2>3. \A r \in Calls : Submits(r, l)' =>
          /\ request'[l] # None
          /\ \A s \in Calls : Submits(s, l)' => s = r
          /\ call'[r].stage = "pend" => Assessed(l)'
    BY <1>t, <1>1, <1>7, <1>8, <1>11 DEF Sound, Filed
  <2>4. execution'[l] \in Routed => Settled(l)' /\ Assessed(l)'
    BY <1>t, <1>1, <1>10, <1>11, <2>1 DEF Sound, Filed
  <2>5. table'[l] # "absent" => request'[l] # None
    BY <1>t, <1>1 DEF Sound, Filed
  <2> QED BY <2>2, <2>3, <2>4, <2>5 DEF Filed
<1>14. ByPolicy(l)'
  <2>1. execution'[l] = "capture" => execution[l] = "capture"
    BY <1>1, <1>t DEF LoanTypes
  <2>2. execution'[l] = "capture" =>
          /\ verdict'[l] \in [decision : Decisions \cup {"APPROVE", "REJECT"},
                              approver : Approvers]
          /\ Acts(l, verdict[l])'
    BY <1>t, <1>1, <1>12, <2>1 DEF Sound, ByPolicy
  <2>3. ASSUME NEW r \in Calls, Decides(r, l)'
        PROVE  /\ Acts(l, call[r].row)'
               /\ call'[r].workflow => Settled(l)' /\ Assessed(l)'
    <3>1. CASE r = q
      <4>1. /\ call'[r].row.approver = a /\ call'[r].row.decision = d
            /\ call'[r].workflow = w
        BY <1>2, <1>3, <1>9, <3>1
      <4>2. Policy(l, d)' <=> Policy(l, d)
        BY <1>1 DEF Policy
      <4>3. Acts(l, call[r].row)'
        BY <1>1, <1>10, <4>1, <4>2 DEF Acts, Policy
      <4> QED BY <1>1, <1>10, <1>11, <4>1, <4>3
    <3>2. CASE r # q
      <4>1. Acts(l, call[r].row) /\ call'[r] = call[r]
        BY <1>t, <1>6, <2>3, <3>2 DEF Sound, ByPolicy
      <4>2. call[r].workflow => Settled(l) /\ Assessed(l)
        BY <1>t, <1>6, <2>3, <3>2 DEF Sound, ByPolicy
      <4> QED BY <1>1, <1>10, <1>11, <4>1, <4>2 DEF Acts, Policy
    <3> QED BY <3>1, <3>2
  <2>4. \A k \in 1 .. Len(rows'[l]) : Acts(l, rows[l][k])'
    BY <1>t, <1>1, <1>10 DEF Sound, ByPolicy, Acts, Policy
  <2> QED BY <2>2, <2>3, <2>4 DEF ByPolicy
<1>15. RowFirst(l)'
  <2>1. ASSUME NEW r \in Calls, Decides(r, l)', call'[r].stage = "update"
        PROVE  \E k \in 1 .. Len(rows'[l]) : rows'[l][k] = call'[r].row
    BY <1>t, <1>1, <1>3, <1>6, <1>9, <2>1 DEF Sound, RowFirst
  <2> QED BY <1>t, <1>1, <2>1 DEF Sound, RowFirst
<1>16. InTurn(l)'
  <2>1. CASE ~(taker[l] \in {None, i} /\ InFlight(l) = {})
    <3>1. taker'[l] = "several"
      BY <1>t, <1>1, <2>1 DEF LoanTypes
    <3> QED BY <3>1 DEF InTurn
  <2>2. CASE taker[l] \in {None, i} /\ InFlight(l) = {}
    <3>1. taker'[l] = i /\ made'[l] = made[l] + 1
      BY <1>t, <1>1, <2>2 DEF LoanTypes
    <3>2. \A r \in Calls : ~Submits(r, l) /\ ~Decides(r, l)
      BY <1>t, <2>2, KindsOfCalls DEF InFlight, Submits, Decides
    <3>3. Settled(l)'
      BY <1>t, <1>1, <1>10, <3>2 DEF Settled, Sound, Filed
    <3>4. \A r \in Calls : Decides(r, l)' => r = q
      BY <1>6, <3>2
    <3>5. /\ memory[i][l] = made[l]
          /\ \A k \in 1 .. Len(rows[l]) :
                /\ rows[l][k].version = rows[l][k].id
                /\ rows[l][k].id <= made[l]
      <4>1. CASE taker[l] = None
        <5>1. Untaken(l)
          BY <1>t, <4>1, SetAssumption DEF Sound, InTurn, Taken
        <5> QED BY <5>1 DEF Untaken
      <4>2. CASE taker[l] = i
        <5>1. Taken(l)
          BY <1>t, <4>2, SetAssumption DEF Sound, InTurn
        <5> QED BY <3>2, <4>2, <5>1 DEF Taken
      <4> QED BY <2>2, <4>1, <4>2
    <3>6. \A k \in 1 .. Len(rows[l]) : rows[l][k] \in LoanRow
      BY <1>t, ElementOfSeq DEF LoanTypes
    <3>7. \A k \in 1 .. Len(rows[l]) : rows[l][k].id < made[l] + 1
                                       /\ rows[l][k].id \in Nat
      BY <1>t, <3>5, <3>6 DEF LoanRow
    <3>8. Decided(q, l)'
      BY <1>t, <1>1, <1>2, <1>3, <1>9, <3>1, <3>4, <3>5, <3>7 DEF Decided
    <3>9. memory'[taker'[l]][l]
            = IF \E r \in Calls : Decides(r, l)' /\ call'[r].stage = "append"
              THEN made'[l] - 1 ELSE made'[l]
      BY <1>t, <1>1, <1>3, <1>9, <3>1, <3>5
    <3>10. made'[l] >= 1 /\ taker'[l] \in Instances
      BY <1>t, <3>1
    <3>11. \A k \in 1 .. Len(rows'[l]) :
              /\ rows'[l][k].version = rows'[l][k].id
              /\ rows'[l][k].id <= made'[l]
      BY <1>t, <1>1, <3>1, <3>5, <3>7
    <3>12. Taken(l)'
      BY <1>9, <3>3, <3>4, <3>8, <3>9, <3>10, <3>11 DEF Taken
    <3> QED BY <3>12 DEF InTurn
  <2> QED BY <2>1, <2>2
<1> QED BY <1>1, <1>3, <1>4, <1>5, <1>13, <1>14, <1>15, <1>16, SoundElsewhere
        DEF Sound

\* r is s with copies of row, or none, behind it.
Copied(s, r, row) ==
    /\ Len(s) <= Len(r)
    /\ \A k \in 1 .. Len(s) : r[k] = s[k]
    /\ \A k \in 1 .. Len(r) : k <= Len(s) \/ r[k] = row

(* A row that is appended, once or twice, is there and is all that is new. *)
LEMMA CopiesOf ==
    ASSUME NEW s \in Seq(LoanRow), NEW row \in LoanRow
    PROVE  /\ s \in Seq(LoanRow) /\ Copied(s, s, row)
           /\ Append(s, row) \in Seq(LoanRow)
           /\ Copied(s, Append(s, row), row)
           /\ \E k \in 1 .. Len(Append(s, row)) : Append(s, row)[k] = row
           /\ Append(Append(s, row), row) \in Seq(LoanRow)
           /\ Copied(s, Append(Append(s, row), row), row)
           /\ \E k \in 1 .. Len(Append(Append(s, row), row)) :
                 Append(Append(s, row), row)[k] = row
<1> DEFINE one == Append(s, row)
           two == Append(one, row)
<1>1. /\ one \in Seq(LoanRow) /\ Len(one) = Len(s) + 1
      /\ \A k \in 1 .. Len(s) : one[k] = s[k]
      /\ one[Len(s) + 1] = row
  BY AppendProperties
<1>2. Len(s) \in Nat
  BY LenProperties
<1> HIDE DEF one
<1>3. /\ two \in Seq(LoanRow) /\ Len(two) = Len(one) + 1
      /\ \A k \in 1 .. Len(one) : two[k] = one[k]
      /\ two[Len(one) + 1] = row
  BY <1>1, AppendProperties
<1> HIDE DEF two
<1>4. Copied(s, s, row)
  BY <1>2 DEF Copied
<1>5. Copied(s, one, row) /\ \E k \in 1 .. Len(one) : one[k] = row
  BY <1>1, <1>2 DEF Copied
<1>6. Copied(s, two, row) /\ \E k \in 1 .. Len(two) : two[k] = row
  BY <1>1, <1>2, <1>3 DEF Copied
<1> QED BY <1>1, <1>3, <1>4, <1>5, <1>6 DEF one, two

\* What a write of a decision's handler may do.
DecideStep(q, l, rec, r) ==
    /\ Decides(q, l)
    /\ \/ rec = Idle
       \/ /\ rec \in DecidingCall /\ rec.loan = l /\ rec.at = call[q].at
          /\ rec.row = call[q].row /\ rec.workflow = call[q].workflow
          /\ rec.stage = "update" =>
                \E k \in 1 .. Len(r) : r[k] = call[q].row
    /\ Turns(q, rec)
    /\ \/ UNCHANGED table
       \/ /\ call[q].stage = "update"
          /\ table' = [table EXCEPT ![l] = StatusOf(call[q].row.decision)]
    /\ r \in Seq(LoanRow) /\ Copied(rows[l], r, call[q].row)
    /\ rows' = [rows EXCEPT ![l] = r]
    /\ \/ UNCHANGED memory
       \/ memory' = [memory EXCEPT ![call[q].at][l] = @ + 1]
    /\ \/ UNCHANGED execution
       \/ /\ call[q].workflow
          /\ \E x \in {"failed", "notify"} :
                execution' = [execution EXCEPT ![l] = x]
    /\ UNCHANGED taker \/ taker' = [taker EXCEPT ![l] = "several"]
    /\ UNCHANGED <<request, risk, verdict, made>>

(* A write of a decision's handler preserves the invariant if it keeps the *)
(* decisions of its loan in turn.                                          *)
LEMMA DecideIsSound ==
    ASSUME LoanInv, NEW q \in Calls, NEW l \in Loans, NEW rec, NEW r,
           DecideStep(q, l, rec, r), LoanTypes' => InTurn(l)'
    PROVE  LoanInv'
<1>t. LoanTypes /\ Sound(l) /\ rows[l] \in Seq(LoanRow)
  BY DEF LoanInv, LoanTypes
<1>1. /\ rec \in {Idle} \cup SubmittingCall \cup DecidingCall
      /\ rec \notin SubmittingCall /\ (rec = Idle \/ rec.loan = l)
      /\ Turns(q, rec) /\ call[q].loan = l /\ call[q] \in DecidingCall
      /\ rec \in DecidingCall => /\ rec.row = call[q].row
                                 /\ rec.workflow = call[q].workflow
                                 /\ rec.loan = l
  <2>1. rec \in DecidingCall => rec \notin SubmittingCall
    BY DEF SubmittingCall, DecidingCall
  <2> QED BY <2>1, IdleIsNone DEF DecideStep, Decides
<1>2. \A s \in Calls \ {q} :
         /\ Submits(s, l)' <=> Submits(s, l)
         /\ Decides(s, l)' <=> Decides(s, l)
         /\ call'[s] = call[s]
  <2>1. LoanTypes /\ Turns(q, rec)
    BY <1>t, <1>1
  <2>2. rec \in {Idle} \cup SubmittingCall \cup DecidingCall
    BY <1>1
  <2> QED BY <2>1, <2>2, CallsOf
<1>3. /\ call'[q] = rec /\ ~Submits(q, l) /\ ~Submits(q, l)'
      /\ Decides(q, l) /\ (Decides(q, l)' <=> rec \in DecidingCall)
  <2>1. call'[q] = rec
    BY <1>t, <1>1, TurnsTo
  <2> QED BY <1>1, <2>1, IdleIsNone
          DEF Submits, Decides, SubmittingCall, DecidingCall
<1>4. LoanTypes'
  <2>1. call' \in [Calls -> {Idle} \cup SubmittingCall \cup DecidingCall]
    BY <1>t, <1>1, TurnsTo
  <2>2. table' \in [Loans -> {"absent", "CREATED", "PENDING_APPROVAL",
                              "APPROVED", "REJECTED", "MODIFIED"}]
    BY <1>t DEF DecideStep, LoanTypes, StatusOf
  <2>3. rows' \in [Loans -> Seq(LoanRow)]
    BY <1>t DEF DecideStep, LoanTypes
  <2>4. memory' \in [Instances -> [Loans -> Nat]]
    <3>1. call[q].at \in Instances /\ memory[call[q].at] \in [Loans -> Nat]
      BY <1>t, <1>1 DEF DecidingCall, LoanTypes
    <3>2. [memory[call[q].at] EXCEPT ![l] = @ + 1] \in [Loans -> Nat]
      BY <3>1
    <3> QED BY <1>t, <3>1, <3>2 DEF DecideStep, LoanTypes
  <2>5. execution' = [m \in Loans |-> execution'[m]]
    BY <1>t DEF DecideStep, LoanTypes
  <2>6. taker' \in [Loans -> Instances \cup {None, "several"}]
    <3>1. UNCHANGED taker \/ taker' = [taker EXCEPT ![l] = "several"]
      BY DEF DecideStep
    <3>2. taker \in [Loans -> Instances \cup {None, "several"}]
      BY <1>t DEF LoanTypes
    <3> QED BY <3>1, <3>2
  <2> QED BY <1>t, <2>1, <2>2, <2>3, <2>4, <2>5, <2>6
          DEF DecideStep, LoanTypes
<1>5. Others(l)
  <2>1. \A m \in Loans \ {l}, i \in Instances : memory'[i][m] = memory[i][m]
    <3>1. call[q].at \in Instances
      BY <1>1 DEF DecidingCall
    <3>2. CASE memory' = [memory EXCEPT ![call[q].at][l] = @ + 1]
      <4> DEFINE i == call[q].at
      <4>1. memory' = [memory EXCEPT ![i] = [memory[i] EXCEPT ![l] = @ + 1]]
        BY <3>2
      <4>2. memory[i] \in [Loans -> Nat]
        BY <1>t, <3>1 DEF LoanTypes
      <4> HIDE DEF i
      <4> QED BY <1>t, <4>1, <4>2 DEF LoanTypes
    <3> QED BY <3>2 DEF DecideStep
  <2> QED BY <1>t, <2>1 DEF Others, LoanTypes, DecideStep
<1>6. Settled(l)' <=> Settled(l)
  <2>1. \A s \in Calls : Submits(s, l)' <=> Submits(s, l)
    BY <1>2, <1>3
  <2> QED BY <2>1 DEF Settled, DecideStep
<1>7. Assessed(l)' <=> Assessed(l)
  BY DEF Assessed, DecideStep
<1>8. \A d : Policy(l, d)' <=> Policy(l, d)
  BY DEF Policy, DecideStep
<1>9. Filed(l)'
  <2>1. execution'[l] \in Routed => execution[l] \in Routed
                                    \/ call[q].workflow
    BY <1>t DEF DecideStep, LoanTypes
  <2>2. request[l] # None /\ (call[q].workflow => Settled(l) /\ Assessed(l))
    BY <1>t, <1>3 DEF Sound, Filed, ByPolicy
  <2>3. \A s \in Calls : Submits(s, l)' =>
          /\ request'[l] # None
          /\ \A u \in Calls : Submits(u, l)' => u = s
          /\ call'[s].stage = "pend" => Assessed(l)'
    <3>1. \A s \in Calls : Submits(s, l)' => Submits(s, l) /\ s # q
      BY <1>2, <1>3
    <3>2. request' = request
      BY DEF DecideStep
    <3> QED BY <1>t, <1>2, <1>7, <3>1, <3>2 DEF Sound, Filed
  <2>4. execution'[l] \in Routed => Settled(l)' /\ Assessed(l)'
    BY <1>t, <1>6, <1>7, <2>1, <2>2 DEF Sound, Filed
  <2>5. request'[l] # None
    BY <2>2 DEF DecideStep
  <2> QED BY <2>3, <2>4, <2>5 DEF Filed
<1>10. Acts(l, call[q].row) /\ Copied(rows[l], r, call[q].row)
       /\ rows'[l] = r /\ r \in Seq(LoanRow)
  BY <1>t, <1>3 DEF Sound, ByPolicy, DecideStep, LoanTypes
<1>11. ByPolicy(l)'
  <2>1. execution'[l] = "capture" => execution[l] = "capture"
    BY <1>t DEF DecideStep, LoanTypes
  <2>2. execution'[l] = "capture" =>
          /\ verdict'[l] \in [decision : Decisions \cup {"APPROVE", "REJECT"},
                              approver : Approvers]
          /\ Acts(l, verdict[l])'
    BY <1>t, <1>6, <1>8, <2>1 DEF Sound, ByPolicy, DecideStep, Acts
  <2>3. ASSUME NEW s \in Calls, Decides(s, l)'
        PROVE  /\ Acts(l, call[s].row)'
               /\ call'[s].workflow => Settled(l)' /\ Assessed(l)'
    <3>1. /\ Decides(s, l) /\ call'[s].row = call[s].row
          /\ call'[s].workflow = call[s].workflow
      BY <1>1, <1>2, <1>3, <2>3
    <3>2. /\ Acts(l, call[s].row)
          /\ call[s].workflow => Settled(l) /\ Assessed(l)
      BY <1>t, <3>1 DEF Sound, ByPolicy
    <3> QED BY <1>6, <1>7, <1>8, <3>1, <3>2 DEF Acts
  <2>4. ASSUME NEW k \in 1 .. Len(rows'[l])
        PROVE  Acts(l, rows[l][k])'
    <3>1. PICK x : x = rows'[l][k]
      OBVIOUS
    <3>2. Acts(l, x)
      <4>1. CASE k <= Len(rows[l])
        <5>1. k \in 1 .. Len(rows[l])
          BY <1>t, <1>10, <4>1, LenProperties
        <5> QED BY <1>t, <1>10, <3>1, <5>1 DEF Copied, Sound, ByPolicy
      <4>2. CASE rows'[l][k] = call[q].row
        BY <1>10, <3>1, <4>2
      <4> QED BY <1>10, <4>1, <4>2 DEF Copied
    <3> QED BY <1>6, <1>8, <3>1, <3>2 DEF Acts
  <2> QED BY <2>2, <2>3, <2>4 DEF ByPolicy
<1>12. RowFirst(l)'
  <2>1. \A k \in 1 .. Len(rows[l]) : k \in 1 .. Len(rows'[l])
                                     /\ rows'[l][k] = rows[l][k]
    BY <1>t, <1>10, LenProperties DEF Copied
  <2>2. ASSUME NEW s \in Calls, Decides(s, l)', call'[s].stage = "update"
        PROVE  \E k \in 1 .. Len(rows'[l]) : rows'[l][k] = call'[s].row
    <3>1. CASE s = q
      BY <1>1, <1>3, <1>10, <2>2, <3>1, IdleIsNone DEF DecideStep
    <3>2. CASE s # q
      BY <1>t, <1>2, <2>1, <2>2, <3>2 DEF Sound, RowFirst
    <3> QED BY <3>1, <3>2
  <2>3. ASSUME table'[l] \in {"APPROVED", "REJECTED", "MODIFIED"}
        PROVE  \E k \in 1 .. Len(rows'[l]) :
                  StatusOf(rows'[l][k].decision) = table'[l]
    <3>1. CASE table' = table
      BY <1>t, <2>1, <2>3, <3>1 DEF Sound, RowFirst
    <3>2. CASE /\ call[q].stage = "update"
               /\ table' = [table EXCEPT
                              ![l] = StatusOf(call[q].row.decision)]
      <4>1. PICK k \in 1 .. Len(rows[l]) : rows[l][k] = call[q].row
        BY <1>t, <1>3, <3>2 DEF Sound, RowFirst
      <4>2. table'[l] = StatusOf(call[q].row.decision)
        BY <1>t, <3>2 DEF LoanTypes
      <4> QED BY <2>1, <4>1, <4>2
    <3> QED BY <3>1, <3>2 DEF DecideStep
  <2> QED BY <2>2, <2>3 DEF RowFirst
<1> QED BY <1>1, <1>4, <1>5, <1>9, <1>11, <1>12, SoundElsewhere DEF Sound

\* A decision of a loan that one process takes in turn.
LEMMA DecidedInTurn ==
    ASSUME LoanInv, NEW q \in Calls, NEW l \in Loans, NEW rec, NEW r,
           DecideStep(q, l, rec, r), taker[l] # "several"
    PROVE  /\ Taken(l) /\ Decided(q, l)
           /\ call'[q] = rec /\ rows'[l] = r
           /\ \A s \in Calls : Decides(s, l)' <=> s = q /\ rec # Idle
           /\ \A s \in Calls : Decides(s, l) <=> s = q
           /\ Settled(l)'
           /\ call[q].row \in LoanRow
           /\ call[q].at \in Instances
<1>t. LoanTypes /\ Sound(l)
  BY DEF LoanInv
<1>1. /\ Decides(q, l) /\ call[q] \in DecidingCall /\ Turns(q, rec)
      /\ rec \in {Idle} \cup DecidingCall
      /\ rec # Idle => rec \in DecidingCall /\ rec.loan = l
  BY IdleIsNone DEF DecideStep, Decides
<1>2. Taken(l) /\ Decided(q, l)
  BY <1>t, <1>1 DEF Sound, InTurn, Untaken, Taken
<1>3. \A s \in Calls : Decides(s, l) <=> s = q
  BY <1>1, <1>2 DEF Decided
<1>4. call'[q] = rec /\ \A s \in Calls \ {q} : call'[s] = call[s]
  BY <1>t, <1>1, TurnsTo
<1>5. \A s \in Calls : Decides(s, l)' <=> s = q /\ rec # Idle
  BY <1>1, <1>3, <1>4, IdleIsNone DEF Decides
<1>6. Settled(l)'
  <2>1. Settled(l)
    BY <1>2 DEF Taken
  <2>2. rec \notin SubmittingCall
    BY <1>1, IdleIsNone DEF SubmittingCall, DecidingCall
  <2>3. request' = request
    BY DEF DecideStep
  <2>4. \A s \in Calls : ~Submits(s, l)'
    BY <1>4, <2>1, <2>2 DEF Submits, Settled
  <2> QED BY <2>1, <2>3, <2>4 DEF Settled
<1>7. call[q].row \in LoanRow /\ call[q].at \in Instances
  BY <1>1 DEF DecidingCall
<1>8. rows'[l] = r
  BY <1>t DEF DecideStep, LoanTypes
<1> QED BY <1>2, <1>3, <1>4, <1>5, <1>6, <1>7, <1>8

(* A decision's handler goes on with the row it carries.                   *)
LEMMA DecidingGoes ==
    ASSUME LoanInv, NEW q \in Calls, NEW l \in Loans, Decides(q, l),
           NEW stage \in {"append", "insert", "update", "audit"},
           Goes(q, stage)
    PROVE  \E rec \in DecidingCall :
              /\ Turns(q, rec) /\ rec.stage = stage /\ rec.loan = l
              /\ rec.at = call[q].at /\ rec.row = call[q].row
              /\ rec.workflow = call[q].workflow /\ rec # Idle
<1> DEFINE rec == [call[q] EXCEPT !.stage = stage]
<1>1. /\ rec \in DecidingCall
      /\ rec.stage = stage /\ rec.loan = l
      /\ rec.at = call[q].at /\ rec.row = call[q].row
      /\ rec.workflow = call[q].workflow
  BY DEF Decides, DecidingCall
<1>2. Turns(q, rec)
  BY GoesTurns DEF LoanInv
<1> HIDE DEF rec
<1>3. rec # Idle
  BY <1>1, IdleIsNone
<1> QED BY <1>1, <1>2, <1>3

(* The decision is appended to the process's own list.                     *)
LEMMA AppendRowSound ==
    ASSUME LoanInv, NEW q \in Calls, AppendRow(q) PROVE LoanInv'
<1>t. LoanTypes
  BY DEF LoanInv
<1>1. PICK l \in Loans : l = call[q].loan /\ Decides(q, l)
  BY <1>t, KindsOfCalls DEF AppendRow, Decides, DecidingCall
<1>2. PICK rec \in DecidingCall :
         /\ Turns(q, rec) /\ rec.stage = "insert" /\ rec.loan = l
         /\ rec.at = call[q].at /\ rec.row = call[q].row
         /\ rec.workflow = call[q].workflow /\ rec # Idle
  <2>1. Goes(q, "insert")
    BY DEF AppendRow, WriteOrder
  <2> QED BY <1>1, <2>1, DecidingGoes
<1>3. /\ call[q].stage = "append"
      /\ memory' = [memory EXCEPT ![call[q].at][l] = @ + 1]
      /\ UNCHANGED <<request, table, risk, rows, execution, verdict, made,
                     taker>>
  BY <1>1 DEF AppendRow
<1>4. DecideStep(q, l, rec, rows[l])
  <2>1. call[q].row \in LoanRow /\ rows[l] \in Seq(LoanRow)
    BY <1>t, <1>1 DEF Decides, DecidingCall, LoanTypes
  <2>2. Copied(rows[l], rows[l], call[q].row)
    BY <2>1, CopiesOf
  <2>3. rows' = [rows EXCEPT ![l] = rows[l]]
    BY <1>t, <1>3 DEF LoanTypes
  <2> QED BY <1>1, <1>2, <1>3, <2>1, <2>2, <2>3 DEF DecideStep
<1>5. InTurn(l)'
  <2>1. CASE taker[l] = "several"
    BY <1>3, <2>1 DEF InTurn
  <2>2. CASE taker[l] # "several"
    <3>1. /\ Taken(l) /\ Decided(q, l) /\ call'[q] = rec
          /\ \A s \in Calls : Decides(s, l)' <=> s = q
          /\ \A s \in Calls : Decides(s, l) <=> s = q
          /\ Settled(l)' /\ call[q].at \in Instances
      BY <1>2, <1>4, <2>2, DecidedInTurn
    <3>2. memory'[taker[l]][l] = made[l]
      <4> DEFINE i == call[q].at
      <4>1. taker[l] = i /\ memory[i][l] = made[l] - 1
        BY <1>3, <3>1 DEF Decided, Taken
      <4>2. memory' = [memory EXCEPT ![i] = [memory[i] EXCEPT ![l] = @ + 1]]
        BY <1>3
      <4>3. i \in Instances /\ memory[i] \in [Loans -> Nat] /\ made[l] \in Nat
        BY <1>t, <3>1 DEF LoanTypes
      <4> HIDE DEF i
      <4>4. memory'[i][l] = memory[i][l] + 1
        BY <1>t, <4>2, <4>3 DEF LoanTypes
      <4> QED BY <4>1, <4>3, <4>4
    <3>3. Decided(q, l)'
      BY <1>2, <1>3, <3>1 DEF Decided
    <3>4. ~ \E s \in Calls : Decides(s, l)' /\ call'[s].stage = "append"
      BY <1>2, <3>1
    <3>5. Taken(l)'
      BY <1>3, <3>1, <3>2, <3>3, <3>4 DEF Taken
    <3> QED BY <3>5 DEF InTurn
  <2> QED BY <2>1, <2>2
<1> QED BY <1>1, <1>4, <1>5, DecideIsSound

(* The decision is audited and its call ends.                              *)
LEMMA AuditSound ==
    ASSUME LoanInv, NEW q \in Calls, Audit(q) PROVE LoanInv'
<1>t. LoanTypes
  BY DEF LoanInv
<1>1. PICK l \in Loans : l = call[q].loan /\ Decides(q, l)
  BY <1>t, KindsOfCalls DEF Audit, Decides, DecidingCall
<1>2. /\ call[q].stage = "audit" /\ Turns(q, Idle)
      /\ UNCHANGED <<request, table, risk, rows, memory, verdict, made,
                     taker>>
      /\ \/ UNCHANGED execution
         \/ /\ call[q].workflow
            /\ \E x \in {"failed", "notify"} :
                  execution' = [execution EXCEPT ![l] = x]
  <2>1. CASE Answers(q, "notify")
    BY <1>1, <2>1 DEF Audit, Answers, Turns
  <2>2. CASE Fails(q)
    BY <1>1, <2>2 DEF Audit, Fails, Answers, Turns
  <2> QED BY <2>1, <2>2 DEF Audit
<1>4. DecideStep(q, l, Idle, rows[l])
  <2>1. call[q].row \in LoanRow /\ rows[l] \in Seq(LoanRow)
    BY <1>t, <1>1 DEF Decides, DecidingCall, LoanTypes
  <2>2. Copied(rows[l], rows[l], call[q].row)
    BY <2>1, CopiesOf
  <2>3. rows' = [rows EXCEPT ![l] = rows[l]]
    BY <1>t, <1>2 DEF LoanTypes
  <2> QED BY <1>1, <1>2, <2>1, <2>2, <2>3 DEF DecideStep
<1>5. InTurn(l)'
  <2>1. CASE taker[l] = "several"
    BY <1>2, <2>1 DEF InTurn
  <2>2. CASE taker[l] # "several"
    <3>1. /\ Taken(l) /\ Decided(q, l)
          /\ \A s \in Calls : ~Decides(s, l)'
          /\ \A s \in Calls : Decides(s, l) <=> s = q
          /\ Settled(l)'
      BY <1>4, <2>2, DecidedInTurn
    <3>2. memory[taker[l]][l] = made[l]
      BY <1>2, <3>1 DEF Taken
    <3>3. \E k \in 1 .. Len(rows[l]) :
             /\ Newest(l, rows[l][k]) /\ rows[l][k].id = made[l]
             /\ table[l] = StatusOf(rows[l][k].decision)
      <4>1. Newest(l, call[q].row) /\ call[q].row.id = made[l]
            /\ table[l] = StatusOf(call[q].row.decision)
        BY <1>2, <3>1 DEF Decided
      <4> QED BY <4>1 DEF Newest
    <3>4. \E k \in 1 .. Len(rows'[l]) :
             /\ Newest(l, rows[l][k])' /\ rows'[l][k].id = made'[l]
             /\ table'[l] = StatusOf(rows'[l][k].decision)
      BY <1>2, <3>3 DEF Newest
    <3>5. Taken(l)'
      BY <1>2, <3>1, <3>2, <3>4 DEF Taken
    <3> QED BY <3>5 DEF InTurn
  <2> QED BY <2>1, <2>2
<1> QED BY <1>1, <1>4, <1>5, DecideIsSound

(* The row is inserted, twice when the insert is retried.                  *)
LEMMA InsertRowSound ==
    ASSUME LoanInv, NEW q \in Calls, InsertRow(q) PROVE LoanInv'
<1>t. LoanTypes
  BY DEF LoanInv
<1>1. PICK l \in Loans : l = call[q].loan /\ Decides(q, l)
  BY <1>t, KindsOfCalls DEF InsertRow, Decides, DecidingCall
<1> DEFINE row == call[q].row
           one == Append(rows[l], row)
           two == Append(one, row)
<1>2. row \in LoanRow /\ rows[l] \in Seq(LoanRow)
  BY <1>t, <1>1 DEF Decides, DecidingCall, LoanTypes
<1>3. /\ \A r \in {rows[l], one, two} :
            r \in Seq(LoanRow) /\ Copied(rows[l], r, row)
      /\ \A r \in {one, two} : \E k \in 1 .. Len(r) : r[k] = row
  <2> HIDE DEF row
  <2> QED BY <1>2, CopiesOf
<1>4. call[q].stage = "insert"
      /\ UNCHANGED <<request, table, risk, memory, verdict, made>>
  BY DEF InsertRow
<1>5. CASE \E r \in {one, two} :
              /\ rows' = [rows EXCEPT ![l] = r]
              /\ Goes(q, "update") /\ UNCHANGED <<execution, taker>>
  <2>1. PICK r \in {one, two} : rows' = [rows EXCEPT ![l] = r]
    BY <1>5
  <2>2. Goes(q, "update") /\ UNCHANGED <<execution, taker>>
    BY <1>5
  <2>3. PICK rec \in DecidingCall :
           /\ Turns(q, rec) /\ rec.stage = "update" /\ rec.loan = l
           /\ rec.at = call[q].at /\ rec.row = row
           /\ rec.workflow = call[q].workflow /\ rec # Idle
    BY <1>1, <2>2, DecidingGoes
  <2>4. /\ r \in Seq(LoanRow) /\ Copied(rows[l], r, row)
        /\ \E k \in 1 .. Len(r) : r[k] = row
    BY <1>3
  <2>5. DecideStep(q, l, rec, r)
    <3> HIDE DEF one, two
    <3> QED BY <1>1, <1>4, <2>1, <2>2, <2>3, <2>4 DEF DecideStep
  <2> HIDE DEF one, two, row
  <2>6. InTurn(l)'
    <3>1. CASE taker[l] = "several"
      BY <2>2, <3>1 DEF InTurn
    <3>2. CASE taker[l] # "several"
      <4>1. /\ Taken(l) /\ Decided(q, l) /\ call'[q] = rec /\ rows'[l] = r
            /\ \A s \in Calls : Decides(s, l)' <=> s = q
            /\ \A s \in Calls : Decides(s, l) <=> s = q
            /\ Settled(l)'
        BY <2>3, <2>5, <3>2, DecidedInTurn
      <4>2. /\ row.id = made[l] /\ row.version = made[l]
            /\ \A k \in 1 .. Len(rows[l]) : rows[l][k].id < made[l]
            /\ call[q].at = taker[l] /\ taker[l] \in Instances
            /\ memory[taker[l]][l] = made[l] /\ made[l] >= 1
            /\ made[l] \in Nat
        BY <1>t, <1>4, <4>1 DEF Decided, Taken, row, LoanTypes
      <4>3. \A k \in 1 .. Len(r) : \/ k \in 1 .. Len(rows[l])
                                      /\ r[k] = rows[l][k]
                                   \/ r[k] = row
        BY <1>2, <2>4, LenProperties DEF Copied
      <4>4. \A k \in 1 .. Len(r) : /\ r[k].version = r[k].id
                                   /\ r[k].id <= made[l]
                                   /\ r[k].id = made[l] => r[k] = row
        BY <4>1, <4>2, <4>3 DEF Taken
      <4>5. Newest(l, call[q].row)'
        BY <1>4, <2>3, <2>4, <4>1, <4>4 DEF Newest
      <4>6. Decided(q, l)'
        BY <1>4, <2>2, <2>3, <4>1, <4>2, <4>5 DEF Decided
      <4>7. ~ \E s \in Calls : Decides(s, l)' /\ call'[s].stage = "append"
        BY <2>3, <4>1
      <4>8. Taken(l)'
        BY <1>4, <2>2, <4>1, <4>2, <4>4, <4>6, <4>7 DEF Taken
      <4> QED BY <4>8 DEF InTurn
    <3> QED BY <3>1, <3>2
  <2> QED BY <1>1, <2>5, <2>6, DecideIsSound
<1>6. CASE \E r \in {rows[l], one, two} :
              /\ rows' = [rows EXCEPT ![l] = r]
              /\ taker' = [taker EXCEPT ![l] = "several"]
              /\ Fails(q)
  <2>1. PICK r \in {rows[l], one, two} : rows' = [rows EXCEPT ![l] = r]
    BY <1>6
  <2>2. taker' = [taker EXCEPT ![l] = "several"] /\ Fails(q)
    BY <1>6
  <2>3. /\ Turns(q, Idle)
        /\ \/ UNCHANGED execution
           \/ /\ call[q].workflow
              /\ execution' = [execution EXCEPT ![l] = "failed"]
    BY <1>1, <2>2 DEF Fails, Answers, Turns
  <2>4. r \in Seq(LoanRow) /\ Copied(rows[l], r, row)
    BY <1>3
  <2>5. DecideStep(q, l, Idle, r)
    <3> HIDE DEF one, two
    <3> QED BY <1>1, <1>4, <2>1, <2>2, <2>3, <2>4 DEF DecideStep
  <2>6. InTurn(l)'
    <3>1. taker'[l] = "several"
      BY <1>t, <2>2 DEF LoanTypes
    <3> QED BY <3>1 DEF InTurn
  <2> HIDE DEF one, two, row
  <2> QED BY <1>1, <2>5, <2>6, DecideIsSound
<1> QED BY <1>1, <1>5, <1>6 DEF InsertRow, WriteOrder

(* The status follows the row that was inserted before it.                 *)
LEMMA UpdateStatusSound ==
    ASSUME LoanInv, NEW q \in Calls, UpdateStatus(q) PROVE LoanInv'
<1>t. LoanTypes
  BY DEF LoanInv
<1>1. PICK l \in Loans : l = call[q].loan /\ Decides(q, l)
  BY <1>t, KindsOfCalls DEF UpdateStatus, Decides, DecidingCall
<1>2. /\ call[q].stage = "update"
      /\ UNCHANGED <<request, risk, rows, memory, verdict, made>>
  BY DEF UpdateStatus
<1>3. /\ call[q].row \in LoanRow /\ rows[l] \in Seq(LoanRow)
      /\ Copied(rows[l], rows[l], call[q].row)
      /\ rows' = [rows EXCEPT ![l] = rows[l]]
  <2>1. call[q].row \in LoanRow /\ rows[l] \in Seq(LoanRow)
    BY <1>t, <1>1 DEF Decides, DecidingCall, LoanTypes
  <2>2. rows' = [rows EXCEPT ![l] = rows[l]]
    BY <1>t, <1>2 DEF LoanTypes
  <2> QED BY <2>1, <2>2, CopiesOf
<1>4. CASE /\ table' = [table EXCEPT ![l] = StatusOf(call[q].row.decision)]
           /\ Goes(q, "audit") /\ UNCHANGED <<execution, taker>>
  <2>1. PICK rec \in DecidingCall :
           /\ Turns(q, rec) /\ rec.stage = "audit" /\ rec.loan = l
           /\ rec.at = call[q].at /\ rec.row = call[q].row
           /\ rec.workflow = call[q].workflow /\ rec # Idle
    BY <1>1, <1>4, DecidingGoes
  <2>2. DecideStep(q, l, rec, rows[l])
    BY <1>1, <1>2, <1>3, <1>4, <2>1 DEF DecideStep
  <2>3. InTurn(l)'
    <3>1. CASE taker[l] = "several"
      BY <1>4, <3>1 DEF InTurn
    <3>2. CASE taker[l] # "several"
      <4>1. /\ Taken(l) /\ Decided(q, l) /\ call'[q] = rec
            /\ \A s \in Calls : Decides(s, l)' <=> s = q
            /\ \A s \in Calls : Decides(s, l) <=> s = q
            /\ Settled(l)'
        BY <2>1, <2>2, <3>2, DecidedInTurn
      <4>2. Newest(l, call[q].row)
        BY <1>2, <4>1 DEF Decided
      <4>3. Newest(l, call[q].row)'
        BY <1>2, <2>1, <4>1, <4>2 DEF Newest
      <4>4. table'[l] = StatusOf(call'[q].row.decision)
        BY <1>t, <1>4, <2>1, <4>1 DEF LoanTypes
      <4>5. Decided(q, l)'
        BY <1>2, <1>4, <2>1, <4>1, <4>3, <4>4 DEF Decided
      <4>6. /\ ~ \E s \in Calls : Decides(s, l) /\ call[s].stage = "append"
            /\ ~ \E s \in Calls : Decides(s, l)' /\ call'[s].stage = "append"
        BY <1>2, <2>1, <4>1
      <4>7. Taken(l)'
        BY <1>2, <1>4, <4>1, <4>5, <4>6 DEF Taken
      <4> QED BY <4>7 DEF InTurn
    <3> QED BY <3>1, <3>2
  <2> QED BY <1>1, <2>2, <2>3, DecideIsSound
<1>5. CASE /\ table' \in {table, [table EXCEPT
                                    ![l] = StatusOf(call[q].row.decision)]}
           /\ taker' = [taker EXCEPT ![l] = "several"]
           /\ Fails(q)
  <2>1. /\ Turns(q, Idle)
        /\ \/ UNCHANGED execution
           \/ /\ call[q].workflow
              /\ execution' = [execution EXCEPT ![l] = "failed"]
    BY <1>1, <1>5 DEF Fails, Answers, Turns
  <2>2. DecideStep(q, l, Idle, rows[l])
    BY <1>1, <1>2, <1>3, <1>5, <2>1 DEF DecideStep
  <2>3. InTurn(l)'
    <3>1. taker'[l] = "several"
      BY <1>t, <1>5 DEF LoanTypes
    <3> QED BY <3>1 DEF InTurn
  <2> QED BY <1>1, <2>2, <2>3, DecideIsSound
<1> QED BY <1>1, <1>4, <1>5 DEF UpdateStatus, WriteOrder

(***************************************************************************)
(* The workflow, and processes that stop                                   *)
(***************************************************************************)
\* What a step of a loan's execution may do.
ExecuteStep(l, x, v) ==
    /\ execution' = [execution EXCEPT ![l] = x]
    /\ UNCHANGED verdict \/ verdict' = [verdict EXCEPT ![l] = v]
    /\ UNCHANGED <<request, table, risk, rows, memory, call, made, taker>>
    /\ x \in Routed => Settled(l) /\ Assessed(l)
    /\ x = "capture" =>
          /\ verdict' = [verdict EXCEPT ![l] = v]
          /\ v \in [decision : Decisions \cup {"APPROVE", "REJECT"},
                    approver : Approvers]
          /\ Acts(l, v)

(* A step of the execution disturbs nothing but itself.                    *)
LEMMA ExecuteIsSound ==
    ASSUME LoanInv, NEW l \in Loans, NEW x, NEW v, ExecuteStep(l, x, v)
    PROVE  LoanInv'
<1>t. LoanTypes
  BY DEF LoanInv
<1>1. UNCHANGED <<request, table, risk, rows, memory, call, made, taker>>
  BY DEF ExecuteStep
<1>2. LoanTypes'
  <2>1. execution' = [m \in Loans |-> execution'[m]]
    BY <1>t DEF ExecuteStep, LoanTypes
  <2>2. verdict' = [m \in Loans |-> verdict'[m]]
    BY <1>t DEF ExecuteStep, LoanTypes
  <2> QED BY <1>t, <1>1, <2>1, <2>2 DEF LoanTypes
<1>3. ASSUME NEW m \in Loans \ {l} PROVE Sound(m)'
  <2>1. execution'[m] = execution[m] /\ verdict'[m] = verdict[m]
    BY <1>t DEF ExecuteStep, LoanTypes
  <2>2. Spares(m)
    BY <1>1, <2>1 DEF Spares, Submits, Decides
  <2> QED BY <2>2, SparedIsSound DEF LoanInv
<1>4. Sound(l)'
  <2>1. Sound(l) /\ execution'[l] = x
    BY <1>t DEF LoanInv, ExecuteStep, LoanTypes
  <2>2. x = "capture" => verdict'[l] = v
    BY <1>t DEF ExecuteStep, LoanTypes
  <2>3. /\ Settled(l)' <=> Settled(l)
        /\ Assessed(l)' <=> Assessed(l)
        /\ \A by : Acts(l, by)' <=> Acts(l, by)
    BY <1>1 DEF Settled, Assessed, Acts, Policy, Submits
  <2>4. Filed(l)'
    <3>1. x \in Routed => Settled(l)' /\ Assessed(l)'
      BY <2>3 DEF ExecuteStep
    <3> QED BY <1>1, <2>1, <2>3, <3>1
            DEF Sound, Filed, Submits, Decides
  <2>5. ByPolicy(l)'
    <3>1. x = "capture" =>
             /\ verdict'[l] \in [decision : Decisions
                                               \cup {"APPROVE", "REJECT"},
                                 approver : Approvers]
             /\ Acts(l, verdict[l])'
      BY <1>1, <2>2, <2>3 DEF ExecuteStep, Acts, Policy
    <3>2. \A q \in Calls : Decides(q, l)' =>
             /\ Acts(l, call[q].row)'
             /\ call'[q].workflow => Settled(l)' /\ Assessed(l)'
      BY <1>1, <2>1, <2>3 DEF Sound, ByPolicy, Decides, Acts, Policy
    <3>3. \A k \in 1 .. Len(rows'[l]) : Acts(l, rows[l][k])'
      BY <1>1, <2>1, <2>3 DEF Sound, ByPolicy, Acts, Policy
    <3> QED BY <2>1, <3>1, <3>2, <3>3 DEF ByPolicy
  <2>6. RowFirst(l)'
    BY <1>1, <2>1 DEF Sound, RowFirst, Decides
  <2>7. InTurn(l)'
    <3>1. Settled(l)' <=> Settled(l)
      BY <2>3
    <3> QED BY <1>1, <2>1, <3>1
            DEF Sound, InTurn, Untaken, Taken, Decided, Newest, Decides
  <2> QED BY <2>4, <2>5, <2>6, <2>7 DEF Sound
<1> QED BY <1>2, <1>3, <1>4 DEF LoanInv

\* Overdrafts nobody read only lower the score.
LEMMA ScoresAdd ==
    ASSUME NEW facts, NEW answered \in BOOLEAN
    PROVE  LET true == Score(facts, facts.overdrafts)
               read == Score(facts, OverdraftsRead(facts, answered))
           IN /\ true \in Nat /\ read \in Nat /\ read <= true
              /\ answered => read = true
<1> DEFINE a == CreditPoints(facts.credit)
           b == DtiPoints(facts.dti)
           c == SizePoints(facts.amount)
           d == OverdraftPoints(facts.overdrafts)
           e == OverdraftPoints(OverdraftsRead(facts, answered))
<1>1. a \in Nat /\ b \in Nat /\ c \in Nat /\ d \in Nat
  BY DEF CreditPoints, DtiPoints, SizePoints, OverdraftPoints
<1>2. IF answered THEN e = d ELSE e = 0
  BY DEF OverdraftsRead, OverdraftPoints
<1>3. /\ Score(facts, facts.overdrafts) = a + b + d + c
      /\ Score(facts, OverdraftsRead(facts, answered)) = a + b + e + c
  BY DEF Score
<1> HIDE DEF a, b, c, d, e
<1> QED BY <1>1, <1>2, <1>3

(* The workflow decides by itself only what its policy allows, given the   *)
(* score it was told.                                                      *)
LEMMA RouteSound ==
    ASSUME LoanInv, NEW l \in Loans, Route(l) PROVE LoanInv'
<1>t. Sound(l)
  BY DEF LoanInv
<1> DEFINE score == risk[l].score
           v == [decision |-> Shortcut(score), approver |-> "auto-policy"]
<1>1. Settled(l) /\ Assessed(l)
  BY <1>t DEF Route, Sound, Filed, Routed
<1>2. CASE Shortcut(score) = "await"
  <2>1. ExecuteStep(l, "waiting", None)
    BY <1>1, <1>2 DEF Route, ExecuteStep
  <2> QED BY <2>1, ExecuteIsSound
<1>3. CASE Shortcut(score) # "await"
  <2>1. Shortcut(score) \in {"APPROVE", "REJECT"}
    BY <1>3 DEF Shortcut
  <2>2. Policy(l, Shortcut(score))
    <3> DEFINE true == Score(request[l], request[l].overdrafts)
    <3>1. /\ true \in Nat /\ score \in Nat /\ score <= true
          /\ risk[l].answered => score = true
      BY <1>1, ScoresAdd DEF Assessed
    <3>2. \/ Shortcut(score) = "APPROVE" /\ score <= AutoApproveMax
          \/ Shortcut(score) = "REJECT" /\ score >= DeclineMin
      BY <1>3, <3>1 DEF Shortcut, Recommendation
    <3>3. AutoApproveMax \in Nat /\ DeclineMin \in Nat
      BY DEF AutoApproveMax, DeclineMin
    <3>4. \/ Shortcut(score) = "REJECT" /\ true >= DeclineMin
          \/ Shortcut(score) = "APPROVE" /\ (true <= AutoApproveMax
                                             \/ ~risk[l].answered)
      <4> HIDE DEF true, score
      <4> QED BY <3>1, <3>2, <3>3 DEF score
    <3> QED BY <3>4 DEF Policy
  <2>3. /\ v \in [decision : Decisions \cup {"APPROVE", "REJECT"},
                  approver : Approvers]
        /\ v.decision = Shortcut(score)
    BY <2>1 DEF Approvers
  <2>4. Acts(l, v)
    BY <1>1, <2>2, <2>3 DEF Acts
  <2>5. /\ execution' = [execution EXCEPT ![l] = "capture"]
        /\ verdict' = [verdict EXCEPT ![l] = v]
        /\ UNCHANGED <<request, table, risk, rows, memory, call, made, taker>>
    BY <1>3 DEF Route, Holds
  <2> HIDE DEF v
  <2>6. ExecuteStep(l, "capture", v)
    BY <1>1, <2>3, <2>4, <2>5 DEF ExecuteStep
  <2> QED BY <2>6, ExecuteIsSound
<1> QED BY <1>2, <1>3

(* Every step of the execution preserves the invariant.                    *)
LEMMA ExecuteSound ==
    ASSUME LoanInv, NEW l \in Loans, Execute(l) PROVE LoanInv'
<1>t. Sound(l)
  BY DEF LoanInv
<1>1. CASE Route(l)
  BY <1>1, RouteSound
<1>2. ASSUME NEW d \in Decisions, NEW a \in People, Callback(l, d, a)
      PROVE  LoanInv'
  <2> DEFINE v == [decision |-> d, approver |-> a]
  <2>1. Settled(l) /\ Assessed(l)
    BY <1>t, <1>2 DEF Callback, Sound, Filed, Routed
  <2>2. /\ v \in [decision : Decisions \cup {"APPROVE", "REJECT"},
                  approver : Approvers]
        /\ v.approver # "auto-policy"
    BY SetAssumption DEF Approvers
  <2>3. /\ execution' = [execution EXCEPT ![l] = "capture"]
        /\ verdict' = [verdict EXCEPT ![l] = v]
        /\ UNCHANGED <<request, table, risk, rows, memory, call, made, taker>>
    BY <1>2 DEF Callback, Holds
  <2> HIDE DEF v
  <2>4. ExecuteStep(l, "capture", v)
    BY <2>1, <2>2, <2>3 DEF ExecuteStep, Acts
  <2> QED BY <2>4, ExecuteIsSound
<1>3. CASE CallbackTimesOut(l)
  <2>1. ExecuteStep(l, "failed", None)
    BY <1>3 DEF CallbackTimesOut, ExecuteStep, Routed
  <2> QED BY <2>1, ExecuteIsSound
<1>4. CASE Notify(l)
  <2>1. Settled(l) /\ Assessed(l)
    BY <1>t, <1>4 DEF Notify, Sound, Filed, Routed
  <2>2. ExecuteStep(l, "done", None) \/ ExecuteStep(l, "failed", None)
    BY <1>4, <2>1 DEF Notify, ExecuteStep, Routed
  <2> QED BY <2>2, ExecuteIsSound
<1> QED BY <1>1, <1>2, <1>3, <1>4 DEF Execute

(* A request that arrives at a process begins with nothing in its way.     *)
LEMMA ArriveSound ==
    ASSUME LoanInv, NEW q \in Calls, NEW i \in Instances, NEW l \in Loans,
           Arrive(q, i, l)
    PROVE  LoanInv'
<1>1. CASE \E f \in Applications, w \in BOOLEAN : Submit(q, i, l, f, w)
  BY <1>1, SubmitSound
<1>2. ASSUME NEW d \in Decisions, NEW a \in People, Decide(q, i, l, d, a)
      PROVE  LoanInv'
  <2>1. /\ d \in Decisions \cup {"APPROVE", "REJECT"} /\ a \in Approvers
        /\ a # "auto-policy"
    BY SetAssumption DEF Approvers
  <2>2. BeginStep(q, i, l, d, a, FALSE)
    BY <1>2, <2>1 DEF Decide, BeginStep
  <2> QED BY <2>1, <2>2, BeginSound
<1>3. CASE Capture(q, i, l)
  <2> DEFINE d == verdict[l].decision
             a == verdict[l].approver
  <2>1. /\ execution[l] = "capture"
        /\ Begin(q, i, l, d, a, TRUE)
        /\ execution' = [execution EXCEPT ![l] = "decide"]
        /\ UNCHANGED <<request, table, risk, rows, memory, verdict>>
    BY <1>3 DEF Capture
  <2>2. /\ d \in Decisions \cup {"APPROVE", "REJECT"} /\ a \in Approvers
        /\ a = "auto-policy" => Settled(l) /\ Policy(l, d)
        /\ Settled(l) /\ Assessed(l)
    BY <2>1 DEF LoanInv, Sound, Filed, ByPolicy, Acts, Routed
  <2>3. BeginStep(q, i, l, d, a, TRUE)
    BY <2>1, <2>2 DEF BeginStep
  <2> HIDE DEF d, a
  <2> QED BY <2>2, <2>3, BeginSound
<1> QED BY <1>1, <1>2, <1>3 DEF Arrive

(* A process that stops takes its calls and its memory along: a loan it    *)
(* decided is several processes' from then on.                             *)
LEMMA StopSound ==
    ASSUME LoanInv, NEW i \in Instances, Stop(i) PROVE LoanInv'
<1> DEFINE cut == {q \in Calls : ~Free(q) /\ call[q].at = i}
           left == {l \in Loans : \E q \in cut :
                        call[q].loan = l /\ call[q].workflow}
           hit == {call[q].loan : q \in cut}
<1>t. LoanTypes
  BY DEF LoanInv
<1>1. /\ memory' = [memory EXCEPT ![i] = [l \in Loans |-> 0]]
      /\ call' = [q \in Calls |-> IF q \in cut THEN Idle ELSE call[q]]
      /\ execution' = [l \in Loans |->
             IF l \in left THEN "failed" ELSE execution[l]]
      /\ taker' = [l \in Loans |->
             IF taker[l] = i \/ l \in hit THEN "several" ELSE taker[l]]
      /\ UNCHANGED <<request, table, risk, rows, verdict, made>>
  BY DEF Stop
<1>2. /\ \A q \in cut : q \in Calls /\ ~Free(q)
      /\ left \subseteq hit
  OBVIOUS
<1>3. \A q \in Calls : \/ call'[q] = call[q] /\ q \notin cut
                       \/ call'[q] = Idle /\ q \in cut
  BY <1>1
<1>4. \A q \in cut : call[q].loan \in hit
  OBVIOUS
<1> HIDE DEF cut, left, hit
<1>5. LoanTypes'
  <2>1. call' \in [Calls -> {Idle} \cup SubmittingCall \cup DecidingCall]
    BY <1>t, <1>1 DEF LoanTypes
  <2>2. memory' \in [Instances -> [Loans -> Nat]]
    BY <1>t, <1>1 DEF LoanTypes
  <2>3. execution' = [m \in Loans |-> execution'[m]]
    BY <1>1
  <2>4. taker' \in [Loans -> Instances \cup {None, "several"}]
    BY <1>t, <1>1 DEF LoanTypes
  <2> QED BY <1>t, <1>1, <2>1, <2>2, <2>3, <2>4 DEF LoanTypes
<1>6. ASSUME NEW m \in Loans PROVE Sound(m)'
  <2>t. Sound(m)
    BY DEF LoanInv
  <2>1. \A q \in Calls :
           /\ Submits(q, m)' => Submits(q, m) /\ call'[q] = call[q]
           /\ Decides(q, m)' => Decides(q, m) /\ call'[q] = call[q]
    BY <1>3, IdleIsNone DEF Submits, Decides
  <2>2. CASE taker'[m] = "several"
    <3>1. Settled(m) => Settled(m)'
      BY <1>1, <2>1 DEF Settled
    <3>2. Assessed(m)' <=> Assessed(m)
      BY <1>1 DEF Assessed
    <3>3. \A by : Acts(m, by) => Acts(m, by)'
      BY <1>1, <3>1 DEF Acts, Policy
    <3>4. execution'[m] = "failed" \/ execution'[m] = execution[m]
      BY <1>1
    <3>5. Filed(m)'
      <4>1. execution'[m] \in Routed => execution[m] \in Routed
        BY <3>4 DEF Routed
      <4>2. \A q \in Calls : Submits(q, m)' =>
              /\ request'[m] # None
              /\ \A r \in Calls : Submits(r, m)' => r = q
              /\ call'[q].stage = "pend" => Assessed(m)'
        BY <1>1, <2>t, <2>1, <3>2 DEF Sound, Filed
      <4>3. execution'[m] \in Routed => Settled(m)' /\ Assessed(m)'
        BY <2>t, <3>1, <3>2, <4>1 DEF Sound, Filed
      <4>4. /\ table'[m] # "absent" => request'[m] # None
            /\ \A q \in Calls : Decides(q, m)' => request'[m] # None
        BY <1>1, <2>t, <2>1 DEF Sound, Filed
      <4> QED BY <4>2, <4>3, <4>4 DEF Filed
    <3>6. ByPolicy(m)'
      <4>1. execution'[m] = "capture" =>
               /\ verdict'[m] \in [decision : Decisions
                                                 \cup {"APPROVE", "REJECT"},
                                   approver : Approvers]
               /\ Acts(m, verdict[m])'
        BY <1>1, <2>t, <3>3, <3>4 DEF Sound, ByPolicy, Acts, Policy
      <4>2. ASSUME NEW q \in Calls, Decides(q, m)'
            PROVE  /\ Acts(m, call[q].row)'
                   /\ call'[q].workflow => Settled(m)' /\ Assessed(m)'
        <5>1. Decides(q, m) /\ call'[q] = call[q]
          BY <2>1, <4>2
        <5>2. /\ Acts(m, call[q].row)
              /\ call[q].workflow => Settled(m) /\ Assessed(m)
          BY <2>t, <5>1 DEF Sound, ByPolicy
        <5> QED BY <1>1, <3>1, <3>2, <5>1, <5>2 DEF Acts, Policy
      <4>3. \A k \in 1 .. Len(rows'[m]) : Acts(m, rows[m][k])'
        BY <1>1, <2>t, <3>1 DEF Sound, ByPolicy, Acts, Policy
      <4> QED BY <4>1, <4>2, <4>3 DEF ByPolicy
    <3>7. RowFirst(m)'
      <4>1. ASSUME NEW q \in Calls, Decides(q, m)', call'[q].stage = "update"
            PROVE  \E k \in 1 .. Len(rows'[m]) : rows'[m][k] = call'[q].row
        BY <1>1, <2>t, <2>1, <4>1 DEF Sound, RowFirst
      <4> QED BY <1>1, <2>t, <4>1 DEF Sound, RowFirst
    <3>8. InTurn(m)'
      BY <2>2 DEF InTurn
    <3> QED BY <3>5, <3>6, <3>7, <3>8 DEF Sound
  <2>3. CASE taker'[m] # "several"
    <3>1. taker[m] # i /\ m \notin hit /\ taker'[m] = taker[m]
      BY <1>1, <2>3
    <3>2. execution'[m] = execution[m]
      BY <1>1, <1>2, <3>1
    <3>3. \A j \in Instances : \/ memory'[j][m] = memory[j][m]
                               \/ memory'[j][m] = 0 /\ j # taker[m]
      BY <1>t, <1>1, <3>1 DEF LoanTypes
    <3>4. \A q \in Calls : Submits(q, m) \/ Decides(q, m)
                              => call'[q] = call[q]
      BY <1>3, <1>4, <3>1 DEF Submits, Decides
    <3>5. \A q \in Calls : /\ Submits(q, m)' <=> Submits(q, m)
                           /\ Decides(q, m)' <=> Decides(q, m)
      BY <2>1, <3>4 DEF Submits, Decides
    <3>6. Spares(m)
      BY <1>1, <3>1, <3>2, <3>3, <3>4, <3>5 DEF Spares
    <3> QED BY <2>t, <3>6, SparedIsSound
  <2> QED BY <2>2, <2>3
<1> QED BY <1>5, <1>6 DEF LoanInv

(* The invariant holds after every step of the workflow, the calls and the *)
(* processes.                                                              *)
LEMMA StepLoanInv == LoanInv /\ [Next]_vars => LoanInv'
<1> SUFFICES ASSUME LoanInv, [Next]_vars PROVE LoanInv'
  OBVIOUS
<1>1. ASSUME NEW q \in Calls, Handle(q) PROVE LoanInv'
  BY <1>1, CreateLoanSound, AssessSound, PendSound, AppendRowSound,
     InsertRowSound, UpdateStatusSound, AuditSound DEF Handle
<1>2. CASE UNCHANGED vars
  <2>1. LoanTypes'
    BY <1>2 DEF LoanInv, LoanTypes, vars
  <2>2. ASSUME NEW m \in Loans PROVE Sound(m)'
    <3>1. Spares(m)
      BY <1>2 DEF Spares, Submits, Decides, vars
    <3> QED BY <3>1, SparedIsSound DEF LoanInv
  <2> QED BY <2>1, <2>2 DEF LoanInv
<1> QED BY <1>1, <1>2, ArriveSound, ExecuteSound, StopSound DEF Next

(* The invariant of the loans, in every state.                             *)
LEMMA AlwaysLoanInv == Spec => []LoanInv
BY InitLoanInv, StepLoanInv, PTL DEF Spec

(* A loan that reads APPROVED, REJECTED or MODIFIED has a decision row     *)
(* that says so (main.py and store.py of the loans API), whichever write   *)
(* raises and whichever process stops, for any set of loans, calls and     *)
(* processes.                                                              *)
THEOREM StatusAlwaysHasItsDecision == Spec => []StatusHasItsDecision
<1>1. LoanInv => StatusHasItsDecision
  BY DEF LoanInv, Sound, RowFirst, StatusHasItsDecision
<1> QED BY <1>1, AlwaysLoanInv, PTL

(* What the workflow decides without a person is a rejection where the     *)
(* true score is at the threshold or above, or an approval where it is low *)
(* enough or the overdrafts went unanswered (loan_approval.yaml, main.py), *)
(* for every set of applications.                                          *)
THEOREM AutoDecisionsAlwaysFollowPolicy == Spec => []AutoDecisionsFollowPolicy
<1>1. LoanInv => AutoDecisionsFollowPolicy
  BY DEF LoanInv, Sound, ByPolicy, Acts, Policy, AutoDecisionsFollowPolicy
<1> QED BY <1>1, AlwaysLoanInv, PTL

(* A loan that one process decides has its versions in the order of its    *)
(* decisions, and its status is the last one's.                            *)
LEMMA TakenInOrder ==
    ASSUME LoanInv, NEW l \in Loans, taker[l] # "several"
    PROVE  /\ \A j, k \in 1 .. Len(rows[l]) :
                 rows[l][j].id < rows[l][k].id =>
                     rows[l][j].version < rows[l][k].version
           /\ (rows[l] # <<>> /\ InFlight(l) = {}) =>
                 table[l] = StatusOf(Latest(l).decision)
<1>t. LoanTypes /\ Sound(l)
  BY DEF LoanInv
<1>1. CASE taker[l] = None /\ Untaken(l)
  BY <1>1 DEF Untaken
<1>2. CASE Taken(l)
  <2>1. \A j, k \in 1 .. Len(rows[l]) :
           rows[l][j].id < rows[l][k].id =>
               rows[l][j].version < rows[l][k].version
    BY <1>2 DEF Taken
  <2>2. ASSUME InFlight(l) = {}
        PROVE  table[l] = StatusOf(Latest(l).decision)
    <3> DEFINE all == {rows[l][k] : k \in 1 .. Len(rows[l])}
               last(r) == \A k \in 1 .. Len(rows[l]) :
                             rows[l][k].version <= r.version
    <3>1. \A q \in Calls : ~Decides(q, l)
      BY <1>t, <2>2, KindsOfCalls DEF InFlight, Decides
    <3>2. PICK k \in 1 .. Len(rows[l]) :
             /\ Newest(l, rows[l][k]) /\ rows[l][k].id = made[l]
             /\ table[l] = StatusOf(rows[l][k].decision)
      BY <1>2, <3>1 DEF Taken
    <3>3. \A j \in 1 .. Len(rows[l]) : /\ rows[l][j].version = rows[l][j].id
                                       /\ rows[l][j].id <= made[l]
                                       /\ rows[l][j] \in LoanRow
      BY <1>t, <1>2, ElementOfSeq DEF Taken, LoanTypes
    <3>4. rows[l][k] \in all /\ last(rows[l][k])
      BY <3>2, <3>3
    <3>5. Latest(l) \in all /\ last(Latest(l))
      BY <3>4 DEF Latest
    <3>6. PICK j \in 1 .. Len(rows[l]) : Latest(l) = rows[l][j]
      BY <3>5
    <3>7. rows[l][k].version <= rows[l][j].version
      BY <3>5, <3>6
    <3>8. made[l] \in Nat /\ rows[l][j].id \in Nat
      BY <1>t, <3>3 DEF LoanTypes, LoanRow
    <3>9. rows[l][j].id = made[l]
      BY <3>2, <3>3, <3>7, <3>8
    <3> QED BY <3>2, <3>6, <3>9 DEF Newest
  <2> QED BY <2>1, <2>2
<1> QED BY <1>t, <1>1, <1>2 DEF Sound, InTurn

(* The versions order the decisions of a loan as they were made, and its   *)
(* status is the newest one's when no call about it is in flight, as long  *)
(* as one process takes them one after the other (store.py, main.py), for  *)
(* any set of processes and calls.                                         *)
THEOREM VersionsAlwaysOrderDecisions == Spec => []VersionsOrderDecisions
<1>1. LoanInv => VersionsOrderDecisions
  BY TakenInOrder DEF VersionsOrderDecisions
<1> QED BY <1>1, AlwaysLoanInv, PTL

(***************************************************************************)
(* The golden evaluations.  The invariant says what the agent can have     *)
(* said and who shares a session; that the exits follow from the answers   *)
(* is arithmetic on rates in thousandths.                                  *)
(***************************************************************************)
JudgedSets == UNION {[cs -> Judgements] : cs \in SUBSET GoldenCases}

GoldenTypes ==
    /\ history \in [0 .. NCases -> SUBSET GoldenCases]
    /\ baseline \in Rows
    /\ eval \in [loop : Loops, metrics : Metrics,
                 step : {"idle", "asking", "done"}, case : 1 .. NCases + 1,
                 rows : Rows, crossed : SUBSET GoldenCases,
                 judged : JudgedSets, before : Rows, exit : 0 .. 2]

\* The agent can have said it.
Heard(given) ==
    \A c \in GoldenCases : given[c] \in Replies(c) \cup {"lost", "unasked"}

\* A session of the managed evaluation is its case's own.
Alone ==
    /\ \A c \in GoldenCases : history[c] \subseteq {c}
    /\ eval.loop = "managed" => eval.crossed = {}

Fresh ==
    eval.step = "asking" =>
        /\ eval.before = baseline
        /\ eval.loop = "offline" =>
              \A c \in GoldenCases :
                 c < eval.case => eval.rows[c] \in Replies(c) \ {"empty"}

GoldenInv ==
    /\ GoldenTypes /\ Alone /\ Fresh
    /\ Heard(eval.rows) /\ Heard(eval.before) /\ Heard(baseline)
    /\ GreenIsEstablished /\ LossIsNoticed

(***************************************************************************)
(* Rates in thousandths of at most nine cases.                             *)
(***************************************************************************)
(* Rates grow with their counts, and by enough to cross the tolerances.    *)
LEMMA RateSteps ==
    ASSUME NEW n \in 1 .. 9, NEW a \in 0 .. n, NEW b \in 0 .. n
    PROVE  LET p == (1000 * a) \div n
               q == (1000 * b) \div n
           IN /\ p \in Int /\ q \in Int
              /\ a < b => p - q < -100 /\ q - p > 50
              /\ a <= b => p <= q
              /\ p < 900 <=> a < n
              /\ p > 50 <=> a > 0
<1>1. CASE n = 1
  BY <1>1
<1>2. CASE n = 2
  BY <1>2
<1>3. CASE n = 3
  BY <1>3
<1>4. CASE n = 4
  BY <1>4
<1>5. CASE n = 5
  BY <1>5
<1>6. CASE n = 6
  BY <1>6
<1>7. CASE n = 7
  BY <1>7
<1>8. CASE n = 8
  BY <1>8
<1>9. CASE n = 9
  BY <1>9
<1> QED BY <1>1, <1>2, <1>3, <1>4, <1>5, <1>6, <1>7, <1>8, <1>9

(* The golden cases are NCases, and a set of them has all or none exactly  *)
(* when its count says so.                                                 *)
LEMMA CasesCounted ==
    /\ IsFiniteSet(GoldenCases) /\ Cardinality(GoldenCases) = NCases
    /\ GoldenCases # {}
    /\ \A S \in SUBSET GoldenCases :
          /\ Cardinality(S) \in 0 .. NCases
          /\ Cardinality(S) = NCases <=> S = GoldenCases
          /\ Cardinality(S) = 0 <=> S = {}
    /\ \A S, T \in SUBSET GoldenCases :
          S \subseteq T => /\ Cardinality(S) <= Cardinality(T)
                           /\ S # T => Cardinality(S) < Cardinality(T)
<1>1. /\ IsFiniteSet(GoldenCases) /\ Cardinality(GoldenCases) = NCases
      /\ GoldenCases # {}
  <2>1. NCases \in Int /\ ~(1 > NCases) /\ NCases - 1 + 1 = NCases
    BY GoldenAssumption
  <2>2. IsFiniteSet(1 .. NCases) /\ Cardinality(1 .. NCases) = NCases
    BY <2>1, FS_Interval
  <2>3. 1 \in 1 .. NCases
    BY GoldenAssumption
  <2> QED BY <2>2, <2>3 DEF GoldenCases
<1>2. \A S \in SUBSET GoldenCases : IsFiniteSet(S) /\ Cardinality(S) \in Nat
  BY <1>1, FS_Subset, FS_CardinalityType
<1>3. \A S, T \in SUBSET GoldenCases :
         S \subseteq T => /\ Cardinality(S) <= Cardinality(T)
                          /\ S # T => Cardinality(S) < Cardinality(T)
  <2> SUFFICES ASSUME NEW S \in SUBSET GoldenCases,
                      NEW T \in SUBSET GoldenCases, S \subseteq T
               PROVE  /\ Cardinality(S) <= Cardinality(T)
                      /\ S # T => Cardinality(S) < Cardinality(T)
    OBVIOUS
  <2>1. IsFiniteSet(T) /\ S \in SUBSET T
    BY <1>2
  <2>2. /\ Cardinality(S) <= Cardinality(T)
        /\ Cardinality(T) = Cardinality(S) => T = S
    BY <2>1, FS_Subset
  <2> QED BY <1>2, <2>2
<1>4. ASSUME NEW S \in SUBSET GoldenCases
      PROVE  /\ Cardinality(S) \in 0 .. NCases
             /\ Cardinality(S) = NCases <=> S = GoldenCases
             /\ Cardinality(S) = 0 <=> S = {}
  BY <1>1, <1>2, <1>3, FS_EmptySet, GoldenAssumption
<1> QED BY <1>1, <1>3, <1>4

(***************************************************************************)
(* What the three marks of the canary say of an answer's worth.            *)
(***************************************************************************)
Marks == {"tool_ok", "grounded", "hallucinated"}

Marked(given, mark) == {c \in GoldenCases : Mark(c, given[c])[mark]}

(* The three marks of an answer follow from how much it is worth.          *)
LEMMA MarksAreWorth ==
    ASSUME NEW c \in GoldenCases, NEW answer \in Replies(c)
    PROVE  /\ Worth(c, answer) \in 0 .. 2
           /\ Mark(c, answer)["tool_ok"] <=> Worth(c, answer) = 2
           /\ Mark(c, answer)["grounded"] <=> Worth(c, answer) >= 1
           /\ Mark(c, answer)["hallucinated"] <=> Worth(c, answer) = 0
<1>1. /\ Worth(c, "names") = 2 /\ Worth(c, "refuses") = 2
      /\ Worth(c, "declines") = 1 /\ Worth(c, "answers") = 0
      /\ Worth(c, "off") = 0 /\ Worth(c, "empty") = 0
  BY DEF Worth
<1>2. \A t, g, h :
         /\ Tally(t, g, h)["tool_ok"] = t
         /\ Tally(t, g, h)["grounded"] = g
         /\ Tally(t, g, h)["hallucinated"] = h
  BY DEF Tally
<1>3. \/ /\ Worth(c, answer) = 2
         /\ Mark(c, answer) = Tally(TRUE, TRUE, FALSE)
      \/ /\ Worth(c, answer) = 1
         /\ Mark(c, answer) = Tally(FALSE, TRUE, FALSE)
      \/ /\ Worth(c, answer) = 0
         /\ Mark(c, answer) = Tally(FALSE, FALSE, TRUE)
  <2>1. CASE c \in Refusals
    <3>1. answer \in {"empty", "refuses", "answers"}
      BY <2>1 DEF Replies
    <3>2. Mark(c, answer) = Tally(answer = "refuses", answer = "refuses",
                                  answer # "refuses")
      BY <2>1 DEF Mark
    <3>3. CASE answer = "refuses"
      <4>1. /\ (answer = "refuses") = TRUE /\ (answer # "refuses") = FALSE
        BY <3>3
      <4> QED BY <1>1, <3>2, <3>3, <4>1
    <3>4. CASE answer # "refuses"
      <4>1. /\ (answer = "refuses") = FALSE /\ (answer # "refuses") = TRUE
        BY <3>4
      <4> QED BY <1>1, <3>1, <3>2, <3>4, <4>1
    <3> QED BY <3>3, <3>4
  <2>2. CASE c \notin Refusals
    <3>1. answer \in {"empty", "names", "declines", "off"}
      BY <2>2 DEF Replies
    <3>2. CASE answer \in {"empty", "off"}
      BY <1>1, <2>2, <3>2 DEF Mark
    <3>3. CASE answer = "names"
      BY <1>1, <2>2, <3>3 DEF Mark, Tally
    <3>4. CASE answer = "declines"
      BY <1>1, <2>2, <3>4 DEF Mark, Tally
    <3> QED BY <3>1, <3>2, <3>3, <3>4
  <2> QED BY <2>1, <2>2
<1>4. CASE Worth(c, answer) = 2 /\ Mark(c, answer) = Tally(TRUE, TRUE, FALSE)
  <2>1. /\ Mark(c, answer)["tool_ok"]
        /\ Mark(c, answer)["grounded"]
        /\ ~Mark(c, answer)["hallucinated"]
    BY <1>4 DEF Tally
  <2>2. /\ Worth(c, answer) \in 0 .. 2
        /\ Worth(c, answer) = 2 /\ Worth(c, answer) >= 1
        /\ Worth(c, answer) # 0
    BY <1>4
  <2> QED BY <2>1, <2>2
<1>5. CASE Worth(c, answer) = 1 /\ Mark(c, answer) = Tally(FALSE, TRUE, FALSE)
  <2>1. /\ ~Mark(c, answer)["tool_ok"]
        /\ Mark(c, answer)["grounded"]
        /\ ~Mark(c, answer)["hallucinated"]
    BY <1>5 DEF Tally
  <2>2. /\ Worth(c, answer) \in 0 .. 2
        /\ Worth(c, answer) # 2 /\ Worth(c, answer) >= 1
        /\ Worth(c, answer) # 0
    BY <1>5
  <2> QED BY <2>1, <2>2
<1>6. CASE Worth(c, answer) = 0 /\ Mark(c, answer) = Tally(FALSE, FALSE, TRUE)
  <2>1. /\ ~Mark(c, answer)["tool_ok"]
        /\ ~Mark(c, answer)["grounded"]
        /\ Mark(c, answer)["hallucinated"]
    BY <1>6 DEF Tally
  <2>2. /\ Worth(c, answer) \in 0 .. 2
        /\ Worth(c, answer) # 2 /\ ~(Worth(c, answer) >= 1)
        /\ Worth(c, answer) = 0
    BY <1>6
  <2> QED BY <2>1, <2>2
<1> QED BY <1>3, <1>4, <1>5, <1>6

(* The rate of a mark over a complete evaluation.                          *)
LEMMA CompleteRates ==
    ASSUME NEW given \in Rows, Complete(given), NEW mark \in Marks
    PROVE  /\ Scored(given) = GoldenCases
           /\ Rate(given, mark)
                 = (1000 * Cardinality(Marked(given, mark))) \div NCases
<1>1. Scored(given) = GoldenCases
  BY DEF Scored, Complete
<1>2. {c \in Scored(given) : Mark(c, given[c])[mark]} = Marked(given, mark)
  BY <1>1 DEF Marked
<1> QED BY <1>1, <1>2, CasesCounted DEF Rate, Thousandths

(* An evaluation that is nowhere worse than the baseline shows no          *)
(* regression.                                                             *)
LEMMA NoneWorse ==
    ASSUME NEW given \in Rows, NEW base \in Rows, Complete(given),
           Complete(base), Heard(given), Heard(base),
           \A c \in GoldenCases : Worth(c, given[c]) >= Worth(c, base[c])
    PROVE  Regressions(given, base) = {}
<1>1. \A c \in GoldenCases : given[c] \in Replies(c) /\ base[c] \in Replies(c)
  BY DEF Complete, Heard
<1>2. /\ Marked(base, "tool_ok") \subseteq Marked(given, "tool_ok")
      /\ Marked(base, "grounded") \subseteq Marked(given, "grounded")
      /\ Marked(given, "hallucinated") \subseteq Marked(base, "hallucinated")
  BY <1>1, MarksAreWorth DEF Marked
<1>3. \A mark \in Marks : /\ Marked(given, mark) \subseteq GoldenCases
                          /\ Marked(base, mark) \subseteq GoldenCases
  BY DEF Marked
<1>4. /\ Rate(base, "tool_ok") <= Rate(given, "tool_ok")
      /\ Rate(base, "grounded") <= Rate(given, "grounded")
      /\ Rate(given, "hallucinated") <= Rate(base, "hallucinated")
      /\ \A mark \in Marks :
            Rate(given, mark) \in Int /\ Rate(base, mark) \in Int
  <2>1. \A mark \in Marks :
           /\ Cardinality(Marked(given, mark)) \in 0 .. NCases
           /\ Cardinality(Marked(base, mark)) \in 0 .. NCases
    BY <1>3, CasesCounted
  <2>2. /\ Cardinality(Marked(base, "tool_ok"))
              <= Cardinality(Marked(given, "tool_ok"))
        /\ Cardinality(Marked(base, "grounded"))
              <= Cardinality(Marked(given, "grounded"))
        /\ Cardinality(Marked(given, "hallucinated"))
              <= Cardinality(Marked(base, "hallucinated"))
    BY <1>2, <1>3, CasesCounted DEF Marks
  <2>3. \A mark \in Marks :
           /\ Rate(given, mark)
                 = (1000 * Cardinality(Marked(given, mark))) \div NCases
           /\ Rate(base, mark)
                 = (1000 * Cardinality(Marked(base, mark))) \div NCases
    BY CompleteRates
  <2> QED BY <2>1, <2>2, <2>3, RateSteps, GoldenAssumption DEF Marks
<1> QED BY <1>4 DEF Regressions, Marks

(* One that is nowhere better and somewhere worse does.                    *)
LEMMA SomeWorse ==
    ASSUME NEW given \in Rows, NEW base \in Rows, Complete(given),
           Complete(base), Heard(given), Heard(base),
           \A c \in GoldenCases : Worth(c, given[c]) <= Worth(c, base[c]),
           NEW w \in GoldenCases, Worth(w, given[w]) < Worth(w, base[w])
    PROVE  Regressions(given, base) # {}
<1>1. \A c \in GoldenCases : given[c] \in Replies(c) /\ base[c] \in Replies(c)
  BY DEF Complete, Heard
<1>2. PICK mark \in {"tool_ok", "grounded"} :
         /\ Marked(given, mark) \subseteq Marked(base, mark)
         /\ w \in Marked(base, mark) \ Marked(given, mark)
  <2>1. /\ Marked(given, "tool_ok") \subseteq Marked(base, "tool_ok")
        /\ Marked(given, "grounded") \subseteq Marked(base, "grounded")
    BY <1>1, MarksAreWorth DEF Marked
  <2>2. \/ w \in Marked(base, "tool_ok") \ Marked(given, "tool_ok")
        \/ w \in Marked(base, "grounded") \ Marked(given, "grounded")
    BY <1>1, MarksAreWorth DEF Marked
  <2> QED BY <2>1, <2>2
<1>3. Cardinality(Marked(given, mark)) < Cardinality(Marked(base, mark))
  <2>1. /\ Marked(given, mark) \in SUBSET GoldenCases
        /\ Marked(base, mark) \in SUBSET GoldenCases
    BY DEF Marked
  <2> QED BY <1>2, <2>1, CasesCounted
<1>4. /\ Cardinality(Marked(given, mark)) \in 0 .. NCases
      /\ Cardinality(Marked(base, mark)) \in 0 .. NCases
  <2>1. /\ Marked(given, mark) \in SUBSET GoldenCases
        /\ Marked(base, mark) \in SUBSET GoldenCases
    BY DEF Marked
  <2> QED BY <2>1, CasesCounted
<1>5. Rate(given, mark) - Rate(base, mark) < -100
  <2>1. mark \in Marks
    BY DEF Marks
  <2> QED BY <1>3, <1>4, <2>1, CompleteRates, RateSteps, GoldenAssumption
<1> QED BY <1>5 DEF Regressions

(* The canary's exit follows from the answers: a loss that nothing offsets *)
(* shows in one of the three rates, and no loss shows in none.             *)
LEMMA CanaryExitIsRight ==
    ASSUME GoldenTypes, Heard(eval.rows), Heard(baseline),
           Complete(eval.rows), Complete(baseline)
    PROVE  /\ (\E c \in GoldenCases :
                  Worth(c, eval.rows[c]) < Worth(c, baseline[c]))
              /\ (\A c \in GoldenCases :
                     ~(Worth(c, eval.rows[c]) > Worth(c, baseline[c])))
              => CanaryExit = 1
           /\ (\A c \in GoldenCases :
                  ~(Worth(c, eval.rows[c]) < Worth(c, baseline[c])))
              => CanaryExit = 0
<1>1. eval.rows \in Rows /\ baseline \in Rows
  BY DEF GoldenTypes
<1>2. \A c \in GoldenCases : /\ Worth(c, eval.rows[c]) \in 0 .. 2
                             /\ Worth(c, baseline[c]) \in 0 .. 2
  BY MarksAreWorth DEF Complete, Heard
<1>3. baseline # NoRows /\ Scored(eval.rows) # {}
  <2>1. PICK c \in GoldenCases : TRUE
    BY CasesCounted
  <2>2. baseline[c] # "unasked" /\ c \in Scored(eval.rows)
    BY DEF Complete, Scored
  <2> QED BY <2>2 DEF NoRows
<1>4. ASSUME NEW w \in GoldenCases,
             Worth(w, eval.rows[w]) < Worth(w, baseline[w]),
             \A c \in GoldenCases :
                ~(Worth(c, eval.rows[c]) > Worth(c, baseline[c]))
      PROVE  CanaryExit = 1
  <2>1. \A c \in GoldenCases : Worth(c, eval.rows[c]) <= Worth(c, baseline[c])
    BY <1>2, <1>4
  <2>2. Regressions(eval.rows, baseline) # {}
    BY <1>1, <1>4, <2>1, SomeWorse
  <2> QED BY <1>3, <2>2 DEF CanaryExit
<1>5. ASSUME \A c \in GoldenCases :
                ~(Worth(c, eval.rows[c]) < Worth(c, baseline[c]))
      PROVE  CanaryExit = 0
  <2>1. \A c \in GoldenCases : Worth(c, eval.rows[c]) >= Worth(c, baseline[c])
    BY <1>2, <1>5
  <2>2. Regressions(eval.rows, baseline) = {}
    BY <1>1, <2>1, NoneWorse
  <2> QED BY <1>3, <2>2 DEF CanaryExit
<1> QED BY <1>4, <1>5

(* The offline loop is green exactly when every answer is worth two.       *)
LEMMA OfflineExitIsRight ==
    ASSUME \A c \in GoldenCases : eval.rows[c] \in Replies(c) \ {"empty"}
    PROVE  /\ OfflineExit \in {0, 1}
           /\ OfflineExit = 0
                 <=> \A c \in GoldenCases : Worth(c, eval.rows[c]) = 2
<1> DEFINE Of(mark) == {c \in GoldenCases : OfflineMark(c, eval.rows[c])[mark]}
<1>1. \A c \in GoldenCases :
         /\ c \in Of("tool_ok") <=> eval.rows[c] \notin {"declines", "answers"}
         /\ c \in Of("grounded") <=> eval.rows[c] # "off"
         /\ c \in Of("hallucinated") <=> eval.rows[c] = "off"
  BY DEF OfflineMark, Tally
<1>2. \A c \in GoldenCases :
         Worth(c, eval.rows[c]) = 2
            <=> c \in Of("tool_ok") /\ c \in Of("grounded")
                /\ c \notin Of("hallucinated")
  <2>1. \A c \in GoldenCases :
           eval.rows[c] \in {"names", "declines", "off", "refuses", "answers"}
    BY DEF Replies
  <2>2. \A c \in GoldenCases :
           Worth(c, eval.rows[c]) = 2
              <=> eval.rows[c] \notin {"declines", "answers", "off"}
    BY <2>1 DEF Worth
  <2> QED BY <1>1, <2>2
<1>3. \A mark : /\ Of(mark) \in SUBSET GoldenCases
                /\ OfflineRate(mark)
                      = (1000 * Cardinality(Of(mark))) \div NCases
  BY CasesCounted DEF OfflineRate, Thousandths
<1> HIDE DEF Of
<1>4. \A mark : /\ Cardinality(Of(mark)) \in 0 .. NCases
                /\ Cardinality(Of(mark)) = NCases <=> Of(mark) = GoldenCases
                /\ Cardinality(Of(mark)) = 0 <=> Of(mark) = {}
  BY <1>3, CasesCounted
<1>5. \A mark : /\ OfflineRate(mark) < 900 <=> Cardinality(Of(mark)) < NCases
                /\ OfflineRate(mark) > 50 <=> Cardinality(Of(mark)) > 0
  BY <1>3, <1>4, RateSteps, GoldenAssumption
<1>6. OfflineExit = IF \/ OfflineRate("grounded") < 900
                       \/ OfflineRate("tool_ok") < 900
                       \/ OfflineRate("hallucinated") > 50
                    THEN 1 ELSE 0
  BY DEF OfflineExit
<1>7. /\ OfflineRate("grounded") < 900 <=> Of("grounded") # GoldenCases
      /\ OfflineRate("tool_ok") < 900 <=> Of("tool_ok") # GoldenCases
      /\ OfflineRate("hallucinated") > 50 <=> Of("hallucinated") # {}
  BY <1>4, <1>5, GoldenAssumption
<1>8. OfflineExit \in {0, 1}
      /\ (OfflineExit = 0 <=> /\ Of("grounded") = GoldenCases
                              /\ Of("tool_ok") = GoldenCases
                              /\ Of("hallucinated") = {})
  BY <1>6, <1>7
<1>9. (/\ Of("grounded") = GoldenCases
       /\ Of("tool_ok") = GoldenCases
       /\ Of("hallucinated") = {})
      <=> \A c \in GoldenCases : /\ c \in Of("tool_ok")
                                 /\ c \in Of("grounded")
                                 /\ c \notin Of("hallucinated")
  BY <1>3
<1> QED BY <1>2, <1>8, <1>9

(***************************************************************************)
(* The invariant.                                                          *)
(***************************************************************************)
(* The rows of an evaluation that has asked nothing.                       *)
LEMMA NothingYet ==
    /\ NoRows \in Rows /\ Heard(NoRows)
    /\ [c \in {} |-> "unjudged"] \in JudgedSets
<1>1. NoRows \in Rows /\ Heard(NoRows)
  BY DEF NoRows, Rows, Heard
<1>2. [c \in {} |-> "unjudged"] \in JudgedSets
  BY DEF JudgedSets
<1> QED BY <1>1, <1>2

(* Nothing has been asked at the start and there is no baseline.           *)
LEMMA InitGoldenInv == EvalInit => GoldenInv
<1> SUFFICES ASSUME EvalInit PROVE GoldenInv
  OBVIOUS
<1>1. NoRows \in Rows /\ Heard(NoRows)
  BY NothingYet
<1>2. [c \in {} |-> "unjudged"] \in JudgedSets
  BY NothingYet
<1>3. GoldenTypes
  BY <1>1, <1>2, GoldenAssumption
  DEF EvalInit, GoldenTypes, Loops, Metrics
<1>4. /\ eval.step = "idle" /\ eval.loop = "offline" /\ eval.rows = NoRows
      /\ eval.before = NoRows /\ baseline = NoRows
  BY DEF EvalInit
<1>5. Alone
  BY <1>4, GoldenAssumption DEF EvalInit, Alone, GoldenCases
<1> QED BY <1>1, <1>3, <1>4, <1>5
        DEF GoldenInv, Fresh, GreenIsEstablished, LossIsNoticed, Ended

\* A step after which nothing is reported needs no more than this.
LEMMA NotDoneIsSound ==
    ASSUME GoldenTypes', Alone', Fresh', Heard(eval.rows)',
           Heard(eval.before)', Heard(baseline)', eval'.step # "done"
    PROVE  GoldenInv'
BY DEF GoldenInv, GreenIsEstablished, LossIsNoticed, Ended

(* The parts of the record of an evaluation.                               *)
LEMMA AskingShape ==
    ASSUME GoldenInv
    PROVE  /\ NCases \in 1 .. 9
           /\ eval.loop \in Loops /\ eval.metrics \in Metrics
           /\ eval.rows \in Rows /\ eval.case \in 1 .. NCases + 1
           /\ eval.before \in Rows /\ baseline \in Rows
           /\ eval.crossed \in SUBSET GoldenCases
BY GoldenAssumption DEF GoldenInv, GoldenTypes

Started(loop, metrics, step, exit) ==
    [loop |-> loop, metrics |-> metrics, step |-> step, case |-> 1,
     rows |-> NoRows, crossed |-> {}, judged |-> [c \in {} |-> "unjudged"],
     before |-> baseline, exit |-> exit]

(* An evaluation starts with nothing asked, or ends before it asks.        *)
LEMMA StartSound ==
    ASSUME GoldenInv, NEW loop \in Loops, NEW metrics \in Metrics,
           NEW step \in {"asking", "done"}, NEW exit \in 0 .. 2,
           eval' = Started(loop, metrics, step, exit),
           step = "done" => loop # "offline" /\ (loop = "managed" => exit # 0),
           UNCHANGED <<history, baseline>>
    PROVE  GoldenInv'
<1>1. NoRows \in Rows /\ Heard(NoRows)
  BY NothingYet
<1>2. [c \in {} |-> "unjudged"] \in JudgedSets
  BY NothingYet
<1>4. /\ eval'.loop = loop /\ eval'.step = step /\ eval'.case = 1
      /\ eval'.rows = NoRows /\ eval'.before = baseline
      /\ eval'.crossed = {} /\ eval'.exit = exit
      /\ baseline' = baseline /\ history' = history
  BY DEF Started
<1>5. GoldenTypes'
  BY <1>1, <1>2, <1>4, GoldenAssumption DEF GoldenInv, GoldenTypes, Started
<1>6. Alone' /\ Fresh'
  <2>1. \A c \in GoldenCases : ~(c < 1)
    BY GoldenAssumption DEF GoldenCases
  <2> QED BY <1>4, <2>1 DEF GoldenInv, Alone, Fresh
<1>7. Heard(eval.rows)' /\ Heard(eval.before)' /\ Heard(baseline)'
  BY <1>1, <1>4 DEF GoldenInv, Heard
<1>8. ~Complete(NoRows)
  <2>1. PICK c \in GoldenCases : TRUE
    BY CasesCounted
  <2> QED BY <2>1 DEF Complete, NoRows
<1>9. GreenIsEstablished' /\ LossIsNoticed'
  BY <1>4, <1>8 DEF GreenIsEstablished, LossIsNoticed, Ended
<1> QED BY <1>5, <1>6, <1>7, <1>9 DEF GoldenInv

\* The case that is asked next is answered.
LEMMA NotedSound ==
    ASSUME GoldenInv, eval.step = "asking", eval.case <= NCases,
           NEW answer \in Replies(eval.case) \cup {"lost"},
           NEW crossed \in SUBSET GoldenCases,
           eval.loop = "offline" => answer \in Replies(eval.case) \ {"empty"},
           eval.loop = "managed" => crossed = {},
           Noted(answer, crossed),
           \/ UNCHANGED history
           \/ Chat(SessionOf(eval.loop, eval.case), eval.case)
    PROVE  GoldenInv'
<1> DEFINE n == eval.case
<1>t. GoldenTypes /\ n \in GoldenCases /\ n + 1 \in 1 .. NCases + 1
  BY AskingShape DEF GoldenCases, GoldenInv
<1>1. answer \in Said \cup {"empty", "lost", "unasked"}
  BY DEF Replies, Said
<1>2. [eval.rows EXCEPT ![n] = answer] \in Rows
  BY <1>t, <1>1, AskingShape DEF Rows
<1>3. eval' = [eval EXCEPT !.rows = [eval.rows EXCEPT ![n] = answer],
                           !.case = n + 1,
                           !.crossed = eval.crossed \cup crossed]
  BY DEF Noted
<1>4. /\ eval'.rows = [eval.rows EXCEPT ![n] = answer]
      /\ eval'.case = n + 1 /\ eval'.crossed = eval.crossed \cup crossed
      /\ eval'.loop = eval.loop /\ eval'.step = eval.step
      /\ eval'.before = eval.before
  BY <1>t, <1>3 DEF GoldenTypes
<1>5. baseline' = baseline
  BY DEF Noted
<1>6. /\ history' \in [0 .. NCases -> SUBSET GoldenCases]
      /\ \A c \in GoldenCases : history'[c] \subseteq {c}
  <2>1. CASE UNCHANGED history
    BY <1>t, <2>1 DEF GoldenInv, GoldenTypes, Alone
  <2>2. CASE Chat(SessionOf(eval.loop, n), n)
    <3> DEFINE session == SessionOf(eval.loop, n)
    <3>1. session = 0 \/ session = n
      BY DEF SessionOf, ManagedSession, CanarySession, DefaultSession
    <3>2. history' = [history EXCEPT ![session] = history[session] \cup {n}]
      BY <2>2 DEF Chat
    <3>3. history \in [0 .. NCases -> SUBSET GoldenCases]
      BY <1>t DEF GoldenTypes
    <3>4. session \in 0 .. NCases
      BY <1>t, <3>1, GoldenAssumption DEF GoldenCases
    <3>5. \A c \in GoldenCases : c # 0 /\ c \in 0 .. NCases
      BY GoldenAssumption DEF GoldenCases
    <3> HIDE DEF session, n
    <3>6. history' \in [0 .. NCases -> SUBSET GoldenCases]
      BY <1>t, <3>2, <3>3, <3>4
    <3>7. ASSUME NEW c \in GoldenCases PROVE history'[c] \subseteq {c}
      <4>1. history[c] \subseteq {c}
        BY DEF GoldenInv, Alone
      <4> QED BY <3>1, <3>2, <3>3, <3>5, <4>1
    <3> QED BY <3>6, <3>7
  <2> QED BY <2>1, <2>2
<1>7. GoldenTypes'
  <2>1. eval.crossed \cup crossed \in SUBSET GoldenCases
    BY AskingShape
  <2> HIDE DEF n
  <2> QED BY <1>t, <1>2, <1>3, <1>5, <1>6, <2>1 DEF GoldenTypes
<1>8. Alone'
  BY <1>4, <1>6 DEF GoldenInv, Alone
<1>9. \A c \in GoldenCases :
         eval'.rows[c] = IF c = n THEN answer ELSE eval.rows[c]
  BY <1>4, AskingShape DEF Rows
<1>10. Fresh'
  <2>1. \A c \in GoldenCases : c < n + 1 => c = n \/ c < n
    BY <1>t DEF GoldenCases
  <2>2. eval.loop = "offline" =>
          \A c \in GoldenCases :
             c < eval'.case => eval'.rows[c] \in Replies(c) \ {"empty"}
    BY <1>4, <1>9, <2>1 DEF GoldenInv, Fresh
  <2> QED BY <1>4, <1>5, <2>2 DEF GoldenInv, Fresh
<1>11. Heard(eval.rows)'
  BY <1>9 DEF GoldenInv, Heard
<1>12. Heard(eval.before)' /\ Heard(baseline)'
  BY <1>4, <1>5 DEF GoldenInv, Heard
<1> QED BY <1>4, <1>7, <1>8, <1>10, <1>11, <1>12, NotDoneIsSound

\* The evaluation ends; what it answered stands.
LEMMA EndsSound ==
    ASSUME GoldenInv, NEW judged \in JudgedSets, NEW exit \in 0 .. 2,
           eval' = [eval EXCEPT !.step = "done", !.judged = judged,
                                !.exit = exit],
           UNCHANGED <<history, baseline>>,
           GreenIsEstablished', LossIsNoticed'
    PROVE  GoldenInv'
<1>t. GoldenTypes
  BY DEF GoldenInv
<1>1. /\ eval'.rows = eval.rows /\ eval'.before = eval.before
      /\ eval'.loop = eval.loop /\ eval'.crossed = eval.crossed
      /\ eval'.step = "done"
  BY <1>t DEF GoldenTypes
<1>2. baseline' = baseline /\ history' = history
  OBVIOUS
<1>3. GoldenTypes'
  BY <1>t, <1>2 DEF GoldenTypes
<1>4. Alone' /\ Fresh' /\ Heard(eval.rows)' /\ Heard(eval.before)'
      /\ Heard(baseline)'
  BY <1>1, <1>2 DEF GoldenInv, Alone, Fresh, Heard
<1> QED BY <1>3, <1>4 DEF GoldenInv

(* The managed evaluation ends green only when all was judged well.        *)
LEMMA ManagedEndsSound ==
    ASSUME GoldenInv, ManagedEnds PROVE GoldenInv'
<1>t. GoldenTypes
  BY DEF GoldenInv
<1>1. eval.step = "asking" /\ eval.loop = "managed"
  BY DEF ManagedEnds, Asked
<1>2. ASSUME NEW judged \in JudgedSets, Judged(judged),
             Gated => judged \in [Collected -> Judgements]
      PROVE  GoldenInv'
  <2> DEFINE exit == IF Gated /\ CheckGates(judged) # "met" THEN 1 ELSE 0
  <2>1. /\ eval' = [eval EXCEPT !.step = "done", !.judged = judged,
                                !.exit = exit]
        /\ UNCHANGED <<history, baseline>> /\ exit \in 0 .. 2
    BY <1>2 DEF Judged
  <2> HIDE DEF exit
  <2>2. /\ eval'.rows = eval.rows /\ eval'.loop = "managed"
        /\ eval'.metrics = eval.metrics /\ eval'.crossed = eval.crossed
        /\ eval'.judged = judged /\ eval'.exit = exit
    BY <1>t, <1>1, <2>1 DEF GoldenTypes
  <2>3. LossIsNoticed'
    BY <2>2 DEF LossIsNoticed, Ended
  <2>4. GreenIsEstablished'
    <3> SUFFICES ASSUME Gated, exit = 0
                 PROVE  /\ \E c \in DOMAIN judged : judged[c] = "kept"
                        /\ \A c \in DOMAIN judged :
                              /\ judged[c] # "breached"
                              /\ eval.rows[c] \in Said
                              /\ c \notin eval.crossed
      BY <2>2 DEF GreenIsEstablished, Gated
    <3>1. CheckGates(judged) = "met"
      BY DEF exit
    <3>2. /\ ~ \A c \in DOMAIN judged : judged[c] = "unjudged"
          /\ \A c \in DOMAIN judged : judged[c] # "breached"
      BY <3>1 DEF CheckGates
    <3>3. judged \in [Collected -> Judgements]
      BY <1>2
    <3>4. \E c \in DOMAIN judged : judged[c] = "kept"
      BY <3>2, <3>3 DEF Judgements
    <3>5. ASSUME NEW c \in DOMAIN judged
          PROVE  eval.rows[c] \in Said /\ c \notin eval.crossed
      <4>1. c \in Collected
        BY <3>3
      <4>2. /\ c \in GoldenCases
            /\ eval.rows[c] \notin {"lost", "empty", "unasked"}
        BY <4>1 DEF Collected
      <4>3. eval.rows[c] \in Said \cup {"empty", "lost", "unasked"}
        BY <4>2, AskingShape DEF Rows
      <4> QED BY <1>1, <4>2, <4>3 DEF GoldenInv, Alone
    <3> QED BY <3>2, <3>4, <3>5
  <2> QED BY <2>1, <2>3, <2>4, EndsSound
<1>3. CASE Gated
  <2>1. PICK judged \in [Collected -> Judgements] : Judged(judged)
    BY <1>3 DEF ManagedEnds
  <2>2. judged \in JudgedSets
    <3>1. Collected \in SUBSET GoldenCases
      BY DEF Collected
    <3> QED BY <3>1 DEF JudgedSets
  <2> QED BY <1>2, <2>1, <2>2
<1>4. CASE ~Gated
  BY <1>2, <1>4, NothingYet DEF ManagedEnds
<1> QED BY <1>3, <1>4

(* The other ways to end preserve the invariant.                           *)
LEMMA EndingsSound ==
    ASSUME GoldenInv, CanaryEnds \/ ManagedFails \/ OfflineEnds
    PROVE  GoldenInv'
<1>t. GoldenTypes /\ eval.judged \in JudgedSets
  BY DEF GoldenInv, GoldenTypes
<1>1. ASSUME NEW exit \in 0 .. 2,
             eval' = [eval EXCEPT !.step = "done", !.exit = exit],
             UNCHANGED <<history, baseline>>,
             eval.loop = "managed" => exit = 1,
             eval.loop = "canary" => exit = CanaryExit /\ eval.step = "asking",
             eval.loop = "offline" =>
                /\ exit = OfflineExit
                /\ \A c \in GoldenCases :
                      eval.rows[c] \in Replies(c) \ {"empty"}
      PROVE  GoldenInv'
  <2>1. eval' = [eval EXCEPT !.step = "done", !.judged = eval.judged,
                             !.exit = exit]
    BY <1>t, <1>1 DEF GoldenTypes
  <2>2. /\ eval'.rows = eval.rows /\ eval'.loop = eval.loop
        /\ eval'.before = eval.before /\ eval'.exit = exit
    BY <1>t, <1>1 DEF GoldenTypes
  <2>3. GreenIsEstablished'
    BY <1>1, <2>2 DEF GreenIsEstablished, Ended
  <2>4. eval.loop = "canary" /\ Complete(eval.before) /\ Complete(eval.rows) =>
           /\ (\E c \in GoldenCases :
                  Worth(c, eval.rows[c]) < Worth(c, eval.before[c]))
              /\ (\A c \in GoldenCases :
                     ~(Worth(c, eval.rows[c]) > Worth(c, eval.before[c])))
              => exit = 1
           /\ (\A c \in GoldenCases :
                  ~(Worth(c, eval.rows[c]) < Worth(c, eval.before[c])))
              => exit = 0
    <3>1. eval.loop = "canary" => eval.before = baseline
      BY <1>1 DEF GoldenInv, Fresh
    <3> QED BY <1>t, <1>1, <3>1, CanaryExitIsRight DEF GoldenInv
  <2>5. eval.loop = "offline" =>
           (exit = 0 <=> \A c \in GoldenCases : Worth(c, eval.rows[c]) = 2)
    BY <1>1, OfflineExitIsRight
  <2>6. LossIsNoticed'
    BY <2>2, <2>4, <2>5 DEF LossIsNoticed, Ended, Complete
  <2> QED BY <1>t, <1>1, <2>1, <2>3, <2>6, EndsSound
<1>2. CASE CanaryEnds
  <2>1. CanaryExit \in 0 .. 2
    BY DEF CanaryExit
  <2> QED BY <1>1, <1>2, <2>1 DEF CanaryEnds, Asked
<1>3. CASE ManagedFails
  BY <1>1, <1>3 DEF ManagedFails
<1>4. CASE OfflineEnds
  <2>1. \A c \in GoldenCases : eval.rows[c] \in Replies(c) \ {"empty"}
    <3>1. \A c \in GoldenCases : c < eval.case
      BY <1>4, AskingShape DEF OfflineEnds, Asked, GoldenCases
    <3> QED BY <1>4, <3>1 DEF OfflineEnds, Asked, GoldenInv, Fresh
  <2>2. OfflineExit \in 0 .. 2
    BY <2>1, OfflineExitIsRight
  <2> QED BY <1>1, <1>4, <2>1, <2>2 DEF OfflineEnds
<1> QED BY <1>2, <1>3, <1>4

(* The invariant holds after every step of the loops and of the agent.     *)
LEMMA StepGoldenInv == GoldenInv /\ [EvalNext]_evalVars => GoldenInv'
<1> SUFFICES ASSUME GoldenInv, [EvalNext]_evalVars PROVE GoldenInv'
  OBVIOUS
<1>t. GoldenTypes
  BY DEF GoldenInv
<1>1. CASE StopAgent
  <2>1. /\ eval' = eval /\ baseline' = baseline /\ eval.step # "asking"
        /\ history' = [s \in 0 .. NCases |-> {}]
    BY <1>1 DEF StopAgent
  <2>2. GoldenTypes'
    BY <1>t, <2>1 DEF GoldenTypes
  <2>3. Alone'
    BY <2>1, GoldenAssumption DEF GoldenInv, Alone, GoldenCases
  <2>4. Fresh' /\ Heard(eval.rows)' /\ Heard(eval.before)' /\ Heard(baseline)'
    BY <2>1 DEF GoldenInv, Fresh, Heard
  <2>5. GreenIsEstablished' /\ LossIsNoticed'
    BY <2>1 DEF GoldenInv, GreenIsEstablished, LossIsNoticed, Ended, Gated
  <2> QED BY <2>2, <2>3, <2>4, <2>5 DEF GoldenInv
<1>2. ASSUME NEW loop \in Loops, NEW metrics \in Metrics, Start(loop, metrics)
      PROVE  GoldenInv'
  <2>1. eval' = Started(loop, metrics, "asking", 0)
    BY <1>2 DEF Start, Asks, Started
  <2>2. UNCHANGED <<history, baseline>>
    BY <1>2 DEF Start
  <2> QED BY <2>1, <2>2, StartSound
<1>3. ASSUME NEW loop \in Loops, Unaddressed(loop) PROVE GoldenInv'
  <2> DEFINE exit == IF loop = "canary" THEN 0 ELSE 2
  <2>1. exit \in 0 .. 2 /\ (loop = "managed" => exit # 0)
    OBVIOUS
  <2>2. eval' = Started(loop, "all", "done", exit)
    BY <1>3 DEF Unaddressed, Asks, Started
  <2>3. UNCHANGED <<history, baseline>> /\ loop # "offline"
        /\ "all" \in Metrics
    BY <1>3 DEF Unaddressed, Metrics
  <2> HIDE DEF exit
  <2> QED BY <2>1, <2>2, <2>3, StartSound
<1>4. CASE AskLive
  <2> DEFINE c == eval.case
             session == SessionOf(eval.loop, c)
             crossed == IF history[session] \ {c} = {} THEN {} ELSE {c}
  <2>1. /\ eval.step = "asking" /\ eval.loop # "offline" /\ c <= NCases
        /\ Chat(session, c)
    BY <1>4 DEF AskLive
  <2>2. PICK answer \in Replies(c) : Noted(answer, crossed)
    BY <1>4 DEF AskLive
  <2>3. c \in GoldenCases
    BY <2>1, AskingShape DEF GoldenCases
  <2>4. crossed \in SUBSET GoldenCases
    BY <2>3
  <2>5. eval.loop = "managed" => crossed = {}
    <3>1. eval.loop = "managed" => session = c
      BY DEF SessionOf, ManagedSession
    <3>2. history[c] \ {c} = {}
      BY <2>3 DEF GoldenInv, Alone
    <3> QED BY <3>1, <3>2
  <2> HIDE DEF crossed
  <2> QED BY <2>1, <2>2, <2>4, <2>5, NotedSound
<1>5. CASE CallLost
  <2>1. /\ eval.step = "asking" /\ eval.loop # "offline"
        /\ eval.case <= NCases /\ Noted("lost", {})
        /\ \/ UNCHANGED history
           \/ Chat(SessionOf(eval.loop, eval.case), eval.case)
    BY <1>5 DEF CallLost
  <2> QED BY <2>1, NotedSound
<1>6. CASE Respond
  <2>1. PICK answer \in Replies(eval.case) \ {"empty"} : Noted(answer, {})
    BY <1>6 DEF Respond
  <2>2. /\ eval.step = "asking" /\ eval.loop = "offline"
        /\ eval.case <= NCases /\ UNCHANGED history
    BY <1>6 DEF Respond
  <2> QED BY <2>1, <2>2, NotedSound
<1>7. CASE CanaryAdopts
  <2>1. /\ eval' = [eval EXCEPT !.step = "idle"] /\ history' = history
        /\ baseline' \in {baseline, eval.rows}
    BY <1>7 DEF CanaryAdopts
  <2>2. /\ eval'.rows = eval.rows /\ eval'.before = eval.before
        /\ eval'.loop = eval.loop /\ eval'.crossed = eval.crossed
        /\ eval'.step = "idle"
    BY <1>t, <2>1 DEF GoldenTypes
  <2>3. GoldenTypes'
    BY <1>t, <2>1, AskingShape DEF GoldenTypes
  <2>4. Alone' /\ Fresh' /\ Heard(eval.rows)' /\ Heard(eval.before)'
        /\ Heard(baseline)'
    BY <2>1, <2>2 DEF GoldenInv, Alone, Fresh, Heard
  <2> QED BY <2>2, <2>3, <2>4, NotDoneIsSound
<1>8. CASE UNCHANGED evalVars
  <2>1. history' = history /\ baseline' = baseline /\ eval' = eval
    BY <1>8 DEF evalVars
  <2> QED BY <2>1 DEF GoldenInv, GoldenTypes, Alone, Fresh, Heard,
                      GreenIsEstablished, LossIsNoticed, Ended, Gated
<1>9. CASE EvalNext
  <2>1. \A loop \in Loops :
           (IF loop = "managed" THEN Metrics ELSE {"all"}) \subseteq Metrics
    BY DEF Metrics
  <2> QED BY <1>1, <1>2, <1>3, <1>4, <1>5, <1>6, <1>7, <1>9, <2>1,
             EndingsSound, ManagedEndsSound DEF EvalNext
<1> QED BY <1>8, <1>9

(* The invariant of the evaluations, in every state.                       *)
LEMMA AlwaysGoldenInv == EvalSpec => []GoldenInv
BY InitGoldenInv, StepGoldenInv, PTL DEF EvalSpec

(* A managed run that asked for the refusal policy and exits with success  *)
(* judged at least one answer, no breach, only answers the agent gave, and *)
(* none out of a session that remembers another case (vertex_eval.py),     *)
(* whatever ran before it.                                                 *)
THEOREM GreenIsAlwaysEstablished == EvalSpec => []GreenIsEstablished
<1>1. GoldenInv => GreenIsEstablished
  BY DEF GoldenInv
<1> QED BY <1>1, AlwaysGoldenInv, PTL

(* Between two complete runs the canary fails when some case got worse and *)
(* none better and passes when none got worse, and the offline gate passes *)
(* exactly when every case is as it should be (canary_eval.py,             *)
(* evaluate.py), whatever the answers to the one to nine cases.            *)
THEOREM LossIsAlwaysNoticed == EvalSpec => []LossIsNoticed
<1>1. GoldenInv => LossIsNoticed
  BY DEF GoldenInv
<1> QED BY <1>1, AlwaysGoldenInv, PTL

(***************************************************************************)
(* The agent registry: what is merged passed the gate, and the gate sees   *)
(* what the readers of the registry go by.                                 *)
(***************************************************************************)
Trees == [code : [Agents -> Constructions \cup {Absent}],
          entries : [Agents -> Entries],
          projected : SUBSET (Agents \X Keys \X (0 .. MaxDays))]

DeniedOn(entries, day) ==
    \/ \E a, b \in Active(entries) :
          a # b /\ entries[a].key = entries[b].key
    \/ \E a \in Active(entries) :
          \/ a \in Consequential /\ ~entries[a].hitl
          \/ day > entries[a].certified + Cadence

RegistryInv ==
    /\ tree \in Trees /\ today \in 0 .. MaxDays
    /\ main \in [tree : Trees, day : 0 .. MaxDays]
    /\ Verified(main.tree) /\ ProjectionIsCurrent(main.tree)
    /\ ~DeniedOn(main.tree.entries, main.day)
    /\ snapshot.verified => Describes(snapshot.entries, snapshot.code)

Shown(entries) == [a \in Active(entries) |-> entries[a]]

\* The gate compares what the readers of a row take it to say.
LEMMA VerifiedDescribes ==
    ASSUME NEW t \in Trees, Verified(t)
    PROVE  Describes(Shown(t.entries), t.code)
<1> DEFINE e == t.entries
           said == Shown(e)
<1>1. /\ DOMAIN said = Active(e) /\ Active(e) \subseteq Agents
      /\ \A a \in Active(e) : said[a] = e[a]
  BY DEF Shown, Active
<1> HIDE DEF said
<1>2. Named(said) = Scanned(e)
  BY <1>1 DEF Scanned, Named
<1>3. ASSUME NEW a \in Agents, Readable(t.code[a]),
             t.code[a].file \in Named(said)
      PROVE  /\ a \in DOMAIN said
             /\ said[a].file = t.code[a].file
             /\ said[a].tools = t.code[a].listed
             /\ t.code[a].listed \subseteq t.code[a].tools
             /\ said[a].kind = "managed" \/ t.code[a].model # "direct"
  <2> DEFINE file == t.code[a].file
  <2>1. a \in Constructed(t.code, file) /\ file \in Scanned(e)
    BY <1>2, <1>3 DEF Constructed
  <2>2. ~(a \notin Active(e) \/ e[a].file # file)
    BY <2>1 DEF Verified, Unregistered
  <2>3. e[a].tools = t.code[a].listed
    BY <2>1, <2>2 DEF Verified, ToolDrift
  <2>4. e[a].kind = "managed" \/ t.code[a].model # "direct"
    BY <2>1, <2>2 DEF Verified, Bypasses
  <2>5. t.code[a].listed \subseteq t.code[a].tools
    <3>1. t.code[a] \in Constructions \cup {Absent}
      BY DEF Trees
    <3>2. CASE t.code[a] \in Constructions
      BY <3>2 DEF Constructions
    <3>3. CASE t.code[a] = Absent
      BY <3>3 DEF Absent
    <3> QED BY <3>1, <3>2, <3>3
  <2> QED BY <1>1, <2>2, <2>3, <2>4, <2>5
<1>4. ASSUME NEW a \in Agents, a \in DOMAIN said, said[a].kind = "llm"
      PROVE  t.code[a].file = said[a].file
  <2>1. a \in Active(e) /\ said[a] = e[a] /\ e[a].kind # "managed"
    BY <1>1, <1>4
  <2>2. \/ a \in Constructed(t.code, e[a].file)
        \/ Defines(t.code, e[a].file, a)
    BY <2>1 DEF Verified, Ghosts
  <2> QED BY <2>1, <2>2 DEF Constructed, Defines
<1> QED BY <1>3, <1>4 DEF Describes, said, e

(* The tree starts with every agent constructed, registered and projected. *)
LEMMA InitRegistryInv == RegistryInit => RegistryInv
<1> SUFFICES ASSUME RegistryInit PROVE RegistryInv
  OBVIOUS
<1>1. PICK home \in [Agents -> Files], key \in [Agents -> Keys] :
         LET entries ==
                 [a \in Agents |->
                     [status |-> "active", kind |-> "llm",
                      key |-> key[a], file |-> home[a], tools |-> {},
                      hitl |-> a \in Consequential, certified |-> 0]]
         IN /\ \A a, b \in Agents : a # b => key[a] # key[b]
            /\ tree = [code |-> [a \in Agents |->
                                    [file |-> home[a], tools |-> {},
                                     listed |-> {}, model |-> "gateway"]],
                       entries |-> entries,
                       projected |-> Projection(entries)]
  BY DEF RegistryInit
<1>2. /\ DOMAIN tree = {"code", "entries", "projected"}
      /\ tree.code = [a \in Agents |-> [file |-> home[a], tools |-> {},
                                        listed |-> {}, model |-> "gateway"]]
      /\ tree.entries = [a \in Agents |->
                     [status |-> "active", kind |-> "llm",
                      key |-> key[a], file |-> home[a], tools |-> {},
                      hitl |-> a \in Consequential, certified |-> 0]]
      /\ tree.projected = Projection(tree.entries)
      /\ tree = [code |-> tree.code, entries |-> tree.entries,
                 projected |-> tree.projected]
  BY <1>1
<1>3. /\ \A a \in Agents :
            /\ tree.code[a].file = home[a] /\ tree.code[a].listed = {}
            /\ tree.code[a].model = "gateway"
            /\ tree.code[a] \in Constructions
            /\ tree.entries[a].status = "active"
            /\ tree.entries[a].kind = "llm" /\ tree.entries[a].key = key[a]
            /\ tree.entries[a].file = home[a]
            /\ tree.entries[a].tools = {}
            /\ tree.entries[a].hitl = (a \in Consequential)
            /\ tree.entries[a].certified = 0
            /\ tree.entries[a] \in Entries
  BY <1>2, RegistryAssumption DEF Constructions, Models, Entries
<1>4. Active(tree.entries) = Agents
  BY <1>3 DEF Active
<1>5. tree \in Trees
  <2>1. tree.code \in [Agents -> Constructions \cup {Absent}]
    BY <1>2, <1>3
  <2>2. tree.entries \in [Agents -> Entries]
    BY <1>2, <1>3
  <2>3. tree.projected \in SUBSET (Agents \X Keys \X (0 .. MaxDays))
    <3>1. \A a \in Agents : /\ tree.entries[a].key \in Keys
                            /\ tree.entries[a].certified \in 0 .. MaxDays
      BY <1>3, RegistryAssumption
    <3>2. \A p \in Projection(tree.entries) :
             p \in Agents \X Keys \X (0 .. MaxDays)
      BY <1>4, <3>1 DEF Projection
    <3> QED BY <1>2, <3>2
  <2> QED BY <1>2, <2>1, <2>2, <2>3 DEF Trees
<1>6. Verified(tree)
  <2>1. \A a \in Agents : a \in Constructed(tree.code, home[a])
    BY <1>3 DEF Constructed, Readable
  <2>2. \A file : \A a \in Constructed(tree.code, file) :
           a \in Agents /\ home[a] = file
    BY <1>3 DEF Constructed
  <2>3. ToolDrift(tree.code, tree.entries) = {}
    <3>1. \A a \in Agents : tree.code[a].listed = tree.entries[a].tools
      BY <1>3
    <3> QED BY <1>4, <3>1 DEF ToolDrift
  <2>4. Ghosts(tree.code, tree.entries) = {}
    BY <1>3, <1>4, <2>1 DEF Ghosts
  <2>5. Unregistered(tree.code, tree.entries) = {}
    BY <1>3, <1>4, <2>2 DEF Unregistered
  <2>6. Bypasses(tree.code, tree.entries) = {}
    BY <1>3, <1>4 DEF Bypasses
  <2> QED BY <2>3, <2>4, <2>5, <2>6 DEF Verified
<1>7. ~DeniedOn(tree.entries, 0)
  <2>1. \A a, b \in Agents : a # b => key[a] # key[b]
    BY <1>1
  <2>2. \A a \in Agents : a \in Consequential => tree.entries[a].hitl
    BY <1>3
  <2>3. \A a \in Agents : ~(0 > tree.entries[a].certified + Cadence)
    BY <1>3, RegistryAssumption
  <2> QED BY <1>3, <1>4, <2>1, <2>2, <2>3 DEF DeniedOn
<1>8. main = [tree |-> tree, day |-> 0] /\ today = 0
  BY DEF RegistryInit
<1>9. Describes(snapshot.entries, snapshot.code)
  <2>1. DOMAIN snapshot.entries = {}
    BY DEF RegistryInit
  <2> QED BY <2>1 DEF Describes, Named
<1>10. /\ main.tree = tree /\ main.day = 0 /\ today \in 0 .. MaxDays
       /\ main \in [tree : Trees, day : 0 .. MaxDays]
  BY <1>5, <1>8, RegistryAssumption
<1>11. ProjectionIsCurrent(tree)
  BY <1>2 DEF ProjectionIsCurrent
<1> QED BY <1>5, <1>6, <1>7, <1>9, <1>10, <1>11 DEF RegistryInv

(* An edit of the tree touches neither main nor what was published.        *)
LEMMA EditedTree ==
    ASSUME RegistryInv, NEW t \in Trees, Edit(t) PROVE RegistryInv'
BY DEF RegistryInv, Edit

(* The invariant holds after every edit, merge, publication and day.       *)
LEMMA StepRegistryInv ==
    RegistryInv /\ [RegistryNext]_registryVars => RegistryInv'
<1> SUFFICES ASSUME RegistryInv, [RegistryNext]_registryVars
             PROVE  RegistryInv'
  OBVIOUS
<1>t. tree \in Trees
  BY DEF RegistryInv
<1>m. main' = main /\ snapshot' = snapshot =>
         /\ main' \in [tree : Trees, day : 0 .. MaxDays]
         /\ Verified(main'.tree) /\ ProjectionIsCurrent(main'.tree)
         /\ ~DeniedOn(main'.tree.entries, main'.day)
         /\ snapshot'.verified => Describes(snapshot'.entries, snapshot'.code)
  BY DEF RegistryInv
<1>1. ASSUME NEW a \in Agents, EditCode(a) PROVE RegistryInv'
  <2>1. PICK written \in Constructions \cup {Absent} :
           Edit([tree EXCEPT !.code[a] = written])
    BY <1>1 DEF EditCode
  <2>2. [tree EXCEPT !.code[a] = written] \in Trees
    BY <1>t DEF Trees
  <2> QED BY <2>1, <2>2, EditedTree
<1>2. ASSUME NEW a \in Agents, EditEntry(a) PROVE RegistryInv'
  <2>1. PICK changed \in Entries : Edit([tree EXCEPT !.entries[a] = changed])
    <3>1. tree.entries[a] \in Entries
      BY <1>t DEF Trees
    <3>2. today \in 0 .. MaxDays
      BY DEF RegistryInv
    <3> DEFINE entry == tree.entries[a]
    <3>3. /\ \A status \in {"active", "retired"} :
                [entry EXCEPT !.status = status] \in Entries
          /\ \A tools \in SUBSET Tools :
                [entry EXCEPT !.tools = tools] \in Entries
          /\ \A file \in Files : [entry EXCEPT !.file = file] \in Entries
          /\ \A key \in Keys : [entry EXCEPT !.key = key] \in Entries
          /\ [entry EXCEPT !.hitl = ~@] \in Entries
          /\ [entry EXCEPT !.kind = "managed"] \in Entries
          /\ [entry EXCEPT !.certified = today] \in Entries
      <4> HIDE DEF entry
      <4>1. entry \in Entries
        BY <3>1 DEF entry
      <4> QED BY <3>2, <4>1 DEF Entries
    <3> QED BY <1>2, <3>3 DEF EditEntry
  <2>2. [tree EXCEPT !.entries[a] = changed] \in Trees
    BY <1>t DEF Trees
  <2> QED BY <2>1, <2>2, EditedTree
<1>3. CASE Regenerate
  <2>1. Projection(tree.entries) \in SUBSET (Agents \X Keys \X (0 .. MaxDays))
    BY <1>t DEF Projection, Active, Trees, Entries
  <2>2. tree' \in Trees
    BY <1>3, <1>t, <2>1 DEF Regenerate, Trees
  <2> QED BY <1>3, <1>m, <2>2 DEF Regenerate, RegistryInv
<1>4. CASE Merge
  <2>1. Verified(tree) /\ ProjectionIsCurrent(tree)
        /\ ~DeniedOn(tree.entries, today)
    BY <1>4 DEF Merge, Denied, DeniedOn
  <2>2. main' = [tree |-> tree, day |-> today] /\ UNCHANGED <<tree, snapshot,
                                                              today>>
    BY <1>4 DEF Merge
  <2>3. main'.tree = tree /\ main'.day = today
    BY <2>2
  <2>4. main' \in [tree : Trees, day : 0 .. MaxDays]
    BY <1>t, <2>2 DEF RegistryInv
  <2>5. Verified(main'.tree) /\ ProjectionIsCurrent(main'.tree)
        /\ ~DeniedOn(main'.tree.entries, main'.day)
    BY <2>1, <2>3
  <2>6. snapshot'.verified => Describes(snapshot'.entries, snapshot'.code)
    BY <2>2 DEF RegistryInv
  <2> QED BY <2>2, <2>4, <2>5, <2>6 DEF RegistryInv
<1>5. ASSUME NEW skip_verify \in BOOLEAN, Publish(skip_verify)
      PROVE  RegistryInv'
  <2>1. snapshot'.entries = Shown(tree.entries) /\ snapshot'.code = tree.code
        /\ (snapshot'.verified => Verified(tree))
    BY <1>5 DEF Publish, Shown
  <2>2. snapshot'.verified => Describes(snapshot'.entries, snapshot'.code)
    BY <1>t, <2>1, VerifiedDescribes
  <2> QED BY <1>5, <2>2 DEF Publish, RegistryInv
<1>6. CASE Midnight
  <2>1. today' \in 0 .. MaxDays
    BY <1>6, RegistryAssumption DEF Midnight, RegistryInv
  <2> QED BY <1>6, <1>m, <2>1 DEF Midnight, RegistryInv
<1>7. CASE UNCHANGED registryVars
  BY <1>7, <1>m DEF registryVars, RegistryInv
<1> QED BY <1>1, <1>2, <1>3, <1>4, <1>5, <1>6, <1>7 DEF RegistryNext

\* No two active agents share an account.
LEMMA OwnAccounts ==
    ASSUME NEW entries, NEW a \in Active(entries),
           \A b, c \in Active(entries) :
               b # c => entries[b].key # entries[c].key
    PROVE  HasItsOwnAccount(a, entries[a].key, Projection(entries))
<1> DEFINE Account(b) == <<b, entries[b].key, entries[b].certified>>
<1>1. Account(a) \in Projection(entries)
  BY DEF Projection
<1>2. ASSUME NEW other \in Projection(entries) \ {Account(a)}
      PROVE  other[1] # a /\ other[2] # entries[a].key
  <2>1. PICK b \in Active(entries) : other = Account(b)
    BY DEF Projection
  <2>2. b # a
    BY <1>2, <2>1
  <2> QED BY <2>1, <2>2
<1>3. Account(a)[1] = a /\ Account(a)[2] = entries[a].key
  OBVIOUS
<1> HIDE DEF Account
<1> QED BY <1>1, <1>2, <1>3 DEF HasItsOwnAccount

(* What the scan reads of main's source is registered, has an account of   *)
(* its own and was agreed, and a snapshot published with the gate          *)
(* describes its source (verify_agent_registry.py, registry.rego,          *)
(* agent_registry_bootstrap.py), for any agents, files, tools and keys.    *)
THEOREM RegistryIsAlwaysTrue == RegistrySpec => []RegistryIsTrue
<1>1. RegistryInv => RegistryIsTrue
  <2> SUFFICES ASSUME RegistryInv PROVE RegistryIsTrue
    OBVIOUS
  <2> DEFINE entries == main.tree.entries
             said == Shown(entries)
             code == main.tree.code
  <2>t. main.tree \in Trees /\ main.day \in 0 .. MaxDays
    BY DEF RegistryInv
  <2>1. Describes(said, code)
    BY <2>t, VerifiedDescribes DEF RegistryInv
  <2>2. /\ DOMAIN said = Active(entries)
        /\ \A a \in Active(entries) : said[a] = entries[a]
    BY DEF Shown
  <2>3. main.tree.projected = Projection(entries)
    BY DEF RegistryInv, ProjectionIsCurrent
  <2>4. ~DeniedOn(entries, main.day)
    BY DEF RegistryInv
  <2>5. snapshot.verified => Describes(snapshot.entries, snapshot.code)
    BY DEF RegistryInv
  <2> HIDE DEF said
  <2>6. ASSUME NEW a \in Agents, Readable(code[a]),
               code[a].file \in Named(said)
        PROVE  /\ a \in Consequential => said[a].hitl
               /\ main.day <= said[a].certified + Cadence
               /\ HasItsOwnAccount(a, said[a].key, main.tree.projected)
    <3>1. a \in Active(entries) /\ said[a] = entries[a]
      BY <2>1, <2>2, <2>6 DEF Describes
    <3>2. entries[a].certified \in Nat /\ main.day \in Nat
      BY <2>t, RegistryAssumption DEF Trees, Entries
    <3>3. /\ a \in Consequential => entries[a].hitl
          /\ ~(main.day > entries[a].certified + Cadence)
      BY <2>4, <3>1 DEF DeniedOn
    <3>4. main.day <= entries[a].certified + Cadence
      BY <3>2, <3>3, RegistryAssumption
    <3>5. HasItsOwnAccount(a, entries[a].key, main.tree.projected)
      BY <2>3, <2>4, <3>1, OwnAccounts DEF DeniedOn
    <3> QED BY <3>1, <3>3, <3>4, <3>5
  <2> QED BY <2>1, <2>5, <2>6 DEF RegistryIsTrue, said, Shown
<1> QED BY <1>1, InitRegistryInv, StepRegistryInv, PTL DEF RegistrySpec

(***************************************************************************)
(* The knowledge search.  What the fusion favours is arithmetic on the     *)
(* weights of few ranks, carried along a sorted sequence.                  *)
(***************************************************************************)
\* a ranking of some passages
Ranks(s) == /\ s \in Seq(Passages)
            /\ \A i, j \in 1 .. Len(s) : s[i] = s[j] => i = j

(* Where a passage is in a ranking.                                        *)
LEMMA RankIsIndex ==
    ASSUME NEW s, Ranks(s)
    PROVE  /\ \A i \in 1 .. Len(s) : RankIn(s, s[i]) = i
           /\ \A d : ~Contains(s, d) => RankIn(s, d) = 0
<1>1. ASSUME NEW i \in 1 .. Len(s)
      PROVE  RankIn(s, s[i]) = i
  <2>1. {k \in 1 .. Len(s) : s[k] = s[i]} = {i}
    BY DEF Ranks
  <2>2. Min({i}) = i
    BY DEF Min
  <2> QED BY <2>1, <2>2 DEF RankIn, SelectInSeq
<1>2. ASSUME NEW d, ~Contains(s, d)
      PROVE  RankIn(s, d) = 0
  <2>1. {k \in 1 .. Len(s) : s[k] = d} = {}
    BY <1>2 DEF Contains
  <2> QED BY <2>1 DEF RankIn, SelectInSeq
<1> QED BY <1>1, <1>2

(* A set of passages in an order is a ranking of all of them.              *)
LEMMA OrdersRank ==
    ASSUME NEW S \in SUBSET Passages, NEW s \in SetToSeqs(S)
    PROVE  Ranks(s) /\ \A d \in S : \E i \in 1 .. Len(s) : s[i] = d
<1> DEFINE n == Cardinality(S)
<1>1. IsFiniteSet(S) /\ n \in Nat
  <2>1. IsFiniteSet(Passages)
    BY SearchAssumption, FS_Interval DEF Passages
  <2>2. IsFiniteSet(S)
    BY <2>1, FS_Subset
  <2> QED BY <2>2, FS_CardinalityType
<1>2. s \in [1 .. n -> S] /\ \A i, j \in 1 .. n : i # j => s[i] # s[j]
  BY DEF SetToSeqs
<1>3. s \in Seq(S) /\ s \in Seq(Passages) /\ Len(s) = n
  <2>1. s \in Seq(S)
    BY <1>1, <1>2, SeqDef
  <2>2. Len(s) = n
    BY <1>1, <1>2, <2>1, LenProperties
  <2> QED BY <2>1, <2>2, SeqMonotonic
<1>4. s \in Surjection(1 .. n, S)
  <2>1. s \in Injection(1 .. n, S)
    BY <1>2 DEF Injection, IsInjective
  <2>2. IsFiniteSet(1 .. n) /\ Cardinality(1 .. n) = n
    BY <1>1, FS_Interval
  <2> QED BY <1>1, <2>1, <2>2, FS_Injection
<1> QED BY <1>2, <1>3, <1>4 DEF Ranks, Surjection

(* So is what is left of a ranking after a limit.                          *)
LEMMA LimitsRank ==
    ASSUME NEW s, Ranks(s), NEW n \in Nat
    PROVE  /\ Ranks(Upto(s, n)) /\ Len(Upto(s, n)) <= n
           /\ Len(Upto(s, n)) <= Len(s)
           /\ \A i \in 1 .. Len(Upto(s, n)) : Upto(s, n)[i] = s[i]
<1> DEFINE m == IF Len(s) < n THEN Len(s) ELSE n
<1>1. m \in Nat /\ m <= n /\ m <= Len(s) /\ s \in Seq(Passages)
  BY LenProperties DEF Ranks
<1>2. /\ SubSeq(s, 1, m) \in Seq(Passages)
      /\ Len(SubSeq(s, 1, m)) = m
      /\ \A i \in 1 .. m : SubSeq(s, 1, m)[i] = s[i]
  BY <1>1, SubSeqProperties
<1>3. Upto(s, n) = SubSeq(s, 1, m)
  BY DEF Upto
<1> HIDE DEF m
<1> QED BY <1>1, <1>2, <1>3 DEF Ranks

(* What an arm or the corpus may return is a ranking.                      *)
LEMMA RankingsRank ==
    ASSUME NEW s \in Rankings, NEW n \in Nat
    PROVE  Ranks(Upto(s, n)) /\ Len(Upto(s, n)) <= n
<1>1. Ranks(s)
  <2>1. CASE s = <<>>
    BY <2>1 DEF Ranks
  <2>2. CASE s \in SetToAllKPermutations(Passages)
    BY <2>2, OrdersRank DEF SetToAllKPermutations
  <2> QED BY <2>1, <2>2 DEF Rankings
<1> QED BY <1>1, LimitsRank

(* What an arm returns is a ranking short enough for the constant.         *)
LEMMA ArmsRank ==
    ASSUME NEW s \in Rankings
    PROVE  Ranks(Upto(s, KEach)) /\ Len(Upto(s, KEach)) <= 61
<1>1. KEach \in Nat /\ KEach <= 61
  BY SearchAssumption
<1>2. Ranks(Upto(s, KEach)) /\ Len(Upto(s, KEach)) <= KEach
  BY <1>1, RankingsRank
<1>3. Len(Upto(s, KEach)) \in Nat
  BY <1>2, LenProperties DEF Ranks
<1> QED BY <1>1, <1>2, <1>3

Lower == {pair \in Nat \X Nat : pair[1] < pair[2]}

(* A set of numbers has a least one.                                       *)
LEMMA LeastOne ==
    ASSUME NEW T \in SUBSET Nat, T # {}
    PROVE  \E x \in T : \A y \in T : x <= y
<1>1. IsWellFoundedOn(Lower, Nat)
  BY NatLessThanWellFounded, Zenon DEF OpToRel, Lower
<1>2. \A x, y \in Nat : <<y, x>> \in Lower <=> y < x
  BY DEF Lower
<1>3. PICK x \in T : \A y \in T : ~(<<y, x>> \in Lower)
  BY <1>1, WFMin
<1>4. ASSUME NEW y \in T
      PROVE  x <= y
  <2>1. x \in Nat /\ y \in Nat
    OBVIOUS
  <2>2. ~(y < x)
    BY <1>2, <1>3, <2>1
  <2> QED BY <2>1, <2>2
<1> QED BY <1>4

(* The arithmetic of the fusion: two ranks of an arm outweigh one.         *)
LEMMA TwoOutweighOne ==
    ASSUME NEW a \in 1 .. 61, NEW b \in 1 .. 61, NEW c \in 1 .. 61
    PROVE  LET both == Plus(<<1, RRF_K + a>>, <<1, RRF_K + b>>)
               first == Plus(<<1, RRF_K + c>>, <<0, 1>>)
               second == Plus(<<0, 1>>, <<1, RRF_K + c>>)
           IN ~NoLess(first, both) /\ ~NoLess(second, both)
<1> DEFINE p == 60 + a
           q == 60 + b
           r == 60 + c
<1>1. p \in 61 .. 121 /\ q \in 61 .. 121 /\ r \in 61 .. 121
  OBVIOUS
<1>2. p * q < (q + p) * r
  <2> HIDE DEF p, q, r
  <2>1. p * q <= 121 * q /\ p * q <= 121 * p
    BY <1>1
  <2>2. (q + p) * r >= (q + p) * 61
    BY <1>1
  <2> QED BY <1>1, <2>1, <2>2
<1>3. Plus(<<1, p>>, <<1, q>>) = <<q + p, p * q>>
  <2> HIDE DEF p, q
  <2> QED BY <1>1 DEF Plus
<1>4. /\ Plus(<<1, r>>, <<0, 1>>) = <<1, r>>
      /\ Plus(<<0, 1>>, <<1, r>>) = <<1, r>>
  <2> HIDE DEF r
  <2> QED BY <1>1 DEF Plus
<1>5. ~NoLess(<<1, r>>, <<q + p, p * q>>)
  <2> HIDE DEF p, q, r
  <2>1. NoLess(<<1, r>>, <<q + p, p * q>>) <=> 1 * (p * q) >= (q + p) * r
    BY DEF NoLess
  <2>2. p * q \in Int /\ (q + p) * r \in Int /\ 1 * (p * q) = p * q
    BY <1>1
  <2> QED BY <1>2, <2>1, <2>2
<1> QED BY <1>3, <1>4, <1>5 DEF RRF_K

(* A share is one over the damped rank, or nothing.                        *)
LEMMA ShareOfRank ==
    ASSUME NEW s, Ranks(s), Len(s) <= 61, NEW d
    PROVE  /\ d \in ToSet(s) =>
                 \E a \in 1 .. 61 : Share(s, d) = <<1, RRF_K + a>>
           /\ d \notin ToSet(s) => Share(s, d) = <<0, 1>>
<1>1. s \in Seq(Passages) /\ DOMAIN s = 1 .. Len(s) /\ Len(s) \in Nat
  BY LenProperties DEF Ranks
<1>2. ASSUME d \in ToSet(s)
      PROVE  \E a \in 1 .. 61 : Share(s, d) = <<1, RRF_K + a>>
  <2>1. PICK i \in 1 .. Len(s) : s[i] = d
    BY <1>1, <1>2 DEF ToSet
  <2>2. RankIn(s, d) = i
    BY <2>1, RankIsIndex
  <2>3. i \in 1 .. 61 /\ i # 0
    BY <1>1, <2>1
  <2> QED BY <2>2, <2>3 DEF Share
<1>3. ASSUME d \notin ToSet(s)
      PROVE  Share(s, d) = <<0, 1>>
  <2>1. ~Contains(s, d)
    BY <1>1, <1>3 DEF ToSet, Contains
  <2>2. RankIn(s, d) = 0
    BY <2>1, RankIsIndex
  <2> QED BY <2>2 DEF Share
<1> QED BY <1>2, <1>3

AgreementFirst(dense, sparse, candidates) ==
    LET both == ToSet(dense) \cap ToSet(sparse)
        one == (ToSet(dense) \cup ToSet(sparse)) \ both
    IN \A d \in both, e \in one :
          Contains(candidates, e) =>
              Contains(candidates, d) /\ Before(candidates, d, e)

(* Whatever the arms rank, the fused order has no passage of one arm right *)
(* before a passage of both, so none anywhere before.                      *)
LEMMA FusionLeads ==
    ASSUME NEW dense, NEW sparse, Ranks(dense), Ranks(sparse),
           Len(dense) <= 61, Len(sparse) <= 61,
           NEW candidates \in Fusions(dense, sparse)
    PROVE  Ranks(candidates) /\ AgreementFirst(dense, sparse, candidates)
<1> DEFINE S == ToSet(dense) \cup ToSet(sparse)
           both == ToSet(dense) \cap ToSet(sparse)
           one == S \ both
<1>1. PICK s \in SetToSeqs(S) :
         /\ candidates = Upto(s, KCandidates)
         /\ \A i \in 1 .. Len(s) - 1 :
               NoLess(Fused(dense, sparse, s[i]),
                      Fused(dense, sparse, s[i + 1]))
  BY DEF Fusions
<1>2. S \in SUBSET Passages
  <2>1. dense \in Seq(Passages) /\ sparse \in Seq(Passages)
    BY DEF Ranks
  <2>2. /\ \A i \in DOMAIN dense : dense[i] \in Passages
        /\ \A i \in DOMAIN sparse : sparse[i] \in Passages
    BY <2>1, ElementOfSeq, LenProperties
  <2> QED BY <2>2 DEF ToSet
<1>3. /\ Ranks(s) /\ Len(s) \in Nat
      /\ \A d \in S : \E i \in 1 .. Len(s) : s[i] = d
      /\ \A i \in 1 .. Len(s) : s[i] \in S
  <2>1. Ranks(s) /\ \A d \in S : \E i \in 1 .. Len(s) : s[i] = d
    <3> HIDE DEF S
    <3> QED BY <1>1, <1>2, OrdersRank
  <2>2. s \in [1 .. Cardinality(S) -> S]
    BY <1>1 DEF SetToSeqs
  <2>3. DOMAIN s = 1 .. Len(s) /\ Len(s) \in Nat
    BY <2>1, LenProperties DEF Ranks
  <2>4. \A i \in 1 .. Len(s) : s[i] \in S
    <3> HIDE DEF S
    <3> QED BY <2>2, <2>3
  <2> QED BY <2>1, <2>3, <2>4
<1>4. KCandidates \in Nat
  BY SearchAssumption
<1>5. /\ Ranks(candidates)
      /\ Len(candidates) <= Len(s) /\ Len(candidates) \in Nat
      /\ \A i \in 1 .. Len(candidates) : candidates[i] = s[i]
  <2>1. Ranks(candidates) /\ Len(candidates) <= Len(s)
    BY <1>1, <1>3, <1>4, LimitsRank
  <2>2. \A i \in 1 .. Len(candidates) : candidates[i] = s[i]
    BY <1>1, <1>3, <1>4, LimitsRank
  <2>3. Len(candidates) \in Nat
    BY <2>1, LenProperties DEF Ranks
  <2> QED BY <2>1, <2>2, <2>3
<1>6. ASSUME NEW x \in one, NEW y \in both
      PROVE  ~NoLess(Fused(dense, sparse, x), Fused(dense, sparse, y))
  <2>1. PICK a \in 1 .. 61 : Share(dense, y) = <<1, RRF_K + a>>
    BY <1>6, ShareOfRank
  <2>2. PICK b \in 1 .. 61 : Share(sparse, y) = <<1, RRF_K + b>>
    BY <1>6, ShareOfRank
  <2>3. CASE x \in ToSet(dense)
    <3>1. x \notin ToSet(sparse)
      BY <1>6, <2>3
    <3>2. PICK c \in 1 .. 61 : Share(dense, x) = <<1, RRF_K + c>>
      BY <2>3, ShareOfRank
    <3>3. Share(sparse, x) = <<0, 1>>
      BY <3>1, ShareOfRank
    <3> QED BY <2>1, <2>2, <3>2, <3>3, TwoOutweighOne DEF Fused
  <2>4. CASE x \notin ToSet(dense)
    <3>1. x \in ToSet(sparse)
      BY <1>6, <2>4
    <3>2. PICK c \in 1 .. 61 : Share(sparse, x) = <<1, RRF_K + c>>
      BY <3>1, ShareOfRank
    <3>3. Share(dense, x) = <<0, 1>>
      BY <2>4, ShareOfRank
    <3> QED BY <2>1, <2>2, <3>2, <3>3, TwoOutweighOne DEF Fused
  <2> QED BY <2>3, <2>4
<1>7. ASSUME NEW d \in both, NEW e \in one, Contains(candidates, e)
      PROVE  Contains(candidates, d) /\ Before(candidates, d, e)
  <2>1. PICK j \in 1 .. Len(candidates) : candidates[j] = e
    BY <1>7 DEF Contains
  <2>2. PICK i \in 1 .. Len(s) : s[i] = d
    BY <1>3, <1>7
  <2>3. s[j] = e /\ j \in 1 .. Len(s)
    BY <1>3, <1>5, <2>1
  <2>4. i < j
    <3> SUFFICES ASSUME ~(i < j) PROVE FALSE
      OBVIOUS
    <3> DEFINE Later == {m \in 1 .. Len(s) : m >= j /\ s[m] \in both}
    <3>1. i \in Later /\ Later \in SUBSET Nat
      BY <1>3, <1>7, <2>2, <2>3
    <3>2. PICK m \in Later : \A y \in Later : m <= y
      <4> HIDE DEF Later
      <4> QED BY <3>1, LeastOne
    <3>3. m # j /\ m > j
      BY <1>7, <2>3, <3>2
    <3>4. m - 1 \in 1 .. Len(s) - 1 /\ m - 1 >= j
      BY <1>3, <2>3, <3>2, <3>3
    <3>5. m - 1 \notin Later
      <4>1. m \in Nat
        BY <3>1, <3>2
      <4> HIDE DEF Later
      <4> QED BY <3>2, <4>1
    <3>6. s[m - 1] \in one
      BY <1>3, <3>4, <3>5
    <3>7. s[m] \in both /\ (m - 1) + 1 = m
      BY <3>2
    <3>8. NoLess(Fused(dense, sparse, s[m - 1]), Fused(dense, sparse, s[m]))
      <4> HIDE DEF both, one, Later
      <4> QED BY <1>1, <3>4, <3>7
    <3> HIDE DEF both, one, Later
    <3> QED BY <1>6, <3>6, <3>7, <3>8
  <2>5. i \in 1 .. Len(candidates) /\ candidates[i] = d
    BY <1>3, <1>5, <2>1, <2>2, <2>4
  <2>6. RankIn(candidates, d) = i /\ RankIn(candidates, e) = j
    BY <1>5, <2>1, <2>5, RankIsIndex
  <2>7. Contains(candidates, d)
    BY <2>5 DEF Contains
  <2> QED BY <2>4, <2>6, <2>7 DEF Before
<1>8. AgreementFirst(dense, sparse, candidates)
  BY <1>7, Zenon DEF AgreementFirst
<1> QED BY <1>5, <1>8

(***************************************************************************)
(* A search, step by step                                                  *)
(***************************************************************************)
FusionInv ==
    /\ DOMAIN find = DOMAIN NoFind
    /\ find.step \in {"hybrid", "dense"} => find.sparse = <<>>
    /\ find.sparse # <<>> =>
          AgreementFirst(find.dense, find.sparse, find.candidates)

\* what is fused stays, or is forgotten
KeepsFusion ==
    /\ DOMAIN find' = DOMAIN NoFind
    /\ \/ /\ find'.dense = find.dense
          /\ find'.sparse = find.sparse
          /\ find'.candidates = find.candidates
          /\ find'.step \notin {"hybrid", "dense"}
       \/ find'.sparse = <<>>

(* A step that keeps or forgets what is fused keeps it right.              *)
LEMMA FusionKept ==
    ASSUME FusionInv, KeepsFusion
    PROVE  FusionInv'
<1>1. find'.step \in {"hybrid", "dense"} => find'.sparse = <<>>
  BY DEF FusionInv, KeepsFusion
<1>2. find'.sparse # <<>> =>
         AgreementFirst(find'.dense, find'.sparse, find'.candidates)
  BY DEF FusionInv, KeepsFusion
<1>3. DOMAIN find' = DOMAIN NoFind'
  BY DEF KeepsFusion, NoFind
<1> QED BY <1>1, <1>2, <1>3 DEF FusionInv

(* What ranking the candidates changes of a search.                        *)
LEMMA RankedIs ==
    ASSUME NEW candidates, NEW order, DOMAIN find = DOMAIN NoFind
    PROVE  LET ranked == Ranked(candidates, order)
           IN /\ DOMAIN ranked = DOMAIN NoFind
              /\ ranked.dense = find.dense
              /\ ranked.sparse = find.sparse
              /\ ranked.candidates = find.candidates
              /\ ranked.order = order
              /\ ranked.results = Upto(Reordered(candidates, order), TopN)
              /\ ranked.caller = find.caller
              /\ ranked.note = find.note
              /\ ranked.local = find.local
              /\ ranked.refused = find.refused
              /\ ranked.direct = find.direct
BY DEF Ranked, NoFind

(* No step puts one arm before both.                                       *)
LEMMA FusionStep ==
    ASSUME FusionInv, [SearchNext]_searchVars
    PROVE  FusionInv'
<1> USE DEF Reaches
<1>0. /\ DOMAIN find = DOMAIN NoFind
      /\ DOMAIN NoFind = {"step", "caller", "dense", "sparse", "candidates",
                          "order", "results", "note", "local", "refused",
                          "direct"}
      /\ find.step \in {"hybrid", "dense"} => find.sparse = <<>>
      /\ NoFind.sparse = <<>>
  BY DEF FusionInv, NoFind
<1>a. ASSUME NEW step \in FindSteps \ {"hybrid", "dense"}, NEW order,
             NEW candidates,
             \/ Reaches(step, Ranked(candidates, order))
             \/ Reaches(step, [Ranked(candidates, order)
                                  EXCEPT !.refused = TRUE])
             \/ Reaches(step, [Ranked(candidates, order)
                                  EXCEPT !.direct = TRUE])
      PROVE  KeepsFusion
  <2> DEFINE ranked == Ranked(candidates, order)
  <2>1. /\ DOMAIN ranked = DOMAIN NoFind
        /\ ranked.dense = find.dense
        /\ ranked.sparse = find.sparse
        /\ ranked.candidates = find.candidates
    BY <1>0, RankedIs
  <2> HIDE DEF ranked
  <2>2. \/ find' = [ranked EXCEPT !.step = step]
        \/ find' = [[ranked EXCEPT !.refused = TRUE] EXCEPT !.step = step]
        \/ find' = [[ranked EXCEPT !.direct = TRUE] EXCEPT !.step = step]
    BY <1>a DEF ranked
  <2>3. /\ DOMAIN find' = DOMAIN NoFind
        /\ find'.dense = find.dense
        /\ find'.sparse = find.sparse
        /\ find'.candidates = find.candidates
        /\ find'.step = step
    BY <1>0, <2>1, <2>2
  <2> QED BY <2>3 DEF KeepsFusion
<1>1. CASE Question
  <2>1. find'.sparse = <<>> /\ DOMAIN find' = DOMAIN NoFind
    BY <1>1 DEF Question, AskTool, NoFind
  <2> QED BY <2>1, FusionKept DEF KeepsFusion
<1>2. CASE AskLocal
  <2>1. find'.sparse = <<>> /\ DOMAIN find' = DOMAIN NoFind
    BY <1>2 DEF AskLocal, NoFind
  <2> QED BY <2>1, FusionKept DEF KeepsFusion
<1>3. CASE Unreachable
  <2>1. find'.sparse = <<>> /\ DOMAIN find' = DOMAIN NoFind
    BY <1>3 DEF Unreachable, NoFind
  <2> QED BY <2>1, FusionKept DEF KeepsFusion
<1>4. CASE Hybrid
  <2>1. PICK s \in Rankings, r \in Rankings :
           \E candidates \in Fusions(Upto(s, KEach), Upto(r, KEach)) :
              Reaches(IF candidates = <<>> THEN "found" ELSE "rerank",
                      [find EXCEPT !.dense = Upto(s, KEach),
                                   !.sparse = Upto(r, KEach),
                                   !.candidates = candidates])
    BY <1>4 DEF Hybrid
  <2> DEFINE dense == Upto(s, KEach)
             sparse == Upto(r, KEach)
  <2>2. Ranks(dense) /\ Ranks(sparse) /\ Len(dense) <= 61 /\ Len(sparse) <= 61
    BY ArmsRank
  <2>4. PICK candidates \in Fusions(dense, sparse) :
           Reaches(IF candidates = <<>> THEN "found" ELSE "rerank",
                   [find EXCEPT !.dense = dense, !.sparse = sparse,
                                !.candidates = candidates])
    BY <2>1
  <2> HIDE DEF dense, sparse
  <2>5. AgreementFirst(dense, sparse, candidates)
    BY <2>2, FusionLeads
  <2>6. /\ DOMAIN find' = DOMAIN NoFind
        /\ find'.dense = dense /\ find'.sparse = sparse
        /\ find'.candidates = candidates
        /\ find'.step \in {"found", "rerank"}
    BY <1>0, <2>4
  <2>7. AgreementFirst(find'.dense, find'.sparse, find'.candidates)
    BY <2>5, <2>6
  <2>8. DOMAIN find' = DOMAIN NoFind'
    BY <2>6 DEF NoFind
  <2> QED BY <2>6, <2>7, <2>8 DEF FusionInv
<1>5. CASE HybridFails
  BY <1>0, <1>5, FusionKept DEF HybridFails, KeepsFusion
<1>6. CASE Dense
  BY <1>0, <1>6, FusionKept DEF Dense, KeepsFusion
<1>7. CASE DenseFails
  BY <1>0, <1>7, FusionKept DEF DenseFails, KeepsFusion
<1>8. CASE RerankSkipped
  BY <1>8, <1>a, FusionKept DEF RerankSkipped, Kept, FindSteps
<1>9. CASE RerankGoverned
  <2>1. ASSUME Reaches("rerank_direct", find)
        PROVE  KeepsFusion
    BY <1>0, <2>1 DEF KeepsFusion
  <2>2. "found" \in FindSteps \ {"hybrid", "dense"}
    BY DEF FindSteps
  <2>3. \/ Reaches("rerank_direct", find)
        \/ \E candidates, order : Reaches("found", Ranked(candidates, order))
    <3> HIDE DEF Reaches
    <3> QED BY <1>9, Zenon DEF RerankGoverned, Reads, Kept
  <2> HIDE DEF Reaches
  <2> QED BY <1>a, <2>1, <2>2, <2>3, FusionKept
<1>10. CASE RerankRefused
  BY <1>10, <1>a, FusionKept DEF RerankRefused, Kept, FindSteps
<1>11. CASE RerankDirect
  <2>1. "found" \in FindSteps \ {"hybrid", "dense"}
    BY DEF FindSteps
  <2>2. \E candidates, order :
           Reaches("found", [Ranked(candidates, order) EXCEPT !.direct = TRUE])
    <3> HIDE DEF Reaches
    <3> QED BY <1>11, Zenon DEF RerankDirect, Kept
  <2> HIDE DEF Reaches
  <2> QED BY <1>a, <2>1, <2>2, FusionKept
<1>12. CASE Failed
  BY <1>0, <1>12, FusionKept DEF Failed, KeepsFusion
<1>13. CASE LocalKbSearch
  BY <1>0, <1>13, FusionKept DEF LocalKbSearch, KeepsFusion
<1>14. CASE Found
  BY <1>0, <1>14, FusionKept DEF Found, KeepsFusion
<1>15. CASE UNCHANGED searchVars
  <2>1. find' = find /\ NoFind' = NoFind
    BY <1>15 DEF searchVars, NoFind
  <2> QED BY <2>1 DEF FusionInv
<1> QED
  BY <1>1, <1>2, <1>3, <1>4, <1>5, <1>6, <1>7, <1>8, <1>9, <1>10, <1>11,
     <1>12, <1>13, <1>14, <1>15 DEF SearchNext

(* What both arms found comes first, in every state of every search,       *)
(* whatever the arms rank and for every depth up to 61.                    *)
THEOREM FusionAlwaysFavoursAgreement == SearchSpec => []FusionFavoursAgreement
<1>1. SearchInit => FusionInv
  BY DEF SearchInit, FusionInv, NoFind
<1>2. FusionInv /\ [SearchNext]_searchVars => FusionInv'
  BY FusionStep
<1>3. FusionInv => FusionFavoursAgreement
  BY DEF FusionInv, FusionFavoursAgreement, AgreementFirst
<1> QED BY <1>1, <1>2, <1>3, PTL DEF SearchSpec

(***************************************************************************)
(* The order a reply of the reranker gives                                 *)
(***************************************************************************)
(* Induction, from the least number that fails.                            *)
LEMMA NumberByNumber ==
    ASSUME NEW T \in SUBSET Nat, 0 \in T, \A n \in T : n + 1 \in T
    PROVE  T = Nat
<1> DEFINE U == Nat \ T
<1>1. SUFFICES ASSUME U # {} PROVE FALSE
  OBVIOUS
<1>2. PICK x \in U : \A y \in U : x <= y
  <2>1. U \in SUBSET Nat
    OBVIOUS
  <2> HIDE DEF U
  <2> QED BY <1>1, <2>1, LeastOne
<1>3. x # 0 /\ x - 1 \in Nat /\ x - 1 \notin U
  BY <1>2
<1>4. (x - 1) + 1 \in T
  BY <1>3
<1> QED BY <1>4

TakenOnce(may, kept, i) ==
    IF i \in may /\ ~Contains(kept, i) THEN Append(kept, i) ELSE kept

\* f sifts the numbers of every set of places among the first n, latest first
SiftsOver(f, n, s, may) ==
    f = [u \in SUBSET (1 .. n) |->
            IF u = {} THEN <<>>
            ELSE TakenOnce(may, f[u \ {Max(u)}], s[Max(u)])]

(* The last of some places.                                                *)
LEMMA MaxPlace ==
    ASSUME NEW n \in Nat, NEW u \in SUBSET (1 .. n + 1), n + 1 \in u
    PROVE  Max(u) = n + 1
<1>1. \A y \in u : n + 1 >= y
  OBVIOUS
<1>2. \A x \in u : (\A y \in u : x >= y) => x = n + 1
  OBVIOUS
<1> QED BY <1>1, <1>2 DEF Max

(* A sequence of any length can be sifted.                                 *)
LEMMA SiftExists ==
    ASSUME NEW s, NEW may, NEW n \in Nat
    PROVE  \E f : SiftsOver(f, n, s, may)
<1> DEFINE T == {k \in Nat : \E f : SiftsOver(f, k, s, may)}
<1>1. 0 \in T
  <2> DEFINE f == [u \in SUBSET (1 .. 0) |-> <<>>]
  <2>1. \A u \in SUBSET (1 .. 0) : u = {}
    OBVIOUS
  <2>2. SiftsOver(f, 0, s, may)
    BY <2>1 DEF SiftsOver
  <2> QED BY <2>2
<1>2. ASSUME NEW k \in T PROVE k + 1 \in T
  <2>1. k \in Nat
    OBVIOUS
  <2>2. PICK f : SiftsOver(f, k, s, may)
    OBVIOUS
  <2> DEFINE g == [u \in SUBSET (1 .. k + 1) |->
                     IF k + 1 \in u
                     THEN TakenOnce(may, f[u \ {k + 1}], s[k + 1])
                     ELSE f[u]]
  <2>3. ASSUME NEW u \in SUBSET (1 .. k + 1)
        PROVE  g[u] = IF u = {} THEN <<>>
                      ELSE TakenOnce(may, g[u \ {Max(u)}], s[Max(u)])
    <3>1. CASE k + 1 \in u
      <4>1. Max(u) = k + 1
        BY <2>1, <3>1, MaxPlace
      <4>2. u \ {k + 1} \in SUBSET (1 .. k + 1) /\ u # {}
        BY <3>1
      <4>3. g[u \ {k + 1}] = f[u \ {k + 1}]
        BY <4>2
      <4> QED BY <3>1, <4>1, <4>2, <4>3
    <3>2. CASE k + 1 \notin u
      <4>1. u \in SUBSET (1 .. k)
        BY <2>1, <3>2
      <4>2. f[u] = IF u = {} THEN <<>>
                   ELSE TakenOnce(may, f[u \ {Max(u)}], s[Max(u)])
        BY <2>2, <4>1, Zenon DEF SiftsOver
      <4>3. \A v \in SUBSET u : g[v] = f[v]
        BY <3>2
      <4>4. g[u] = f[u] /\ g[u \ {Max(u)}] = f[u \ {Max(u)}]
        BY <4>3
      <4> QED BY <4>2, <4>4, Zenon
    <3> QED BY <3>1, <3>2
  <2>4. SiftsOver(g, k + 1, s, may)
    <3> HIDE DEF g
    <3>1. g = [u \in SUBSET (1 .. k + 1) |-> g[u]]
      BY DEF g
    <3> QED BY <2>3, <3>1, Zenon DEF SiftsOver
  <2> QED BY <2>1, <2>4
<1>3. T = Nat
  <2> HIDE DEF T
  <2>1. T \in SUBSET Nat
    BY DEF T
  <2> QED BY <1>1, <1>2, <2>1, NumberByNumber
<1> QED BY <1>3

Sifts(walk, s, n, may) ==
    /\ walk[0] = <<>>
    /\ \A i \in 1 .. n : walk[i] = TakenOnce(may, walk[i - 1], s[i])

(* What Numbers keeps is the end of a walk along the sequence.             *)
LEMMA NumbersWalk ==
    ASSUME NEW s, NEW n \in Nat, DOMAIN s = 1 .. n, NEW may
    PROVE  \E walk : Sifts(walk, s, n, may) /\ Numbers(s, may) = walk[n]
<1> DEFINE iter == CHOOSE f : SiftsOver(f, n, s, may)
           walk == [i \in 0 .. n |-> iter[1 .. i]]
<1>1. SiftsOver(iter, n, s, may)
  BY SiftExists, Zenon
<1>2. Numbers(s, may) = iter[1 .. n]
  BY Zenon DEF Numbers, FoldLeft, MapThenFoldSet, SiftsOver, TakenOnce
<1> HIDE DEF iter
<1>3. walk[0] = <<>>
  <2>1. 1 .. 0 = {} /\ {} \in SUBSET (1 .. n) /\ 0 \in 0 .. n
    OBVIOUS
  <2>2. iter[{}] = <<>>
    BY <1>1, <2>1, Zenon DEF SiftsOver
  <2> QED BY <2>1, <2>2
<1>4. ASSUME NEW i \in 1 .. n
      PROVE  walk[i] = TakenOnce(may, walk[i - 1], s[i])
  <2> DEFINE u == 1 .. i
  <2>1. u \in SUBSET (1 .. n) /\ u # {} /\ i \in 0 .. n /\ i - 1 \in 0 .. n
    <3>1. u \subseteq 1 .. n /\ i \in u
      OBVIOUS
    <3>2. i \in 0 .. n /\ i - 1 \in 0 .. n
      OBVIOUS
    <3> QED BY <3>1, <3>2
  <2>2. Max(u) = i
    <3>1. /\ i - 1 \in Nat /\ u \in SUBSET (1 .. (i - 1) + 1)
          /\ (i - 1) + 1 \in u /\ (i - 1) + 1 = i
      OBVIOUS
    <3> HIDE DEF u
    <3> QED BY <3>1, MaxPlace
  <2>3. u \ {i} = 1 .. (i - 1)
    OBVIOUS
  <2> HIDE DEF u
  <2>4. iter[u] = TakenOnce(may, iter[u \ {Max(u)}], s[Max(u)])
    BY <1>1, <2>1, Zenon DEF SiftsOver
  <2> QED BY <2>1, <2>2, <2>3, <2>4 DEF u
<1> HIDE DEF walk
<1>5. walk[n] = iter[1 .. n]
  BY DEF walk
<1>6. Sifts(walk, s, n, may)
  BY <1>3, <1>4 DEF Sifts
<1> QED BY <1>2, <1>5, <1>6

Sifted(r, s, i, may) ==
    /\ r \in Seq(may)
    /\ \A a, b \in 1 .. Len(r) : r[a] = r[b] => a = b
    /\ \A j \in 1 .. i : s[j] \in may => Contains(r, s[j])
    /\ (\A j \in 1 .. i : s[j] = j /\ j \in may) => r = [j \in 1 .. i |-> j]

(* One more number, one more step of the sifting.                          *)
LEMMA SiftOne ==
    ASSUME NEW i \in Nat, NEW s, NEW may, NEW r, Sifted(r, s, i, may)
    PROVE  Sifted(TakenOnce(may, r, s[i + 1]), s, i + 1, may)
<1> DEFINE x == s[i + 1]
           t == TakenOnce(may, r, x)
<1>1. /\ r \in Seq(may) /\ Len(r) \in Nat /\ DOMAIN r = 1 .. Len(r)
      /\ \A a, b \in 1 .. Len(r) : r[a] = r[b] => a = b
      /\ \A j \in 1 .. i : s[j] \in may => Contains(r, s[j])
  BY LenProperties DEF Sifted
<1>2. CASE x \in may /\ ~Contains(r, x)
  <2>1. t = Append(r, x)
    BY <1>2 DEF TakenOnce
  <2>2. /\ t \in Seq(may)
        /\ Len(t) = Len(r) + 1
        /\ \A a \in 1 .. Len(r) : t[a] = r[a]
        /\ t[Len(r) + 1] = x
    <3> HIDE DEF x, t
    <3> QED BY <1>1, <1>2, <2>1, AppendProperties
  <2>3. \A a \in 1 .. Len(r) : r[a] # x
    BY <1>2 DEF Contains
  <2> HIDE DEF x, t
  <2>4. \A a, b \in 1 .. Len(t) : t[a] = t[b] => a = b
    BY <1>1, <2>2, <2>3
  <2>5. \A j \in 1 .. i : s[j] \in may => Contains(t, s[j])
    BY <1>1, <2>2 DEF Contains
  <2>6. Contains(t, x)
    BY <1>1, <2>2 DEF Contains
  <2>7. \A j \in 1 .. i + 1 : s[j] \in may => Contains(t, s[j])
    <3>1. \A j \in 1 .. i + 1 : j \in 1 .. i \/ j = i + 1
      OBVIOUS
    <3> QED BY <2>5, <2>6, <3>1 DEF x
  <2>8. ASSUME \A j \in 1 .. i + 1 : s[j] = j /\ j \in may
        PROVE  t = [j \in 1 .. i + 1 |-> j]
    <3>1. x = i + 1 /\ \A j \in 1 .. i : s[j] = j /\ j \in may
      BY <2>8 DEF x
    <3>2. r = [j \in 1 .. i |-> j]
      BY <3>1 DEF Sifted
    <3>3. Len(r) = i
      BY <1>1, <3>2
    <3>4. t \in [1 .. i + 1 -> may]
      BY <2>2, <3>3, LenProperties
    <3>5. ASSUME NEW j \in 1 .. i + 1 PROVE t[j] = j
      <4>1. CASE j = i + 1
        BY <2>2, <3>1, <3>3, <4>1
      <4>2. CASE j # i + 1
        BY <2>2, <3>2, <3>3, <4>2
      <4> QED BY <4>1, <4>2
    <3> QED BY <3>4, <3>5
  <2> QED BY <2>2, <2>4, <2>7, <2>8 DEF Sifted, x, t
<1>3. CASE ~(x \in may /\ ~Contains(r, x))
  <2>1. t = r
    BY <1>3 DEF TakenOnce
  <2>2. \A j \in 1 .. i + 1 : s[j] \in may => Contains(r, s[j])
    <3>1. \A j \in 1 .. i + 1 : j \in 1 .. i \/ j = i + 1
      OBVIOUS
    <3> QED BY <1>1, <1>3, <3>1
  <2>3. ~ \A j \in 1 .. i + 1 : s[j] = j /\ j \in may
    <3> SUFFICES ASSUME \A j \in 1 .. i + 1 : s[j] = j /\ j \in may
                 PROVE  FALSE
      OBVIOUS
    <3>1. x = i + 1 /\ x \in may /\ \A j \in 1 .. i : s[j] = j /\ j \in may
      OBVIOUS
    <3>2. r = [j \in 1 .. i |-> j]
      BY <3>1 DEF Sifted
    <3>3. Len(r) = i
      BY <1>1, <3>2
    <3>4. PICK a \in 1 .. i : r[a] = i + 1
      BY <1>3, <3>1, <3>3 DEF Contains
    <3> QED BY <3>2, <3>4
  <2> HIDE DEF x, t
  <2>4. Sifted(r, s, i + 1, may)
    BY <1>1, <2>2, <2>3 DEF Sifted
  <2> QED BY <2>1, <2>4 DEF x, t
<1> QED BY <1>2, <1>3

(* Numbers keeps what it may of a sequence, each once, and the whole of    *)
(* the numbers in their order.                                             *)
LEMMA NumbersKeep ==
    ASSUME NEW s, NEW n \in Nat, DOMAIN s = 1 .. n, NEW may
    PROVE  Sifted(Numbers(s, may), s, n, may)
<1>1. PICK walk : Sifts(walk, s, n, may) /\ Numbers(s, may) = walk[n]
  BY NumbersWalk
<1> DEFINE T == {i \in Nat : i <= n => Sifted(walk[i], s, i, may)}
<1>2. 0 \in T
  <2>1. Sifted(<<>>, s, 0, may)
    <3>1. <<>> = [j \in 1 .. 0 |-> j]
      OBVIOUS
    <3>2. <<>> \in Seq(may) /\ Len(<<>>) = 0 /\ 1 .. 0 = {}
      BY EmptySeq
    <3> QED BY <3>1, <3>2 DEF Sifted
  <2> QED BY <1>1, <2>1 DEF Sifts
<1>3. ASSUME NEW i \in T PROVE i + 1 \in T
  <2>1. i \in Nat /\ (i <= n => Sifted(walk[i], s, i, may))
    OBVIOUS
  <2>2. ASSUME i + 1 <= n
        PROVE  Sifted(walk[i + 1], s, i + 1, may)
    <3>1. i + 1 \in 1 .. n /\ (i + 1) - 1 = i /\ i <= n
      BY <2>1, <2>2
    <3>2. walk[i + 1] = TakenOnce(may, walk[i], s[i + 1])
      BY <1>1, <3>1 DEF Sifts
    <3> HIDE DEF T
    <3> QED BY <2>1, <3>1, <3>2, SiftOne
  <2> QED BY <2>1, <2>2
<1>4. T = Nat
  <2> HIDE DEF T
  <2>1. T \in SUBSET Nat
    BY DEF T
  <2> QED BY <1>2, <1>3, <2>1, NumberByNumber
<1> QED BY <1>1, <1>4

\* an order of some of n
Orders(order, n) ==
    /\ order \in Seq(1 .. n)
    /\ \A a, b \in 1 .. Len(order) : order[a] = order[b] => a = b

(* A parsed reply is an order.                                             *)
LEMMA ParsedOrders ==
    ASSUME NEW reply, NEW m \in Nat, DOMAIN reply = 1 .. m, NEW n
    PROVE  Orders(ParseRerank(reply, n), n)
BY NumbersKeep DEF Sifted, Orders, ParseRerank

(* Reordering permutes the places of the candidates: those the order names *)
(* first.                                                                  *)
LEMMA ReorderPermutes ==
    ASSUME NEW c, Ranks(c), NEW order, Orders(order, Len(c))
    PROVE  LET r == Reordered(c, order)
           IN /\ Ranks(r) /\ Len(r) = Len(c)
              /\ \A i \in 1 .. Len(r) : \E j \in 1 .. Len(c) : r[i] = c[j]
              /\ Len(order) <= Len(r)
              /\ \A i \in 1 .. Len(order) : r[i] = c[order[i]]
              /\ order = <<>> => r = c
<1> DEFINE n == Len(c)
           id == [i \in 1 .. n |-> i]
           may == (1 .. n) \ ToSet(order)
           rest == Numbers(id, may)
           p == order \o rest
           r == Reordered(c, order)
<1>1. /\ c \in Seq(Passages) /\ n \in Nat /\ DOMAIN c = 1 .. n
      /\ \A i \in 1 .. n : c[i] \in Passages
      /\ \A i, j \in 1 .. n : c[i] = c[j] => i = j
  BY LenProperties, ElementOfSeq DEF Ranks
<1>2. /\ order \in Seq(1 .. n) /\ Len(order) \in Nat
      /\ DOMAIN order = 1 .. Len(order)
      /\ \A a \in 1 .. Len(order) : order[a] \in 1 .. n
      /\ \A a, b \in 1 .. Len(order) : order[a] = order[b] => a = b
  BY LenProperties, ElementOfSeq DEF Orders
<1>3. Sifted(rest, id, n, may)
  <2>1. DOMAIN id = 1 .. n
    OBVIOUS
  <2> HIDE DEF id, may
  <2> QED BY <1>1, <2>1, NumbersKeep
<1>4. /\ rest \in Seq(may) /\ Len(rest) \in Nat
      /\ \A a \in 1 .. Len(rest) : rest[a] \in may
      /\ \A a, b \in 1 .. Len(rest) : rest[a] = rest[b] => a = b
      /\ \A j \in may : Contains(rest, j)
  <2>1. \A j \in 1 .. n : id[j] = j
    OBVIOUS
  <2>2. /\ rest \in Seq(may)
        /\ \A a, b \in 1 .. Len(rest) : rest[a] = rest[b] => a = b
    <3> HIDE DEF id, may, rest
    <3> QED BY <1>3 DEF Sifted
  <2>3. \A j \in 1 .. n : j \in may => Contains(rest, j)
    <3> HIDE DEF id, may, rest
    <3> QED BY <1>3, <2>1 DEF Sifted
  <2>4. Len(rest) \in Nat /\ \A a \in 1 .. Len(rest) : rest[a] \in may
    <3> HIDE DEF rest, may
    <3> QED BY <2>2, LenProperties, ElementOfSeq
  <2> QED BY <2>2, <2>3, <2>4
<1>5. /\ may \subseteq 1 .. n
      /\ \A j \in may : \A a \in 1 .. Len(order) : order[a] # j
  BY <1>2 DEF ToSet
<1>6. \A j \in 1 .. n : j \in may \/ \E a \in 1 .. Len(order) : order[a] = j
  BY <1>2 DEF ToSet
<1>7. rest \in Seq(1 .. n)
  <2> HIDE DEF rest, may
  <2> QED BY <1>4, <1>5, SeqMonotonic
<1>8. /\ p \in Seq(1 .. n)
      /\ Len(p) = Len(order) + Len(rest)
      /\ \A i \in 1 .. Len(order) + Len(rest) :
            p[i] = IF i <= Len(order) THEN order[i] ELSE rest[i - Len(order)]
  <2> HIDE DEF rest
  <2> QED BY <1>2, <1>7, ConcatProperties
<1> HIDE DEF rest, may, p, id
<1>9. p \in [1 .. Len(p) -> 1 .. n] /\ Len(p) \in Nat /\ DOMAIN p = 1 .. Len(p)
  BY <1>8, LenProperties
<1>10. ASSUME NEW a \in 1 .. Len(p), NEW b \in 1 .. Len(p), p[a] = p[b]
       PROVE  a = b
  <2>1. CASE a <= Len(order) /\ b <= Len(order)
    BY <1>2, <1>4, <1>8, <1>10, <2>1
  <2>2. CASE ~(a <= Len(order)) /\ ~(b <= Len(order))
    <3>1. /\ a - Len(order) \in 1 .. Len(rest)
          /\ b - Len(order) \in 1 .. Len(rest)
      BY <1>2, <1>4, <1>8, <2>2
    <3>2. rest[a - Len(order)] = rest[b - Len(order)]
      BY <1>8, <1>10, <2>2
    <3>3. a - Len(order) = b - Len(order)
      BY <1>4, <3>1, <3>2
    <3> QED BY <1>2, <3>3
  <2>3. CASE a <= Len(order) /\ ~(b <= Len(order))
    <3>1. b - Len(order) \in 1 .. Len(rest) /\ a \in 1 .. Len(order)
      BY <1>2, <1>4, <1>8, <2>3
    <3>2. rest[b - Len(order)] \in may /\ order[a] = rest[b - Len(order)]
      BY <1>4, <1>8, <1>10, <2>3, <3>1
    <3> QED BY <1>5, <3>1, <3>2
  <2>4. CASE ~(a <= Len(order)) /\ b <= Len(order)
    <3>1. a - Len(order) \in 1 .. Len(rest) /\ b \in 1 .. Len(order)
      BY <1>2, <1>4, <1>8, <2>4
    <3>2. rest[a - Len(order)] \in may /\ order[b] = rest[a - Len(order)]
      BY <1>4, <1>8, <1>10, <2>4, <3>1
    <3> QED BY <1>5, <3>1, <3>2
  <2> QED BY <2>1, <2>2, <2>3, <2>4
<1>11. ASSUME NEW j \in 1 .. n
       PROVE  \E a \in 1 .. Len(p) : p[a] = j
  <2>1. CASE j \in may
    <3>1. PICK a \in 1 .. Len(rest) : rest[a] = j
      BY <1>4, <2>1 DEF Contains
    <3>2. /\ Len(order) + a \in 1 .. Len(p)
          /\ (Len(order) + a) - Len(order) = a
          /\ ~(Len(order) + a <= Len(order))
      BY <1>2, <1>4, <1>8
    <3>3. p[Len(order) + a] = rest[a]
      BY <1>8, <3>2
    <3> QED BY <3>1, <3>2, <3>3
  <2>2. CASE j \notin may
    <3>1. PICK a \in 1 .. Len(order) : order[a] = j
      BY <1>6, <2>2
    <3>2. a \in 1 .. Len(p) /\ p[a] = order[a]
      BY <1>2, <1>4, <1>8
    <3> QED BY <3>1, <3>2
  <2> QED BY <2>1, <2>2
<1>12. Len(p) = n
  <2>1. p \in Injection(1 .. Len(p), 1 .. n)
    BY <1>9, <1>10 DEF Injection, IsInjective
  <2>2. p \in Surjection(1 .. Len(p), 1 .. n)
    BY <1>9, <1>11 DEF Surjection
  <2> HIDE DEF n
  <2>3. \A m \in Nat : IsFiniteSet(1 .. m) /\ Cardinality(1 .. m) = m
    BY FS_Interval
  <2> QED BY <1>1, <1>9, <2>1, <2>2, <2>3, FS_Injection
<1>13. r = [i \in 1 .. n |-> c[p[i]]]
  BY <1>9, <1>12 DEF Reordered, p, rest, may, id
<1>14. \A i \in 1 .. n : p[i] \in 1 .. n /\ r[i] = c[p[i]]
  <2> HIDE DEF n, r
  <2> QED BY <1>9, <1>12, <1>13
<1>15. r \in Seq(Passages) /\ Len(r) = n
  <2>1. r \in [1 .. n -> Passages]
    <3> HIDE DEF n, r
    <3> QED BY <1>1, <1>13, <1>14
  <2> HIDE DEF n, r
  <2>2. r \in Seq(Passages)
    BY <1>1, <2>1, SeqDef
  <2> QED BY <1>1, <2>1, <2>2, LenProperties
<1> HIDE DEF n, r
<1>16. Ranks(r)
  <2>1. ASSUME NEW i \in 1 .. n, NEW j \in 1 .. n, r[i] = r[j]
        PROVE  i = j
    <3>1. c[p[i]] = c[p[j]] /\ p[i] \in 1 .. n /\ p[j] \in 1 .. n
      BY <1>14, <2>1
    <3>2. p[i] = p[j]
      BY <1>1, <3>1
    <3> QED BY <1>10, <1>12, <3>2
  <2> QED BY <1>15, <2>1 DEF Ranks
<1>17. Len(order) <= n /\ \A i \in 1 .. Len(order) : r[i] = c[order[i]]
  <2>1. Len(order) <= n
    BY <1>2, <1>4, <1>8, <1>12
  <2>2. \A i \in 1 .. Len(order) : i \in 1 .. n /\ p[i] = order[i]
    BY <1>1, <1>2, <1>4, <1>8, <2>1
  <2> QED BY <1>14, <2>1, <2>2
<1>18. ASSUME order = <<>> PROVE r = c
  <2>1. Len(order) = 0 /\ may = 1 .. n
    <3>1. Len(order) = 0 /\ DOMAIN order = {}
      BY <1>18
    <3> QED BY <3>1 DEF may, ToSet
  <2>2. \A j \in 1 .. n : id[j] = j /\ j \in may
    BY <2>1 DEF id
  <2>3. rest = [j \in 1 .. n |-> j]
    BY <1>3, <2>2 DEF Sifted
  <2>4. \A i \in 1 .. n : p[i] = rest[i]
    <3>1. \A i \in 1 .. n : ~(i <= 0) /\ i - 0 = i
      BY <1>1
    <3> QED BY <1>8, <1>12, <2>1, <3>1
  <2>5. \A i \in 1 .. n : r[i] = c[i]
    BY <1>14, <2>3, <2>4
  <2> QED BY <1>1, <1>15, <2>5, SeqEqual DEF n
<1>19. \A i \in 1 .. Len(r) : \E j \in 1 .. n : r[i] = c[j]
  BY <1>14, <1>15
<1> QED BY <1>15, <1>16, <1>17, <1>18, <1>19 DEF n, r

(* What a search that was reordered and cut answers with.                  *)
Cut(c, order, results) ==
    LET got == ToSet(results)
        had == ToSet(c)
        named == {c[i] : i \in ToSet(order)}
    IN /\ Cardinality(got) = Len(results)
       /\ got \subseteq had
       /\ Len(results) = Len(Upto(c, TopN))
       /\ named \subseteq got \/ got \subseteq named
       /\ order = <<>> => IsPrefix(results, c)

(* A ranking has as many passages as places.                               *)
LEMMA SizeOfRanking ==
    ASSUME NEW s, Ranks(s)
    PROVE  Cardinality(ToSet(s)) = Len(s)
<1>1. /\ s \in [1 .. Len(s) -> Passages] /\ Len(s) \in Nat
      /\ DOMAIN s = 1 .. Len(s)
      /\ \A i, j \in 1 .. Len(s) : s[i] = s[j] => i = j
  BY LenProperties DEF Ranks
<1>2. s \in [1 .. Len(s) -> ToSet(s)]
  BY <1>1 DEF ToSet
<1>3. s \in Surjection(1 .. Len(s), ToSet(s))
  BY <1>1, <1>2 DEF Surjection, ToSet
<1>4. s \in Injection(1 .. Len(s), ToSet(s))
  BY <1>1, <1>2 DEF Injection, IsInjective
<1>5. IsFiniteSet(1 .. Len(s)) /\ Cardinality(1 .. Len(s)) = Len(s)
  <2>1. \A m \in Nat : IsFiniteSet(1 .. m) /\ Cardinality(1 .. m) = m
    BY FS_Interval
  <2> QED BY <1>1, <2>1
<1> QED BY <1>3, <1>4, <1>5, FS_Surjection

(* How much a limit leaves.                                                *)
LEMMA LengthAfterLimit ==
    ASSUME NEW s, Ranks(s), NEW n \in Nat
    PROVE  Len(Upto(s, n)) = IF Len(s) < n THEN Len(s) ELSE n
<1> DEFINE m == IF Len(s) < n THEN Len(s) ELSE n
<1>1. m \in Nat /\ m <= Len(s) /\ s \in Seq(Passages)
  BY LenProperties DEF Ranks
<1>2. Len(SubSeq(s, 1, m)) = m
  <2>1. \A i \in 1 .. m : s[i] \in Passages
    BY <1>1, ElementOfSeq
  <2> HIDE DEF m
  <2> QED BY <1>1, <2>1, SubSeqProperties
<1> QED BY <1>2 DEF Upto

(* A reordered and cut answer loses nothing it should not.                 *)
LEMMA ReorderedIsCut ==
    ASSUME NEW c, Ranks(c), NEW order, Orders(order, Len(c))
    PROVE  Cut(c, order, Upto(Reordered(c, order), TopN))
<1> DEFINE r == Reordered(c, order)
           results == Upto(r, TopN)
           got == ToSet(results)
           had == ToSet(c)
           named == {c[i] : i \in ToSet(order)}
<1>1. TopN \in Nat
  BY SearchAssumption
<1>2. /\ Ranks(r) /\ Len(r) = Len(c)
      /\ \A i \in 1 .. Len(r) : \E j \in 1 .. Len(c) : r[i] = c[j]
      /\ Len(order) <= Len(r)
      /\ \A i \in 1 .. Len(order) : r[i] = c[order[i]]
      /\ order = <<>> => r = c
  BY ReorderPermutes
<1> HIDE DEF r
<1>3. /\ Ranks(results) /\ Len(results) <= Len(r)
      /\ \A i \in 1 .. Len(results) : results[i] = r[i]
  <2>1. Ranks(results) /\ Len(results) <= Len(r)
    BY <1>1, <1>2, LimitsRank
  <2>2. \A i \in 1 .. Len(results) : results[i] = r[i]
    BY <1>1, <1>2, LimitsRank
  <2> QED BY <2>1, <2>2
<1>4. /\ Len(results) = IF Len(r) < TopN THEN Len(r) ELSE TopN
      /\ Len(Upto(c, TopN)) = IF Len(c) < TopN THEN Len(c) ELSE TopN
  <2>1. Len(results) = IF Len(r) < TopN THEN Len(r) ELSE TopN
    BY <1>1, <1>2, LengthAfterLimit
  <2>2. Len(Upto(c, TopN)) = IF Len(c) < TopN THEN Len(c) ELSE TopN
    BY <1>1, LengthAfterLimit
  <2> QED BY <2>1, <2>2
<1> HIDE DEF results
<1>5. /\ Len(results) \in Nat /\ DOMAIN results = 1 .. Len(results)
      /\ Len(c) \in Nat /\ DOMAIN c = 1 .. Len(c)
      /\ Len(order) \in Nat /\ DOMAIN order = 1 .. Len(order)
  BY <1>3, LenProperties DEF Ranks, Orders
<1>6. Cardinality(got) = Len(results)
  BY <1>3, SizeOfRanking
<1>7. got \subseteq had
  <2>1. ASSUME NEW i \in 1 .. Len(results)
        PROVE  results[i] \in ToSet(c)
    <3>1. results[i] = r[i] /\ i \in 1 .. Len(r)
      BY <1>2, <1>3, <1>5
    <3>2. PICK j \in 1 .. Len(c) : r[i] = c[j]
      BY <1>2, <3>1
    <3> QED BY <1>5, <3>1, <3>2 DEF ToSet
  <2>2. \A x \in got : \E i \in 1 .. Len(results) : x = results[i]
    BY <1>5 DEF ToSet
  <2> QED BY <2>1, <2>2
<1>8. Len(results) = Len(Upto(c, TopN))
  BY <1>2, <1>4
<1>9. CASE Len(order) <= Len(results)
  <2>1. named \subseteq got
    <3>1. ASSUME NEW i \in 1 .. Len(order)
          PROVE  c[order[i]] \in ToSet(results)
      <4>1. i \in 1 .. Len(results) /\ r[i] = c[order[i]]
        BY <1>2, <1>5, <1>9
      <4>2. results[i] = c[order[i]]
        BY <1>3, <4>1
      <4> QED BY <1>5, <4>1, <4>2 DEF ToSet
    <3>2. \A k \in ToSet(order) : \E i \in 1 .. Len(order) : k = order[i]
      BY <1>5 DEF ToSet
    <3> QED BY <3>1, <3>2
  <2>2. order = <<>> => IsPrefix(results, c)
    <3> SUFFICES ASSUME order = <<>> PROVE IsPrefix(results, c)
      OBVIOUS
    <3>1. r = c
      BY <1>2
    <3>2. results = Upto(c, TopN) /\ Len(results) <= Len(c)
      BY <1>3, <3>1 DEF results
    <3>3. \A i \in 1 .. Len(results) : results[i] = c[i]
      BY <1>3, <3>1
    <3>4. results \in Seq(Passages) /\ c \in Seq(Passages)
      BY <1>3 DEF Ranks
    <3>5. SubSeq(results, 1, Len(results)) = results
      BY <3>4, SubSeqFull
    <3>6. /\ SubSeq(c, 1, Len(results)) \in Seq(Passages)
          /\ Len(SubSeq(c, 1, Len(results))) = Len(results)
          /\ \A i \in 1 .. Len(results) :
                SubSeq(c, 1, Len(results))[i] = c[i]
      <4>1. \A i \in 1 .. Len(results) : c[i] \in Passages
        BY <1>5, <3>2, <3>4, ElementOfSeq
      <4> DEFINE m == Len(results)
      <4>2. m \in Int /\ m \in Nat
        BY <1>5
      <4> HIDE DEF m
      <4>3. /\ SubSeq(c, 1, m) \in Seq(Passages)
            /\ Len(SubSeq(c, 1, m)) = m
            /\ \A i \in 1 .. m : SubSeq(c, 1, m)[i] = c[i]
        <5>1. \A i \in 1 .. m : c[i] \in Passages
          BY <4>1 DEF m
        <5> QED BY <4>2, <5>1, SubSeqProperties
      <4> QED BY <4>3 DEF m
    <3>7. SubSeq(c, 1, Len(results)) = results
      BY <3>3, <3>4, <3>6, SeqEqual
    <3> QED BY <3>2, <3>5, <3>7 DEF IsPrefix
  <2> HIDE DEF got, had, named
  <2> QED BY <1>6, <1>7, <1>8, <2>1, <2>2
          DEF Cut, results, r, got, had, named
<1>10. CASE ~(Len(order) <= Len(results))
  <2>1. ASSUME NEW i \in 1 .. Len(results)
        PROVE  results[i] \in named
    <3>1. i \in 1 .. Len(order) /\ i \in DOMAIN order
      BY <1>5, <1>10
    <3>2. results[i] = c[order[i]] /\ order[i] \in ToSet(order)
      BY <1>2, <1>3, <3>1 DEF ToSet
    <3> QED BY <3>2
  <2>2. got \subseteq named
    <3> HIDE DEF named
    <3> QED BY <1>5, <2>1 DEF ToSet
  <2>3. order # <<>>
    <3> SUFFICES ASSUME order = <<>> PROVE FALSE
      OBVIOUS
    <3>1. Len(order) = 0
      OBVIOUS
    <3> QED BY <1>5, <1>10, <3>1
  <2> HIDE DEF got, had, named
  <2> QED BY <1>6, <1>7, <1>8, <2>2, <2>3
          DEF Cut, results, r, got, had, named
<1> QED BY <1>9, <1>10

(***************************************************************************)
(* What a search has told so far, and what it holds                        *)
(***************************************************************************)
Silent == {"idle", "hybrid", "dense", "rerank", "rerank_direct", "failed"}
Empty == {"idle", "hybrid", "dense", "failed"}

FlagsOK ==
    /\ {find.note, find.local, find.refused, find.direct} \subseteq BOOLEAN
    /\ setup.agent_url \in BOOLEAN
    /\ ~(find.refused /\ find.direct)
    /\ find.step \in Silent => ~find.refused /\ ~find.direct
    /\ find.caller = "mcp" /\ find.step \in Silent \cup {"found"} =>
          setup.agent_url
    /\ find.step \in Silent \cup {"found"} => ~find.note /\ ~find.local
    /\ find.step = "local" =>
          ~find.local /\ (find.note <=> setup.agent_url)
    /\ find.step = "answered" =>
          (find.note <=> setup.agent_url /\ find.local)

Blank(f) == f.candidates = <<>> /\ f.order = <<>> /\ f.results = <<>>

RankingSettled(f) ==
    \/ Blank(f)
    \/ /\ Orders(f.order, Len(f.candidates))
       /\ f.results = Upto(Reordered(f.candidates, f.order), TopN)

ListsOK ==
    /\ Ranks(find.candidates)
    /\ find.step \in Empty => Blank(find)
    /\ find.step = "found" => RankingSettled(find)
    /\ find.step = "answered" /\ ~find.local => RankingSettled(find)

OpenInv == /\ DOMAIN find = DOMAIN NoFind
           /\ find.step \in FindSteps
           /\ FlagsOK
           /\ ListsOK

(* Nothing found is a right answer to nothing.                             *)
LEMMA BlankIsCut == Cut(<<>>, <<>>, <<>>)
<1>1. Len(<<>>) = 0 /\ ToSet(<<>>) = {} /\ TopN \in Nat
  BY SearchAssumption DEF ToSet
<1>2. Cardinality({}) = 0
  BY FS_EmptySet
<1>3. Ranks(<<>>)
  BY <1>1 DEF Ranks
<1>4. Len(Upto(<<>>, TopN)) = 0
  BY <1>1, <1>3, LengthAfterLimit
<1>5. IsPrefix(<<>>, <<>>)
  BY DEF IsPrefix
<1> QED BY <1>1, <1>2, <1>4, <1>5 DEF Cut

(* The invariant says what was promised.                                   *)
LEMMA OpenMeansDegradesOpenly == OpenInv => SearchDegradesOpenly
<1> SUFFICES ASSUME OpenInv, find.step = "answered"
             PROVE  /\ find.refused => ~find.direct
                    /\ find.caller = "mcp" =>
                          (find.note <=> setup.agent_url /\ find.local)
                    /\ ~find.local =>
                          Cut(find.candidates, find.order, find.results)
  BY Zenon DEF SearchDegradesOpenly, Cut
<1>1. find.refused => ~find.direct
  BY DEF OpenInv, FlagsOK
<1>2. find.note <=> setup.agent_url /\ find.local
  BY DEF OpenInv, FlagsOK
<1>3. ASSUME ~find.local
      PROVE  Cut(find.candidates, find.order, find.results)
  <2>1. Ranks(find.candidates) /\ RankingSettled(find)
    BY <1>3 DEF OpenInv, ListsOK
  <2>2. CASE Blank(find)
    BY <2>2, BlankIsCut DEF Blank
  <2>3. CASE ~Blank(find)
    BY <2>1, <2>3, ReorderedIsCut DEF RankingSettled
  <2> QED BY <2>2, <2>3
<1> QED BY <1>1, <1>2, <1>3

(* So does every reply the model may give.                                 *)
LEMMA RepliesOrder ==
    ASSUME NEW reply \in Rerankings, NEW n
    PROVE  Orders(ParseRerank(reply, n), n)
<1>1. \E m \in Nat : DOMAIN reply = 1 .. m
  BY DEF Rerankings, BoundedSeq, SeqOf
<1> QED BY <1>1, ParsedOrders

(* No order is one too.                                                    *)
LEMMA NoOrder ==
    ASSUME NEW n
    PROVE  Orders(<<>>, n)
BY EmptySeq DEF Orders

\* the reranker's step ends the tool: with an order, or with the fused one
LEMMA RankingSettles ==
    ASSUME OpenInv, find.step \in {"rerank", "rerank_direct"},
           NEW order, Orders(order, Len(find.candidates)),
           \/ Reaches("found", Ranked(find.candidates, order))
           \/ Reaches("found", [Ranked(find.candidates, order)
                                   EXCEPT !.refused = TRUE])
           \/ Reaches("found", [Ranked(find.candidates, order)
                                   EXCEPT !.direct = TRUE])
    PROVE  OpenInv'
<1> DEFINE ranked == Ranked(find.candidates, order)
<1>1. /\ DOMAIN find = DOMAIN NoFind /\ FlagsOK
      /\ Ranks(find.candidates)
  BY DEF OpenInv, ListsOK
<1>2. DOMAIN NoFind = {"step", "caller", "dense", "sparse", "candidates",
                       "order", "results", "note", "local", "refused",
                       "direct"}
  BY DEF NoFind
<1>3. /\ DOMAIN ranked = DOMAIN NoFind
      /\ ranked.candidates = find.candidates
      /\ ranked.order = order
      /\ ranked.results = Upto(Reordered(find.candidates, order), TopN)
      /\ ranked.caller = find.caller
      /\ ranked.note = find.note
      /\ ranked.local = find.local
      /\ ranked.refused = find.refused
      /\ ranked.direct = find.direct
  BY <1>1, RankedIs
<1>4. \/ find' = [ranked EXCEPT !.step = "found"]
      \/ find' = [[ranked EXCEPT !.refused = TRUE] EXCEPT !.step = "found"]
      \/ find' = [[ranked EXCEPT !.direct = TRUE] EXCEPT !.step = "found"]
  BY Zenon DEF Reaches
<1>5. setup' = setup
  BY DEF Reaches
<1> HIDE DEF ranked
<1>6. /\ DOMAIN find' = DOMAIN NoFind /\ find'.step = "found"
      /\ find'.candidates = find.candidates
      /\ find'.order = order
      /\ find'.results = Upto(Reordered(find.candidates, order), TopN)
      /\ find'.caller = find.caller
      /\ find'.note = find.note
      /\ find'.local = find.local
  BY <1>2, <1>3, <1>4
<1>7. \/ find'.refused = find.refused /\ find'.direct = find.direct
      \/ find'.refused = TRUE /\ find'.direct = find.direct
      \/ find'.refused = find.refused /\ find'.direct = TRUE
  BY <1>2, <1>3, <1>4
<1>8. /\ find.refused = FALSE /\ find.direct = FALSE
      /\ find.note = FALSE /\ find.local = FALSE
      /\ find.caller = "mcp" => setup.agent_url
      /\ setup.agent_url \in BOOLEAN
  BY <1>1 DEF FlagsOK, Silent
<1>9. FlagsOK'
  BY <1>5, <1>6, <1>7, <1>8 DEF FlagsOK, Silent
<1>10. Ranks(find'.candidates) /\ RankingSettled(find')
  BY <1>1, <1>6 DEF RankingSettled
<1>11. ListsOK'
  BY <1>6, <1>10 DEF ListsOK, Empty
<1> QED BY <1>6, <1>9, <1>11 DEF OpenInv, FindSteps, NoFind

\* steps that keep the lists, or forget them, or end in the local corpus
LEMMA ListsKept ==
    ASSUME OpenInv,
           \/ /\ find'.candidates = find.candidates
              /\ find'.order = find.order /\ find'.results = find.results
              /\ find'.step \in Empty => find.step \in Empty
              /\ find'.step \in {"found", "answered"} =>
                    find.step \in Empty \cup {"found"}
           \/ Blank(find')
           \/ /\ find'.step = "answered" /\ find'.local
              /\ find'.candidates = find.candidates
    PROVE  ListsOK'
<1>1. ListsOK
  BY DEF OpenInv
<1>2. Ranks(<<>>)
  BY EmptySeq DEF Ranks
<1>3. CASE /\ find'.candidates = find.candidates
           /\ find'.order = find.order /\ find'.results = find.results
           /\ find'.step \in Empty => find.step \in Empty
           /\ find'.step \in {"found", "answered"} =>
                 find.step \in Empty \cup {"found"}
  <2>1. Blank(find) => Blank(find')
    BY <1>3 DEF Blank
  <2>2. RankingSettled(find) => RankingSettled(find')
    BY <1>3, <2>1 DEF RankingSettled
  <2>3. find.step \in Empty \cup {"found"} => RankingSettled(find)
    BY <1>1 DEF ListsOK, RankingSettled
  <2>4. Ranks(find'.candidates)
    BY <1>1, <1>3 DEF ListsOK
  <2>5. find'.step \in Empty => Blank(find')
    BY <1>1, <1>3, <2>1 DEF ListsOK
  <2>6. find'.step \in {"found", "answered"} => RankingSettled(find')
    BY <1>3, <2>2, <2>3
  <2> QED BY <2>4, <2>5, <2>6 DEF ListsOK, Empty
<1>4. CASE Blank(find')
  BY <1>2, <1>4 DEF Blank, ListsOK, RankingSettled, Empty
<1>5. CASE /\ find'.step = "answered" /\ find'.local
           /\ find'.candidates = find.candidates
  <2>1. Ranks(find'.candidates)
    BY <1>1, <1>5 DEF ListsOK
  <2> QED BY <1>5, <2>1 DEF ListsOK, Empty
<1> QED BY <1>3, <1>4, <1>5

(* Every step keeps it.                                                    *)
LEMMA OpenStep ==
    ASSUME OpenInv, [SearchNext]_searchVars
    PROVE  OpenInv'
<1>1. /\ DOMAIN find = DOMAIN NoFind /\ find.step \in FindSteps
      /\ FlagsOK /\ ListsOK
  BY DEF OpenInv
<1>2. /\ DOMAIN NoFind = {"step", "caller", "dense", "sparse", "candidates",
                          "order", "results", "note", "local", "refused",
                          "direct"}
      /\ NoFind.step = "idle" /\ NoFind.caller = "agent"
      /\ NoFind.candidates = <<>> /\ NoFind.order = <<>>
      /\ NoFind.results = <<>>
      /\ NoFind.note = FALSE /\ NoFind.local = FALSE
      /\ NoFind.refused = FALSE /\ NoFind.direct = FALSE
      /\ NoFind' = NoFind
  BY DEF NoFind
<1> DEFINE Shape == DOMAIN find' = DOMAIN NoFind' /\ find'.step \in FindSteps
<1> USE DEF Reaches
<1>3. CASE Question
  <2>1. \/ find.step = "idle" /\ AskTool("agent")
        \/ setup.agent_url /\ AskTool("mcp")
    BY <1>3, Zenon DEF Question
  <2>2. PICK caller \in {"agent", "mcp"} :
           /\ AskTool(caller)
           /\ caller = "mcp" => setup.agent_url
    BY <2>1, Zenon
  <2> DEFINE step == IF setup.kb THEN "hybrid" ELSE "failed"
  <2>3. step \in {"hybrid", "failed"}
    OBVIOUS
  <2>4. find' = [[NoFind EXCEPT !.caller = caller] EXCEPT !.step = step]
        /\ setup' = setup
    BY <2>2 DEF AskTool
  <2> HIDE DEF step, Reaches
  <2>5. /\ Shape /\ find'.step \in {"hybrid", "failed"}
        /\ find'.caller = caller
        /\ find'.note = FALSE /\ find'.local = FALSE
        /\ find'.refused = FALSE /\ find'.direct = FALSE
        /\ Blank(find')
    BY <1>2, <2>3, <2>4 DEF Blank, FindSteps
  <2>6. FlagsOK'
    BY <1>1, <2>2, <2>4, <2>5 DEF FlagsOK, Silent
  <2>7. ListsOK'
    BY <2>5, ListsKept
  <2> QED BY <2>5, <2>6, <2>7 DEF OpenInv
<1>4. CASE AskLocal
  <2>1. /\ Shape /\ find'.step = "local" /\ setup' = setup
        /\ find'.note = FALSE /\ find'.local = FALSE
        /\ find'.refused = FALSE /\ find'.direct = FALSE
        /\ Blank(find') /\ ~setup.agent_url
    BY <1>2, <1>4 DEF AskLocal, Blank, FindSteps
  <2>2. FlagsOK'
    BY <1>1, <2>1 DEF FlagsOK, Silent
  <2>3. ListsOK'
    BY <2>1, ListsKept
  <2> QED BY <2>1, <2>2, <2>3 DEF OpenInv
<1>5. CASE Unreachable
  <2>1. /\ Shape /\ find'.step = "local" /\ setup' = setup
        /\ find'.note = TRUE /\ find'.local = FALSE
        /\ find'.refused = find.refused /\ find'.direct = find.direct
        /\ Blank(find') /\ setup.agent_url
    BY <1>2, <1>5 DEF Unreachable, Blank, FindSteps
  <2>2. FlagsOK'
    BY <1>1, <2>1 DEF FlagsOK, Silent
  <2>3. ListsOK'
    BY <2>1, ListsKept
  <2> QED BY <2>1, <2>2, <2>3 DEF OpenInv
<1>6. CASE Hybrid
  <2>1. PICK s \in Rankings, r \in Rankings :
           \E candidates \in Fusions(Upto(s, KEach), Upto(r, KEach)) :
              Reaches(IF candidates = <<>> THEN "found" ELSE "rerank",
                      [find EXCEPT !.dense = Upto(s, KEach),
                                   !.sparse = Upto(r, KEach),
                                   !.candidates = candidates])
    BY <1>6 DEF Hybrid
  <2> DEFINE dense == Upto(s, KEach)
             sparse == Upto(r, KEach)
  <2>2. Ranks(dense) /\ Ranks(sparse) /\ Len(dense) <= 61 /\ Len(sparse) <= 61
    BY ArmsRank
  <2>3. PICK candidates \in Fusions(dense, sparse) :
           Reaches(IF candidates = <<>> THEN "found" ELSE "rerank",
                   [find EXCEPT !.dense = dense, !.sparse = sparse,
                                !.candidates = candidates])
    BY <2>1
  <2> HIDE DEF dense, sparse
  <2>4. Ranks(candidates)
    BY <2>2, FusionLeads
  <2>5. /\ Shape /\ setup' = setup
        /\ find'.candidates = candidates
        /\ find'.order = find.order /\ find'.results = find.results
        /\ find'.step = IF candidates = <<>> THEN "found" ELSE "rerank"
        /\ find'.caller = find.caller
        /\ find'.note = find.note /\ find'.local = find.local
        /\ find'.refused = find.refused /\ find'.direct = find.direct
    BY <1>1, <1>2, <2>3 DEF FindSteps
  <2>6. find.step = "hybrid" /\ Blank(find)
    BY <1>1, <1>6 DEF Hybrid, ListsOK, Empty
  <2>7. FlagsOK'
    BY <1>1, <2>5, <2>6 DEF FlagsOK, Silent
  <2>8. candidates = <<>> => Blank(find')
    BY <2>5, <2>6 DEF Blank
  <2>9. ListsOK'
    <3>1. find'.step = "found" => RankingSettled(find')
      BY <2>5, <2>8 DEF RankingSettled
    <3> QED BY <2>4, <2>5, <3>1 DEF ListsOK, Empty
  <2> QED BY <2>5, <2>7, <2>9 DEF OpenInv
<1>7. CASE HybridFails
  <2>1. /\ Shape /\ find.step = "hybrid" /\ find'.step = "dense"
        /\ setup' = setup
        /\ find'.candidates = find.candidates
        /\ find'.order = find.order /\ find'.results = find.results
        /\ find'.caller = find.caller
        /\ find'.note = find.note /\ find'.local = find.local
        /\ find'.refused = find.refused /\ find'.direct = find.direct
    BY <1>1, <1>2, <1>7 DEF HybridFails, FindSteps
  <2>2. FlagsOK'
    BY <1>1, <2>1 DEF FlagsOK, Silent
  <2>3. ListsOK'
    BY <2>1, ListsKept DEF Empty
  <2> QED BY <2>1, <2>2, <2>3 DEF OpenInv
<1>8. CASE Dense
  <2>1. PICK s \in Rankings :
           Reaches(IF Upto(s, TopN) = <<>> THEN "found" ELSE "rerank",
                   [find EXCEPT !.dense = Upto(s, TopN),
                                !.candidates = Upto(s, TopN)])
    BY <1>8 DEF Dense
  <2> DEFINE candidates == Upto(s, TopN)
  <2>2. Ranks(candidates)
    BY SearchAssumption, RankingsRank
  <2> HIDE DEF candidates
  <2>3. Reaches(IF candidates = <<>> THEN "found" ELSE "rerank",
                [find EXCEPT !.dense = candidates,
                             !.candidates = candidates])
    BY <2>1 DEF candidates
  <2>5. /\ Shape /\ setup' = setup
        /\ find'.candidates = candidates
        /\ find'.order = find.order /\ find'.results = find.results
        /\ find'.step = IF candidates = <<>> THEN "found" ELSE "rerank"
        /\ find'.caller = find.caller
        /\ find'.note = find.note /\ find'.local = find.local
        /\ find'.refused = find.refused /\ find'.direct = find.direct
    BY <1>1, <1>2, <2>3 DEF FindSteps
  <2>6. find.step = "dense" /\ Blank(find)
    BY <1>1, <1>8 DEF Dense, ListsOK, Empty
  <2>7. FlagsOK'
    BY <1>1, <2>5, <2>6 DEF FlagsOK, Silent
  <2>8. candidates = <<>> => Blank(find')
    BY <2>5, <2>6 DEF Blank
  <2>9. ListsOK'
    <3>1. find'.step = "found" => RankingSettled(find')
      BY <2>5, <2>8 DEF RankingSettled
    <3> QED BY <2>2, <2>5, <3>1 DEF ListsOK, Empty
  <2> QED BY <2>5, <2>7, <2>9 DEF OpenInv
<1>9. CASE DenseFails
  <2>1. /\ Shape /\ find.step = "dense" /\ find'.step = "failed"
        /\ setup' = setup
        /\ find'.candidates = find.candidates
        /\ find'.order = find.order /\ find'.results = find.results
        /\ find'.caller = find.caller
        /\ find'.note = find.note /\ find'.local = find.local
        /\ find'.refused = find.refused /\ find'.direct = find.direct
    BY <1>1, <1>2, <1>9 DEF DenseFails, FindSteps
  <2>2. FlagsOK'
    BY <1>1, <2>1 DEF FlagsOK, Silent
  <2>3. ListsOK'
    BY <2>1, ListsKept DEF Empty
  <2> QED BY <2>1, <2>2, <2>3 DEF OpenInv
<1> HIDE DEF Reaches
<1>10. CASE RerankSkipped
  BY <1>10, NoOrder, RankingSettles DEF RerankSkipped, Kept
<1>11. CASE RerankGoverned
  <2>1. find.step = "rerank"
    BY <1>11 DEF RerankGoverned, AtRerank
  <2>2. \/ \E reply \in Rerankings : Reads(reply)
        \/ Reaches("found", Kept)
        \/ Reaches("rerank_direct", find)
    BY <1>11, Zenon DEF RerankGoverned
  <2>3. CASE \E reply \in Rerankings : Reads(reply)
    <3>1. PICK reply \in Rerankings : Reads(reply)
      BY <2>3
    <3> DEFINE order == ParseRerank(reply, Len(find.candidates))
    <3>2. Orders(order, Len(find.candidates))
      BY RepliesOrder
    <3>3. Reaches("found", Ranked(find.candidates, order))
      BY <3>1, Zenon DEF Reads
    <3> HIDE DEF order
    <3> QED BY <2>1, <3>2, <3>3, RankingSettles
  <2>4. CASE Reaches("found", Kept)
    BY <2>1, <2>4, NoOrder, RankingSettles DEF Kept
  <2>5. CASE Reaches("rerank_direct", find)
    <3>1. /\ Shape /\ find'.step = "rerank_direct"
          /\ setup' = setup
          /\ find'.candidates = find.candidates
          /\ find'.order = find.order /\ find'.results = find.results
          /\ find'.caller = find.caller
          /\ find'.note = find.note /\ find'.local = find.local
          /\ find'.refused = find.refused /\ find'.direct = find.direct
      BY <1>1, <1>2, <2>5 DEF FindSteps, Reaches
    <3>2. FlagsOK'
      BY <1>1, <2>1, <3>1 DEF FlagsOK, Silent
    <3>3. ListsOK'
      BY <3>1, ListsKept DEF Empty
    <3> QED BY <3>1, <3>2, <3>3 DEF OpenInv
  <2> QED BY <2>2, <2>3, <2>4, <2>5
<1>12. CASE RerankRefused
  BY <1>12, NoOrder, RankingSettles DEF RerankRefused, AtRerank, Kept
<1>13. CASE RerankDirect
  <2>1. find.step = "rerank_direct"
    BY <1>13 DEF RerankDirect
  <2>2. \/ \E reply \in Rerankings :
              LET order == ParseRerank(reply, Len(find.candidates))
              IN Reaches("found", [Ranked(find.candidates, order)
                                      EXCEPT !.direct = TRUE])
        \/ Reaches("found", [Kept EXCEPT !.direct = TRUE])
    BY <1>13, Zenon DEF RerankDirect
  <2>3. CASE Reaches("found", [Kept EXCEPT !.direct = TRUE])
    BY <2>1, <2>3, NoOrder, RankingSettles DEF Kept
  <2>4. CASE ~Reaches("found", [Kept EXCEPT !.direct = TRUE])
    <3>1. PICK reply \in Rerankings :
             LET order == ParseRerank(reply, Len(find.candidates))
             IN Reaches("found", [Ranked(find.candidates, order)
                                     EXCEPT !.direct = TRUE])
      BY <2>2, <2>4, Zenon
    <3> DEFINE order == ParseRerank(reply, Len(find.candidates))
    <3>2. Orders(order, Len(find.candidates))
      BY RepliesOrder
    <3>3. Reaches("found", [Ranked(find.candidates, order)
                               EXCEPT !.direct = TRUE])
      BY <3>1, Zenon
    <3> HIDE DEF order
    <3> QED BY <2>1, <3>2, <3>3, RankingSettles
  <2> QED BY <2>3, <2>4
<1> USE DEF Reaches
<1>14. CASE Failed
  <2>1. find.step = "failed" /\ Blank(find) /\ setup' = setup
    BY <1>1, <1>14 DEF Failed, ListsOK, Empty
  <2>2. CASE find.caller = "mcp"
    <3>1. /\ Shape /\ find'.step = "local"
          /\ find'.candidates = find.candidates
          /\ find'.order = find.order /\ find'.results = find.results
          /\ find'.note = TRUE /\ find'.local = find.local
          /\ find'.refused = find.refused /\ find'.direct = find.direct
      BY <1>1, <1>2, <1>14, <2>2 DEF Failed, FindSteps
    <3>2. FlagsOK'
      BY <1>1, <2>1, <2>2, <3>1 DEF FlagsOK, Silent
    <3>3. ListsOK'
      BY <3>1, ListsKept DEF Empty
    <3> QED BY <3>1, <3>2, <3>3 DEF OpenInv
  <2>3. CASE find.caller # "mcp"
    <3>1. /\ Shape /\ find'.step = "answered"
          /\ find'.candidates = find.candidates
          /\ find'.order = find.order /\ find'.results = find.results
          /\ find'.note = find.note /\ find'.local = find.local
          /\ find'.refused = find.refused /\ find'.direct = find.direct
      BY <1>1, <1>2, <1>14, <2>3 DEF Failed, FindSteps
    <3>2. FlagsOK'
      BY <1>1, <2>1, <3>1 DEF FlagsOK, Silent
    <3>3. ListsOK'
      BY <2>1, <3>1, ListsKept DEF Empty
    <3> QED BY <3>1, <3>2, <3>3 DEF OpenInv
  <2> QED BY <2>2, <2>3
<1>15. CASE LocalKbSearch
  <2>1. /\ Shape /\ find.step = "local" /\ find'.step = "answered"
        /\ setup' = setup
        /\ find'.candidates = find.candidates
        /\ find'.note = find.note /\ find'.local = TRUE
        /\ find'.refused = find.refused /\ find'.direct = find.direct
    BY <1>1, <1>2, <1>15 DEF LocalKbSearch, FindSteps
  <2>2. FlagsOK'
    BY <1>1, <2>1 DEF FlagsOK, Silent
  <2>3. ListsOK'
    BY <2>1, ListsKept
  <2> QED BY <2>1, <2>2, <2>3 DEF OpenInv
<1>16. CASE Found
  <2>1. /\ Shape /\ find.step = "found" /\ find'.step = "answered"
        /\ setup' = setup
        /\ find'.candidates = find.candidates
        /\ find'.order = find.order /\ find'.results = find.results
        /\ find'.note = find.note /\ find'.local = find.local
        /\ find'.refused = find.refused /\ find'.direct = find.direct
    BY <1>1, <1>2, <1>16 DEF Found, FindSteps
  <2>2. FlagsOK'
    BY <1>1, <2>1 DEF FlagsOK, Silent
  <2>3. ListsOK'
    BY <2>1, ListsKept DEF Empty
  <2> QED BY <2>1, <2>2, <2>3 DEF OpenInv
<1>17. CASE UNCHANGED searchVars
  <2>1. find' = find /\ setup' = setup
    BY <1>17 DEF searchVars
  <2>2. FlagsOK' /\ ListsOK'
    BY <1>1, <2>1 DEF FlagsOK, ListsOK
  <2> QED BY <1>1, <1>2, <2>1, <2>2 DEF OpenInv
<1> QED
  BY <1>3, <1>4, <1>5, <1>6, <1>7, <1>8, <1>9, <1>10, <1>11, <1>12, <1>13,
     <1>14, <1>15, <1>16, <1>17 DEF SearchNext

(* A search degrades without losing a passage or hiding that it did, in    *)
(* every state of every search and for every reply of the reranker.        *)
THEOREM SearchAlwaysDegradesOpenly == SearchSpec => []SearchDegradesOpenly
<1>1. SearchInit => OpenInv
  <2> SUFFICES ASSUME SearchInit PROVE OpenInv
    OBVIOUS
  <2>1. /\ find = NoFind /\ setup.agent_url \in BOOLEAN
    BY DEF SearchInit
  <2>2. FlagsOK
    BY <2>1 DEF FlagsOK, NoFind, Silent
  <2>3. Ranks(<<>>)
    BY EmptySeq DEF Ranks
  <2>4. ListsOK
    BY <2>1, <2>3 DEF ListsOK, NoFind, Blank, Empty
  <2> QED BY <2>1, <2>2, <2>4 DEF OpenInv, NoFind, FindSteps
<1>2. OpenInv /\ [SearchNext]_searchVars => OpenInv'
  BY OpenStep
<1> QED BY <1>1, <1>2, OpenMeansDegradesOpenly, PTL DEF SearchSpec
=============================================================================
