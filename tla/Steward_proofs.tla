--------------------------- MODULE Steward_proofs ---------------------------
(***************************************************************************)
(* Why a remediation is applied on a review of its own step and once,      *)
(* for any number of runs, rules, reviewers, reviews and crashes.  Nothing *)
(* here depends on what plan answers: only the step a run is at, its       *)
(* topic and what recv returned last do.                                   *)
(***************************************************************************)
EXTENDS Steward, SequenceTheorems, TLAPS

\* What the argument needs of the types.
Shapes ==
    /\ stage = [w \in Runs |-> stage[w]]
    /\ step \in [Runs -> Nat \ {0}]
    /\ inbox \in [Runs -> Seq(Message)]
    /\ decision \in [Runs -> Message \cup {None}]
    /\ status = [w \in Runs |-> status[w]]
    /\ screen \in [Reviewers -> Seen \cup {None}]
    /\ rescan = [w \in Runs |-> rescan[w]]
    /\ online \in BOOLEAN
    /\ applies \in [Runs -> [Steps -> Nat]]
    /\ scans \in [Runs -> [Steps -> Nat]]
    /\ orders \in [Runs -> [Steps -> Message \cup {None}]]
    /\ struck \in [Runs -> SUBSET Nat]

\* Every review is of a step its run has come to.
TopicIsPast(w) ==
    \A m \in Message : (\E k \in 1 .. Len(inbox[w]) : inbox[w][k] = m) =>
        m.about.run = w /\ m.about.step <= step[w]

SeenIsPast(w) ==
    /\ status[w].phase = "awaiting_human" =>
          status[w].step \in Nat /\ status[w].step <= step[w]
    /\ \A a \in Reviewers :
          screen[a] # None /\ screen[a].run = w => screen[a].step <= step[w]

\* While no stray review was sent the topic holds at most the one that is
\* due, and only while its step waits for it.
TopicIsDue(w) ==
    \/ w \in stray
    \/ inbox[w] = <<>>
    \/ /\ stage[w] = "wait"
       /\ Len(inbox[w]) = 1
       /\ Head(inbox[w]).about.step = step[w]

\* What recv returned is acted on at the step it was received at.
DecisionIsAbout(w) ==
    stage[w] \in {"apply", "applied", "note"} /\ decision[w] # None =>
        /\ decision[w].about.run = w
        /\ decision[w].about.step <= step[w]
        /\ w \notin stray => decision[w].about.step = step[w]

ApplyingIsApproved(w) ==
    stage[w] \in {"apply", "applied"} =>
        decision[w] # None /\ decision[w].approved

\* OrdersAreReviewed, of one run.
OrdersOf(w) ==
    \A i \in Steps :
        applies[w][i] > 0 =>
            /\ orders[w][i] # None
            /\ orders[w][i].approved
            /\ orders[w][i].about.run = w
            /\ orders[w][i].about.step <= i
            /\ w \notin stray => orders[w][i].about.step = i

Reviewed(w) ==
    /\ TopicIsPast(w)
    /\ SeenIsPast(w)
    /\ TopicIsDue(w)
    /\ DecisionIsAbout(w)
    /\ ApplyingIsApproved(w)
    /\ OrdersOf(w)

OrderInv == Shapes /\ \A w \in Runs : Reviewed(w)

\* The variables of one run stay as they are.
Rests(w) ==
    /\ stage'[w] = stage[w] /\ step'[w] = step[w] /\ inbox'[w] = inbox[w]
    /\ decision'[w] = decision[w] /\ status'[w] = status[w]
    /\ rescan'[w] = rescan[w] /\ scans'[w] = scans[w]
    /\ applies'[w] = applies[w] /\ orders'[w] = orders[w]
    /\ struck'[w] = struck[w] /\ history'[w] = history[w]
    /\ w \in stray' <=> w \in stray

LEMMA RestsReviewed ==
    ASSUME NEW w, Reviewed(w), Rests(w), UNCHANGED screen
    PROVE  Reviewed(w)'
  BY DEF Reviewed, Rests, TopicIsPast, SeenIsPast, TopicIsDue,
         DecisionIsAbout, ApplyingIsApproved, OrdersOf

(* A run that starts has neither a topic nor an order.                     *)
LEMMA InitReviewed == Init => OrderInv
<1> SUFFICES ASSUME Init PROVE OrderInv
  OBVIOUS
<1>1. Shapes
  BY DEF Init, Shapes
<1>2. ASSUME NEW w \in Runs PROVE Reviewed(w)
  BY DEF Init, Reviewed, TopicIsPast, SeenIsPast, TopicIsDue,
         DecisionIsAbout, ApplyingIsApproved, OrdersOf
<1> QED BY <1>1, <1>2 DEF OrderInv

LEMMA InvOrders == OrderInv => OrdersAreReviewed
  BY DEF OrderInv, Reviewed, OrdersOf, OrdersAreReviewed

(* What every step of a run itself leaves alone.                           *)
LEMMA OthersRest ==
    ASSUME OrderInv, NEW w \in Runs, Start(w) \/ Work(w) \/ Crash(w)
    PROVE  /\ UNCHANGED <<screen, stray, online>>
           /\ \A v \in Runs \ {w} : Rests(v)
<1> USE DEF OrderInv, Shapes, Rests, process, histories, people
<1>1. CASE Start(w) \/ PlanRaises(w)
  BY <1>1 DEF Start, PlanRaises
<1>2. CASE Plan(w)
  BY <1>2 DEF Plan
<1>3. CASE Ask(w)
  BY <1>3 DEF Ask
<1>4. CASE Receive(w)
  BY <1>4 DEF Receive
<1>5. CASE TimeOut(w)
  BY <1>5 DEF TimeOut
<1>6. CASE Apply(w)
  BY <1>6 DEF Apply
<1>7. CASE Checkpoint(w)
  BY <1>7 DEF Checkpoint
<1>8. CASE Note(w)
  BY <1>8 DEF Note
<1>9. CASE Summarize(w)
  BY <1>9 DEF Summarize
<1>10. CASE Crash(w)
  BY <1>10 DEF Crash
<1> QED BY <1>1, <1>2, <1>3, <1>4, <1>5, <1>6, <1>7, <1>8, <1>9, <1>10
        DEF Work

(* A step that touches neither the topic nor what was carried out, and     *)
(* does not go on to carry anything out.                                   *)
LEMMA QuietReviewed ==
    ASSUME OrderInv, NEW w \in Runs,
           \/ Start(w) \/ Plan(w) \/ PlanRaises(w) \/ Ask(w) \/ TimeOut(w)
           \/ Checkpoint(w) \/ Summarize(w)
    PROVE  Shapes' /\ Reviewed(w)'
<1> USE DEF process, histories, people
<1>1. /\ UNCHANGED <<step, inbox, screen, rescan, online, applies, scans,
                     orders, stray, struck>>
      /\ Shapes'
  BY DEF OrderInv, Shapes, Start, Plan, PlanRaises, Ask, TimeOut, Checkpoint,
         Summarize
<1>2. Reviewed(w)
  BY DEF OrderInv
<1>3. TopicIsPast(w)' /\ OrdersOf(w)'
  BY <1>1, <1>2 DEF Reviewed, TopicIsPast, OrdersOf
<1>4. SeenIsPast(w)'
  BY <1>1, <1>2 DEF OrderInv, Shapes, Reviewed, SeenIsPast,
         Start, Plan, PlanRaises, Ask, TimeOut, Checkpoint, Summarize
<1>5. TopicIsDue(w)'
  BY <1>1, <1>2 DEF OrderInv, Shapes, Reviewed, TopicIsDue,
         Start, Plan, PlanRaises, Ask, TimeOut, Checkpoint, Summarize
<1>6. DecisionIsAbout(w)' /\ ApplyingIsApproved(w)'
  BY <1>1, <1>2 DEF OrderInv, Shapes, Reviewed, DecisionIsAbout,
         ApplyingIsApproved,
         Start, Plan, PlanRaises, Ask, TimeOut, Checkpoint, Summarize
<1> QED BY <1>1, <1>3, <1>4, <1>5, <1>6 DEF Reviewed

(* recv hands over the first review of the topic.                          *)
LEMMA ReceiveReviewed ==
    ASSUME OrderInv, NEW w \in Runs, Receive(w)
    PROVE  Shapes' /\ Reviewed(w)'
<1> DEFINE m == Head(inbox[w])
<1>1. /\ inbox[w] \in Seq(Message) /\ inbox[w] # <<>> /\ stage[w] = "wait"
      /\ inbox' = [inbox EXCEPT ![w] = Tail(@)]
      /\ decision' = [decision EXCEPT ![w] = m]
      /\ stage' = [stage EXCEPT ![w] =
                      IF Approved(m) THEN "apply" ELSE "note"]
      /\ UNCHANGED <<step, status, screen, rescan, online, applies, scans,
                     orders, struck, stray>>
  BY DEF OrderInv, Shapes, Receive, process, people, histories
<1>2. /\ m \in Message /\ m = inbox[w][1] /\ Len(inbox[w]) \in Nat \ {0}
      /\ Tail(inbox[w]) \in Seq(Message)
      /\ Len(Tail(inbox[w])) = Len(inbox[w]) - 1
      /\ \A k \in 1 .. Len(Tail(inbox[w])) :
            Tail(inbox[w])[k] = inbox[w][k + 1]
  BY <1>1
<1>3. Len(inbox[w]) = 1 => Tail(inbox[w]) = <<>>
  <2>1. ASSUME NEW t \in Seq(Message), Len(t) = 0
        PROVE  t = <<>>
    BY <2>1, EmptySeq
  <2>2. ASSUME Len(inbox[w]) = 1 PROVE Len(Tail(inbox[w])) = 0
    BY <2>2, <1>2
  <2>3. ASSUME Len(Tail(inbox[w])) = 0 PROVE Tail(inbox[w]) = <<>>
    BY <2>1, <2>3, <1>2, Zenon
  <2> QED BY <2>2, <2>3
<1>4. Shapes'
  BY <1>1, <1>2 DEF OrderInv, Shapes
<1>5. /\ stage'[w] \in {"apply", "note"} /\ decision'[w] = m
      /\ stage'[w] = "apply" => m.approved
      /\ inbox'[w] = Tail(inbox[w])
  BY <1>1 DEF OrderInv, Shapes, Approved
<1>6. Reviewed(w)
  BY DEF OrderInv
<1>7. TopicIsPast(w)'
  BY <1>1, <1>2, <1>5, <1>6 DEF Reviewed, TopicIsPast
<1>8. SeenIsPast(w)' /\ OrdersOf(w)'
  BY <1>1, <1>6 DEF Reviewed, SeenIsPast, OrdersOf
<1>9. TopicIsDue(w)'
  BY <1>1, <1>2, <1>3, <1>5, <1>6 DEF Reviewed, TopicIsDue
<1>10. DecisionIsAbout(w)'
  <2>1. m.about.run = w /\ m.about.step <= step[w]
    BY <1>2, <1>6 DEF Reviewed, TopicIsPast
  <2>2. w \in stray \/ m.about.step = step[w]
    BY <1>1, <1>6 DEF Reviewed, TopicIsDue
  <2> QED BY <2>1, <2>2, <1>1, <1>5 DEF DecisionIsAbout
<1>11. ApplyingIsApproved(w)'
  BY <1>2, <1>5, NoneAssumption DEF ApplyingIsApproved
<1> QED BY <1>4, <1>7, <1>8, <1>9, <1>10, <1>11 DEF Reviewed

(* The order goes out on the decision of this step.                        *)
LEMMA ApplyReviewed ==
    ASSUME OrderInv, NEW w \in Runs, Apply(w)
    PROVE  Shapes' /\ Reviewed(w)'
<1>0. PICK o \in Outcomes :
          /\ scans' = [scans EXCEPT ![w][step[w]] = @ + o.ran]
          /\ rescan' = [rescan EXCEPT ![w] = o.said]
  BY DEF Apply
<1>1. /\ stage[w] = "apply"
      /\ applies' = [applies EXCEPT ![w][step[w]] = @ + 1]
      /\ orders' = [orders EXCEPT ![w][step[w]] = decision[w]]
      /\ stage' = [stage EXCEPT ![w] = "applied"]
      /\ UNCHANGED <<step, inbox, decision, status, screen, online, struck,
                     stray>>
  BY DEF Apply, people
<1>2. Reviewed(w) /\ Shapes
  BY DEF OrderInv
<1>3. Shapes'
  <2>0. o.ran \in Nat
    BY DEF Outcomes
  <2>1. ASSUME NEW f \in [Runs -> [Steps -> Nat]], NEW n \in Nat
        PROVE  [f EXCEPT ![w][step[w]] = @ + n] \in [Runs -> [Steps -> Nat]]
    <3>1. [f[w] EXCEPT ![step[w]] = @ + n] \in [Steps -> Nat]
      <4>1. CASE step[w] \in Steps
        BY <4>1
      <4>2. CASE step[w] \notin Steps
        BY <4>2
      <4> QED BY <4>1, <4>2
    <3> QED BY <3>1
  <2>2. [orders[w] EXCEPT ![step[w]] = decision[w]]
            \in [Steps -> Message \cup {None}]
    BY <1>2 DEF Shapes
  <2>3. /\ scans' \in [Runs -> [Steps -> Nat]]
        /\ applies' \in [Runs -> [Steps -> Nat]]
    BY <2>0, <2>1, <1>0, <1>1, <1>2 DEF Shapes
  <2>4. orders' \in [Runs -> [Steps -> Message \cup {None}]]
    BY <2>2, <1>1, <1>2 DEF Shapes
  <2> QED BY <2>3, <2>4, <1>0, <1>1, <1>2 DEF Shapes
<1>4. TopicIsPast(w)' /\ SeenIsPast(w)'
  BY <1>1, <1>2 DEF Reviewed, TopicIsPast, SeenIsPast
<1>5. stage'[w] = "applied"
  BY <1>1, <1>2 DEF Shapes
<1>6. TopicIsDue(w)' /\ DecisionIsAbout(w)' /\ ApplyingIsApproved(w)'
  BY <1>1, <1>2, <1>5 DEF Reviewed, TopicIsDue, DecisionIsAbout,
         ApplyingIsApproved
<1>7. OrdersOf(w)'
  <2> SUFFICES ASSUME NEW i \in Steps, applies'[w][i] > 0
               PROVE  /\ orders'[w][i] # None
                      /\ orders'[w][i].approved
                      /\ orders'[w][i].about.run = w
                      /\ orders'[w][i].about.step <= i
                      /\ w \notin stray => orders'[w][i].about.step = i
    BY <1>1 DEF OrdersOf
  <2>1. CASE i = step[w]
    <3>1. orders'[w][i] = decision[w]
      BY <2>1, <1>1, <1>2 DEF Shapes
    <3> QED BY <3>1, <2>1, <1>1, <1>2
            DEF Reviewed, DecisionIsAbout, ApplyingIsApproved
  <2>2. CASE i # step[w]
    <3>1. orders'[w][i] = orders[w][i] /\ applies'[w][i] = applies[w][i]
      BY <2>2, <1>1, <1>2 DEF Shapes
    <3> QED BY <3>1, <1>2 DEF Reviewed, OrdersOf
  <2> QED BY <2>1, <2>2
<1> QED BY <1>3, <1>4, <1>6, <1>7 DEF Reviewed

(* The next step finds an empty topic unless a stray review was sent.      *)
LEMMA NoteReviewed ==
    ASSUME OrderInv, NEW w \in Runs, Note(w)
    PROVE  Shapes' /\ Reviewed(w)'
<1>1. /\ stage[w] = "note"
      /\ stage'[w] \in {"ask", "summarize"}
      /\ step'[w] \in Nat \ {0} /\ step'[w] >= step[w]
      /\ status'[w].phase = "working"
      /\ UNCHANGED <<inbox, decision, screen, rescan, online, applies, scans,
                     orders, struck, stray>>
      /\ Shapes'
  <2>1. /\ status' = [status EXCEPT ![w] =
                         [phase |-> "working", step |-> step[w]]]
        /\ \/ /\ step' = [step EXCEPT ![w] = @ + 1]
              /\ stage' = [stage EXCEPT ![w] = "ask"]
           \/ /\ stage' = [stage EXCEPT ![w] = "summarize"]
              /\ step' = step
        /\ UNCHANGED <<inbox, decision, screen, rescan, online, applies,
                       scans, orders, struck, stray>>
        /\ stage[w] = "note"
    BY DEF Note, process, people, histories
  <2>2. Shapes
    BY DEF OrderInv
  <2>3. Shapes'
    <3>1. step' \in [Runs -> Nat \ {0}]
      BY <2>1, <2>2 DEF Shapes
    <3>2. /\ stage' = [v \in Runs |-> stage'[v]]
          /\ status' = [v \in Runs |-> status'[v]]
      BY <2>1, <2>2 DEF Shapes
    <3> QED BY <2>1, <2>2, <3>1, <3>2 DEF Shapes
  <2>4. status'[w] = [phase |-> "working", step |-> step[w]]
    BY <2>1, <2>2 DEF Shapes
  <2> QED BY <2>1, <2>2, <2>3, <2>4 DEF Shapes
<1>2. Reviewed(w) /\ Shapes
  BY DEF OrderInv
<1>3. TopicIsPast(w)'
  <2>1. \A m \in Message : m.about.step \in Nat
    BY DEF Message, Seen
  <2> QED BY <2>1, <1>1, <1>2 DEF Reviewed, TopicIsPast, Shapes
<1>4. SeenIsPast(w)'
  BY <1>1, <1>2 DEF Reviewed, SeenIsPast, Shapes, Seen
<1>5. TopicIsDue(w)' /\ DecisionIsAbout(w)' /\ ApplyingIsApproved(w)'
  BY <1>1, <1>2 DEF Reviewed, TopicIsDue, DecisionIsAbout,
         ApplyingIsApproved
<1>6. OrdersOf(w)'
  BY <1>1, <1>2 DEF Reviewed, OrdersOf
<1> QED BY <1>1, <1>3, <1>4, <1>5, <1>6 DEF Reviewed

(* A crash goes back to the order, with the decision it was made on.       *)
LEMMA CrashReviewed ==
    ASSUME OrderInv, NEW w \in Runs, Crash(w)
    PROVE  Shapes' /\ Reviewed(w)'
<1>1. /\ stage[w] = "applied" /\ stage' = [stage EXCEPT ![w] = "apply"]
      /\ struck' \in [Runs -> SUBSET Nat]
      /\ UNCHANGED <<step, inbox, decision, status, screen, rescan, online,
                     applies, scans, orders, stray>>
  BY DEF Crash, Forgotten, people, OrderInv, Shapes
<1>2. Reviewed(w) /\ Shapes /\ Shapes'
  BY <1>1 DEF OrderInv, Shapes
<1>3. stage'[w] = "apply"
  BY <1>1, <1>2 DEF Shapes
<1> QED BY <1>1, <1>2, <1>3 DEF Reviewed, TopicIsPast, SeenIsPast,
        TopicIsDue, DecisionIsAbout, ApplyingIsApproved, OrdersOf

(* Somebody opens the entry that waits, which is of a step come to.        *)
LEMMA LookReviewed ==
    ASSUME OrderInv, NEW a \in Reviewers, NEW w \in Runs, Look(a, w)
    PROVE  OrderInv'
<1>1. /\ status[w].phase = "awaiting_human"
      /\ screen' = [screen EXCEPT ![a] = [run |-> w,
                                         step |-> status[w].step]]
      /\ UNCHANGED <<stage, step, inbox, decision, status, rescan, online,
                     applies, scans, orders, struck, stray>>
  BY DEF Look, process, histories
<1>2. Shapes /\ \A v \in Runs : Reviewed(v)
  BY DEF OrderInv
<1>3. status[w].step \in Nat /\ status[w].step <= step[w]
  BY <1>1, <1>2 DEF Reviewed, SeenIsPast
<1>4. [run |-> w, step |-> status[w].step] \in Seen
  BY <1>3 DEF Seen
<1>5. Shapes'
  BY <1>1, <1>2, <1>4 DEF Shapes
<1>6. ASSUME NEW v \in Runs PROVE Reviewed(v)'
  <2>1. TopicIsPast(v)' /\ TopicIsDue(v)' /\ OrdersOf(v)'
    BY <1>1, <1>2 DEF Reviewed, TopicIsPast, TopicIsDue, OrdersOf
  <2>2. DecisionIsAbout(v)' /\ ApplyingIsApproved(v)'
    BY <1>1, <1>2 DEF Reviewed, DecisionIsAbout, ApplyingIsApproved
  <2>3. SeenIsPast(v)'
    <3>1. ASSUME NEW b \in Reviewers,
                 screen'[b] # None, screen'[b].run = v
          PROVE  screen'[b].step <= step[v]
      <4>1. CASE b = a
        BY <4>1, <3>1, <1>1, <1>2, <1>3 DEF Shapes
      <4>2. CASE b # a
        BY <4>2, <3>1, <1>1, <1>2 DEF Shapes, Reviewed, SeenIsPast
      <4> QED BY <4>1, <4>2
    <3> QED BY <3>1, <1>1, <1>2 DEF Reviewed, SeenIsPast
  <2> QED BY <2>1, <2>2, <2>3 DEF Reviewed
<1> QED BY <1>5, <1>6 DEF OrderInv

(* A review that is due meets an empty topic; any other marks its run.     *)
LEMMA ReviewReviewed ==
    ASSUME OrderInv, NEW a \in Reviewers, NEW approved \in BOOLEAN,
           Review(a, approved)
    PROVE  OrderInv'
<1> DEFINE w == screen[a].run
           m == [approved |-> approved, approver |-> a, about |-> screen[a]]
<1>1. /\ screen[a] # None
      /\ inbox' = [inbox EXCEPT ![w] = Append(@, m)]
      /\ stray' = IF Due(screen[a]) THEN stray ELSE stray \cup {w}
      /\ UNCHANGED <<stage, step, decision, status, screen, rescan, online,
                     applies, scans, orders, struck>>
  BY DEF Review, process
<1>2. Shapes /\ \A v \in Runs : Reviewed(v)
  BY DEF OrderInv
<1>3. screen[a] \in Seen /\ w \in Runs
  BY <1>1, <1>2 DEF Shapes, Seen
<1>4. m \in Message
  BY <1>3 DEF Message
<1>5. m.about.run = w /\ m.about.step <= step[w]
  BY <1>1, <1>2, <1>3 DEF Reviewed, SeenIsPast
<1> HIDE DEF m
<1>6. /\ inbox[w] \in Seq(Message)
      /\ Append(inbox[w], m) \in Seq(Message)
      /\ inbox'[w] = Append(inbox[w], m)
  BY <1>1, <1>2, <1>3, <1>4 DEF Shapes
<1>7. Shapes'
  BY <1>1, <1>2, <1>3, <1>6 DEF Shapes
<1>8. \A v \in Runs : (v \in stray => v \in stray')
  BY <1>1
<1>9. ASSUME NEW v \in Runs PROVE Reviewed(v)'
  <2>1. Reviewed(v)
    BY <1>2
  <2>2. SeenIsPast(v)' /\ ApplyingIsApproved(v)'
    BY <2>1, <1>1 DEF Reviewed, SeenIsPast, ApplyingIsApproved
  <2>3. DecisionIsAbout(v)' /\ OrdersOf(v)'
    BY <2>1, <1>1, <1>8 DEF Reviewed, DecisionIsAbout, OrdersOf
  <2>4. CASE v # w
    <3>1. inbox'[v] = inbox[v]
      BY <2>4, <1>1, <1>2, <1>3 DEF Shapes
    <3> QED BY <3>1, <2>1, <2>2, <2>3, <1>1, <1>8
            DEF Reviewed, TopicIsPast, TopicIsDue
  <2>5. CASE v = w
    <3>1. ASSUME NEW k \in 1 .. Len(Append(inbox[w], m))
          PROVE  \/ Append(inbox[w], m)[k] = m
                 \/ /\ k \in 1 .. Len(inbox[w])
                    /\ Append(inbox[w], m)[k] = inbox[w][k]
      BY <1>4, <1>6
    <3>2. TopicIsPast(v)'
      BY <3>1, <2>1, <2>5, <1>1, <1>5, <1>6 DEF Reviewed, TopicIsPast
    <3>3. TopicIsDue(v)'
      <4>1. CASE ~Due(screen[a])
        BY <4>1, <2>5, <1>1, <1>3 DEF TopicIsDue
      <4>2. CASE Due(screen[a])
        <5>1. /\ inbox[w] = <<>> /\ stage[w] = "wait"
              /\ step[w] = screen[a].step
          BY <4>2 DEF Due
        <5>2. Append(inbox[w], m) = <<m>>
          BY <5>1
        <5>3. Len(<<m>>) = 1 /\ Head(<<m>>) = m
          OBVIOUS
        <5>4. m.about.step = step[w]
          BY <5>1 DEF m
        <5>5. inbox'[v] = <<m>> /\ stage'[v] = "wait" /\ step'[v] = step[w]
          BY <5>1, <5>2, <2>5, <1>1, <1>6
        <5> QED BY <5>3, <5>4, <5>5 DEF TopicIsDue
      <4> QED BY <4>1, <4>2
    <3> QED BY <3>2, <3>3, <2>2, <2>3, <2>5 DEF Reviewed
  <2> QED BY <2>4, <2>5
<1> QED BY <1>7, <1>9 DEF OrderInv

(* Every step keeps each run's orders to its reviews.                      *)
LEMMA StepReviewed == OrderInv /\ [Next]_vars => OrderInv'
<1> SUFFICES ASSUME OrderInv, [Next]_vars
             PROVE  OrderInv'
  OBVIOUS
<1>1. CASE UNCHANGED vars
  <2>1. UNCHANGED screen /\ Shapes'
    BY <1>1 DEF OrderInv, Shapes, vars
  <2>2. \A w \in Runs : Rests(w)
    BY <1>1 DEF Rests, vars
  <2> QED BY <2>1, <2>2, RestsReviewed DEF OrderInv
<1>2. ASSUME NEW w \in Runs, Start(w) \/ Work(w) \/ Crash(w)
      PROVE  OrderInv'
  <2>1. Shapes' /\ Reviewed(w)'
    BY <1>2, QuietReviewed, ReceiveReviewed, ApplyReviewed, NoteReviewed,
       CrashReviewed DEF Work
  <2>2. UNCHANGED screen /\ \A v \in Runs \ {w} : Rests(v)
    BY <1>2, OthersRest
  <2>3. \A v \in Runs \ {w} : Reviewed(v)'
    BY <2>2, RestsReviewed DEF OrderInv
  <2> QED BY <2>1, <2>3 DEF OrderInv
<1>3. ASSUME NEW a \in Reviewers, NEW w \in Runs, Look(a, w)
      PROVE  OrderInv'
  BY <1>3, LookReviewed
<1>4. ASSUME NEW a \in Reviewers, NEW approved \in BOOLEAN,
             Review(a, approved)
      PROVE  OrderInv'
  BY <1>4, ReviewReviewed
<1> QED BY <1>1, <1>2, <1>3, <1>4 DEF Next

(* No remediation is applied but on an approval of its step, unless a      *)
(* review was sent twice or late (harness.py, steward_run and recv).       *)
THEOREM OrdersFollowReviews == Spec => []OrdersAreReviewed
<1>1. Spec => []OrderInv
  BY InitReviewed, StepReviewed, PTL DEF Spec
<1> QED BY <1>1, InvOrders, PTL

(***************************************************************************)
(* How often a step is applied, and its scan run.                          *)
(***************************************************************************)
\* A history is a sequence, whatever plan gives as the rule of an entry.
HistoryShape == \E S : history \in [Runs -> Seq(S)]

\* A run's history has an entry for every step it has left behind.
HistoryKeepsUp(w) ==
    /\ Len(history[w]) \in Nat
    /\ IF stage[w] \in {"summarize", "done"}
       THEN Len(history[w]) <= step[w]
       ELSE Len(history[w]) + 1 = step[w]

\* How often a step has been applied, by where its run is.
CountHere(w) ==
    \A i \in Steps :
        /\ i > step[w] => applies[w][i] = 0
        /\ i = step[w] =>
              /\ stage[w] \in {"idle", "plan", "ask", "wait"} =>
                    applies[w][i] = 0
              /\ stage[w] = "apply" /\ i \notin struck[w] =>
                    applies[w][i] = 0
              /\ stage[w] = "applied" => applies[w][i] > 0
              /\ stage[w] = "note" =>
                    (applies[w][i] > 0 <=> Resolution(decision[w]) = "applied")
        /\ i \notin struck[w] => applies[w][i] <= 1

\* What apply_remediation said last is said of the step that is yet to be
\* noted.
Told(w) ==
    \/ stage[w] = "applied"
    \/ stage[w] = "note" /\ Resolution(decision[w]) = "applied"

\* How often its scan was run, and what was said of it.
ScansHere(w) ==
    /\ rescan[w] = "skipped" => ~online
    /\ \A i \in Steps :
          /\ scans[w][i] <= applies[w][i]
          /\ ~online => scans[w][i] = 0
          /\ i = step[w] /\ Told(w) /\ rescan[w] = "reran" => scans[w][i] > 0

\* AppliedExactlyOnce, of one run's entries.
CountNoted(w) ==
    \A i \in Steps : i <= Len(history[w]) =>
        /\ history[w][i].resolution = "applied" <=> applies[w][i] > 0
        /\ history[w][i].rescan = "reran" => scans[w][i] > 0
        /\ history[w][i].rescan = "skipped" => scans[w][i] = 0

Counted(w) ==
    /\ HistoryKeepsUp(w)
    /\ CountHere(w)
    /\ ScansHere(w)
    /\ CountNoted(w)

CountInv ==
    /\ OrderInv
    /\ HistoryShape
    /\ \A w \in Runs : Counted(w)

LEMMA RestsCounted ==
    ASSUME NEW w, Counted(w), Rests(w), UNCHANGED online
    PROVE  Counted(w)'
  BY DEF Counted, Rests, HistoryKeepsUp, CountHere, Told, ScansHere,
         CountNoted, Resolution, Approved

(* A run that starts has neither a history nor an effect.                  *)
LEMMA InitCounted == Init => CountInv
<1> SUFFICES ASSUME Init PROVE CountInv
  OBVIOUS
<1>1. HistoryShape
  <2>1. history \in [Runs -> Seq({})]
    BY DEF Init
  <2> QED BY <2>1 DEF HistoryShape
<1>2. ASSUME NEW w \in Runs PROVE Counted(w)
  <2>1. /\ stage[w] = "idle" /\ step[w] = 1 /\ history[w] = <<>>
        /\ rescan[w] = "none"
        /\ \A i \in Steps :
              i \in Nat \ {0} /\ applies[w][i] = 0 /\ scans[w][i] = 0
    BY BoundAssumption DEF Init, Steps
  <2>2. Len(history[w]) = 0
    BY <2>1
  <2>3. HistoryKeepsUp(w)
    BY <2>1, <2>2 DEF HistoryKeepsUp
  <2>4. CountHere(w)
    BY <2>1 DEF CountHere
  <2>5. ScansHere(w)
    BY <2>1 DEF ScansHere, Told
  <2>6. CountNoted(w)
    BY <2>1, <2>2 DEF CountNoted
  <2> QED BY <2>3, <2>4, <2>5, <2>6 DEF Counted
<1> QED BY <1>1, <1>2, InitReviewed DEF CountInv

LEMMA InvCounts == CountInv => AppliedExactlyOnce
  BY DEF CountInv, Counted, CountHere, ScansHere, CountNoted,
         AppliedExactlyOnce

(* What is appended comes last, and the rest stays.                        *)
LEMMA AppendFacts ==
    ASSUME NEW S, NEW h \in Seq(S), NEW e
    PROVE  /\ Append(h, e) \in Seq(S \cup {e})
           /\ Len(h) \in Nat
           /\ Len(Append(h, e)) = Len(h) + 1
           /\ \A i \in 1 .. Len(h) : Append(h, e)[i] = h[i]
           /\ Append(h, e)[Len(h) + 1] = e
<1>1. h \in Seq(S \cup {e}) /\ e \in S \cup {e}
  OBVIOUS
<1> QED BY <1>1

(* A step that applies nothing and notes nothing.                          *)
LEMMA WaitCounted ==
    ASSUME CountInv, NEW w \in Runs,
           \/ Start(w) \/ Plan(w) \/ PlanRaises(w) \/ Ask(w) \/ Receive(w)
           \/ TimeOut(w) \/ Checkpoint(w) \/ Summarize(w)
    PROVE  Counted(w)'
<1> USE DEF process, histories, people
<1>1. /\ UNCHANGED <<step, history, rescan, online, applies, scans, struck>>
      /\ Shapes /\ Counted(w) /\ ApplyingIsApproved(w)
  BY DEF CountInv, OrderInv, Reviewed, Start, Plan, PlanRaises, Ask, Receive,
         TimeOut, Checkpoint, Summarize
<1>2. CountNoted(w)'
  BY <1>1 DEF Counted, CountNoted
<1>3. CASE Start(w) \/ Ask(w) \/ PlanRaises(w) \/ Summarize(w)
  <2>1. /\ stage[w] \in {"idle", "ask", "plan", "summarize"}
        /\ stage'[w] \in {"plan", "wait", "failed", "done"}
        /\ stage[w] = "summarize" <=> stage'[w] = "done"
    BY <1>1, <1>3 DEF Shapes, Start, Ask, PlanRaises, Summarize
  <2> QED BY <2>1, <1>1, <1>2 DEF Counted, HistoryKeepsUp, CountHere, Told,
          ScansHere
<1>4. CASE Plan(w)
  <2>1. stage[w] = "plan" /\ stage'[w] \in {"summarize", "ask"}
    BY <1>1, <1>4 DEF Shapes, Plan
  <2> QED BY <2>1, <1>1, <1>2 DEF Counted, HistoryKeepsUp, CountHere, Told,
          ScansHere
<1>5. CASE Receive(w) \/ TimeOut(w)
  <2>1. /\ stage[w] = "wait"
        /\ \/ stage'[w] = "apply"
           \/ stage'[w] = "note" /\ Resolution(decision[w])' # "applied"
    BY <1>1, <1>5 DEF Shapes, Receive, TimeOut, Resolution, Approved
  <2> QED BY <2>1, <1>1, <1>2 DEF Counted, HistoryKeepsUp, CountHere, Told,
          ScansHere
<1>6. CASE Checkpoint(w)
  <2>1. /\ stage[w] = "applied" /\ stage'[w] = "note"
        /\ Resolution(decision[w])' = "applied"
    BY <1>1, <1>6 DEF Shapes, ApplyingIsApproved, Checkpoint, Resolution,
       Approved
  <2> QED BY <2>1, <1>1, <1>2 DEF Counted, HistoryKeepsUp, CountHere, Told,
          ScansHere
<1> QED BY <1>3, <1>4, <1>5, <1>6

(* The order goes out at the step the run is at.                           *)
LEMMA ApplyCounted ==
    ASSUME CountInv, NEW w \in Runs, Apply(w)
    PROVE  Counted(w)'
<1>0. PICK o \in Outcomes :
          /\ scans' = [scans EXCEPT ![w][step[w]] = @ + o.ran]
          /\ rescan' = [rescan EXCEPT ![w] = o.said]
  BY DEF Apply
<1>1. /\ stage[w] = "apply"
      /\ applies' = [applies EXCEPT ![w][step[w]] = @ + 1]
      /\ stage' = [stage EXCEPT ![w] = "applied"]
      /\ UNCHANGED <<step, history, online, struck>>
      /\ Shapes /\ Counted(w)
  BY DEF Apply, CountInv, OrderInv
<1>2. /\ o.ran \in {0, 1}
      /\ o.said = "skipped" => ~online
      /\ ~online => o.ran = 0
      /\ o.said = "reran" => o.ran = 1
  BY DEF Outcomes
<1>3. /\ stage'[w] = "applied" /\ rescan'[w] = o.said
      /\ \A i \in Steps :
            /\ applies'[w][i] = IF i = step[w] THEN applies[w][i] + 1
                                ELSE applies[w][i]
            /\ scans'[w][i] = IF i = step[w] THEN scans[w][i] + o.ran
                              ELSE scans[w][i]
      /\ \A i \in Steps : applies[w][i] \in Nat /\ scans[w][i] \in Nat
      /\ step[w] \in Nat
      /\ \A i \in Steps : i \in Nat
  BY <1>0, <1>1, BoundAssumption DEF Shapes, Steps
<1>4. HistoryKeepsUp(w)'
  BY <1>1, <1>3 DEF Counted, HistoryKeepsUp
<1>5. CountHere(w)'
  <2> SUFFICES ASSUME NEW i \in Steps
               PROVE  /\ i > step[w] => applies'[w][i] = 0
                      /\ i = step[w] => applies'[w][i] > 0
                      /\ i \notin struck[w] => applies'[w][i] <= 1
    BY <1>1, <1>3 DEF CountHere
  <2> QED BY <1>1, <1>3 DEF Counted, CountHere
<1>6. ScansHere(w)'
  <2> SUFFICES ASSUME NEW i \in Steps
               PROVE  /\ scans'[w][i] <= applies'[w][i]
                      /\ ~online => scans'[w][i] = 0
                      /\ i = step[w] /\ o.said = "reran" =>
                            scans'[w][i] > 0
    BY <1>1, <1>2, <1>3 DEF ScansHere, Told
  <2> QED BY <1>1, <1>2, <1>3 DEF Counted, ScansHere
<1>7. CountNoted(w)'
  <2>1. ASSUME NEW i \in Steps, i <= Len(history[w])
        PROVE  i # step[w]
    BY <2>1, <1>1, <1>3 DEF Counted, HistoryKeepsUp
  <2> QED BY <2>1, <1>1, <1>3 DEF Counted, CountNoted
<1> QED BY <1>4, <1>5, <1>6, <1>7 DEF Counted

(* The entry calls applied what was applied, and says of its scan what     *)
(* apply_remediation said.                                                 *)
LEMMA NoteCounted ==
    ASSUME CountInv, NEW w \in Runs, Note(w)
    PROVE  HistoryShape' /\ Counted(w)'
<1> DEFINE e == [rule |-> plan[w][step[w]],
                 resolution |-> Resolution(decision[w]),
                 approver |-> IF decision[w] = None THEN None
                              ELSE decision[w].approver,
                 rescan |-> IF Resolution(decision[w]) = "applied"
                            THEN rescan[w] ELSE "none"]
<1>1. /\ stage[w] = "note"
      /\ history' = [history EXCEPT ![w] = Append(@, e)]
      /\ \/ /\ step' = [step EXCEPT ![w] = @ + 1]
            /\ stage' = [stage EXCEPT ![w] = "ask"]
         \/ /\ stage' = [stage EXCEPT ![w] = "summarize"]
            /\ step' = step
      /\ UNCHANGED <<rescan, online, applies, scans, struck>>
      /\ Shapes /\ Counted(w)
  BY DEF Note, process, histories, CountInv, OrderInv
<1>2. /\ e.resolution = Resolution(decision[w])
      /\ e.rescan # "none" => e.rescan = rescan[w] /\ Told(w)
  BY <1>1 DEF Told
<1> HIDE DEF e
<1>3. PICK S : history \in [Runs -> Seq(S)]
  BY DEF CountInv, HistoryShape
<1> DEFINE h == history[w]
<1>4. /\ h \in Seq(S)
      /\ history'[w] = Append(h, e)
      /\ Append(h, e) \in Seq(S \cup {e}) /\ Len(h) \in Nat
      /\ Len(Append(h, e)) = Len(h) + 1
      /\ \A i \in 1 .. Len(h) : Append(h, e)[i] = h[i]
      /\ Append(h, e)[Len(h) + 1] = e
  BY <1>1, <1>3, AppendFacts
<1>5. HistoryShape'
  <2>1. \A v \in Runs : history[v] \in Seq(S \cup {e})
    BY <1>3
  <2>2. history' \in [Runs -> Seq(S \cup {e})]
    BY <2>1, <1>1, <1>3, <1>4
  <2> QED BY <2>2 DEF HistoryShape
<1>6. /\ Len(h) + 1 = step[w] /\ step[w] \in Nat
      /\ step'[w] \in {step[w], step[w] + 1}
      /\ \/ stage'[w] = "ask" /\ step'[w] = step[w] + 1
         \/ stage'[w] = "summarize" /\ step'[w] = step[w]
  BY <1>1 DEF Shapes, Counted, HistoryKeepsUp
<1>7. HistoryKeepsUp(w)'
  BY <1>4, <1>6 DEF HistoryKeepsUp
<1>8. CountHere(w)'
  BY <1>1, <1>6 DEF Shapes, Counted, CountHere, Steps
<1>9. ScansHere(w)'
  BY <1>1, <1>6 DEF Counted, ScansHere, Told
<1>10. CountNoted(w)'
  <2> SUFFICES ASSUME NEW i \in Steps, i <= Len(h) + 1
               PROVE  LET f == Append(h, e)[i] IN
                      /\ f.resolution = "applied" <=> applies[w][i] > 0
                      /\ f.rescan = "reran" => scans[w][i] > 0
                      /\ f.rescan = "skipped" => scans[w][i] = 0
    BY <1>1, <1>4 DEF CountNoted
  <2>1. CASE i = step[w]
    <3>1. Append(h, e)[i] = e
      BY <2>1, <1>4, <1>6
    <3>2. e.resolution = "applied" <=> applies[w][i] > 0
      BY <2>1, <1>1, <1>2 DEF Counted, CountHere
    <3>3. /\ e.rescan = "reran" => scans[w][i] > 0
          /\ e.rescan = "skipped" => scans[w][i] = 0
      BY <2>1, <1>1, <1>2 DEF Counted, ScansHere
    <3> QED BY <3>1, <3>2, <3>3
  <2>2. CASE i # step[w]
    <3>1. i \in 1 .. Len(h)
      BY <2>2, <1>4, <1>6 DEF Steps
    <3> QED BY <3>1, <1>1, <1>4 DEF Counted, CountNoted
  <2> QED BY <2>1, <2>2
<1> QED BY <1>5, <1>7, <1>8, <1>9, <1>10 DEF Counted

(* A step struck before its result was recorded is applied again.          *)
LEMMA CrashCounted ==
    ASSUME CountInv, NEW w \in Runs, Crash(w)
    PROVE  Counted(w)'
<1>1. /\ stage[w] = "applied" /\ stage'[w] = "apply"
      /\ struck'[w] = struck[w] \cup {step[w]}
      /\ UNCHANGED <<step, history, rescan, online, applies, scans>>
      /\ Counted(w)
  BY DEF Crash, Forgotten, people, CountInv, OrderInv, Shapes
<1> QED BY <1>1 DEF Counted, HistoryKeepsUp, CountHere, Told, ScansHere,
        CountNoted

(* Every step keeps the counts to the history.                             *)
LEMMA StepCounted == CountInv /\ [Next]_vars => CountInv'
<1> SUFFICES ASSUME CountInv, [Next]_vars
             PROVE  HistoryShape' /\ \A w \in Runs : Counted(w)'
  BY StepReviewed DEF CountInv
<1>1. CASE \/ UNCHANGED vars
           \/ \E a \in Reviewers, w \in Runs : Look(a, w)
           \/ \E a \in Reviewers, approved \in BOOLEAN : Review(a, approved)
  <2>1. UNCHANGED <<stage, step, decision, history, rescan, online, applies,
                    scans, struck>>
    BY <1>1 DEF vars, Look, Review, process, histories
  <2>2. HistoryShape'
    BY <2>1 DEF CountInv, HistoryShape
  <2>3. \A w \in Runs : Counted(w)'
    BY <2>1 DEF CountInv, Counted, HistoryKeepsUp, CountHere, Told,
       ScansHere, CountNoted
  <2> QED BY <2>2, <2>3
<1>2. ASSUME NEW w \in Runs, Start(w) \/ Work(w) \/ Crash(w)
      PROVE  HistoryShape' /\ \A v \in Runs : Counted(v)'
  <2>1. \A v \in Runs \ {w} : Counted(v)'
    BY <1>2, OthersRest, RestsCounted DEF CountInv
  <2>2. CASE Note(w)
    BY <2>1, <2>2, NoteCounted
  <2>3. CASE ~Note(w)
    <3>1. Counted(w)'
      BY <1>2, <2>3, WaitCounted, ApplyCounted, CrashCounted DEF Work
    <3>2. UNCHANGED history
      BY <1>2, <2>3 DEF Work, Start, Plan, PlanRaises, Ask, Receive, TimeOut,
         Apply, Checkpoint, Summarize, Crash
    <3>3. HistoryShape'
      BY <3>2 DEF CountInv, HistoryShape
    <3> QED BY <2>1, <3>1, <3>3
  <2> QED BY <2>2, <2>3
<1> QED BY <1>1, <1>2 DEF Next

(* The steps the history calls applied, and no others, were applied, once  *)
(* each but for those a crash struck before their result was stored; and a *)
(* scan was run again, or was not, where the entry says so (harness.py,    *)
(* steward_run; tools.py, apply_remediation).                              *)
THEOREM EffectsAreExact == Spec => []AppliedExactlyOnce
<1>1. Spec => []CountInv
  BY InitCounted, StepCounted, PTL DEF Spec
<1> QED BY <1>1, InvCounts, PTL

=============================================================================
