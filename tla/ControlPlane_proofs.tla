------------------------- MODULE ControlPlane_proofs -------------------------
(***************************************************************************)
(* Why a control event reaches the planes of its own environment only, and *)
(* why an execution's colour can be believed, for any events, emissions,   *)
(* retries, deliveries, faults and clock: the environment of a message is  *)
(* that of its event, an execution carries a published message, a row      *)
(* comes from an execution, and without a fault an execution is one of a   *)
(* kind and posts once.                                                    *)
(***************************************************************************)
EXTENDS ControlPlane, FiniteSetTheorems, TLAPS

Executing == [stage : Stages, try : Nat]

\* What the argument needs of the types.
Shapes ==
    /\ event = [e \in Events |-> event[e]]
    /\ message = [m \in Events \X Envs |-> message[m]]
    /\ execution \in [Carriers -> Executing]
    /\ faults \in Nat
    /\ evidence \subseteq Events \X Envs
    /\ undelivered \subseteq Carriers

CarrierOf(r) == <<r.event, r.env, r.delivery>>

Belongs(e, env) == event[e] # None /\ env = HappenedIn(event[e].entry)

SinksKeepApart ==
    /\ \A e \in Events, env \in Envs :
          <<e, env>> \in evidence => Belongs(e, env)
    /\ \A e \in Events, env \in Envs :
          message[<<e, env>>] # "none" => Belongs(e, env)

ExecutionsCarry ==
    \A e \in Events, env \in Envs, d \in 1 .. MaxDeliveries :
        execution[<<e, env, d>>].stage # "none" =>
            message[<<e, env>>] = "published"

RowsComeFromExecutions ==
    \A r \in rows : /\ CarrierOf(r) \in Carriers
                    /\ execution[CarrierOf(r)].stage # "none"

\* Before the first fault: no repeated message, and no POST but the one that
\* was answered.
OnceEach ==
    faults = 0 =>
        /\ \A c \in Carriers : execution[c].stage # "none" => c[3] = 1
        /\ \A r \in rows : execution[CarrierOf(r)].stage # "post"
        /\ \A r, s \in rows : CarrierOf(r) = CarrierOf(s) => r = s

ColoursAreTrue ==
    \A c \in Carriers :
        /\ execution[c].stage = "succeeded" =>
              \E r \in rows : CarrierOf(r) = c
        /\ execution[c].stage = "failed" => c \in undelivered

PlaneInv ==
    /\ Shapes
    /\ SinksKeepApart
    /\ ExecutionsCarry
    /\ RowsComeFromExecutions
    /\ OnceEach
    /\ ColoursAreTrue

(* Nothing has happened at the start.                                      *)
LEMMA InitPlane == Init => PlaneInv
<1> SUFFICES ASSUME Init PROVE PlaneInv
  OBVIOUS
<1>1. \A c \in Carriers : execution[c] = [stage |-> "none", try |-> 0]
  BY DEF Init
<1>2. Shapes
  BY DEF Init, Shapes, Executing, Stages
<1>3. SinksKeepApart
  BY DEF Init, SinksKeepApart
<1>4. ExecutionsCarry
  BY <1>1 DEF ExecutionsCarry, Carriers
<1>5. RowsComeFromExecutions /\ OnceEach /\ ColoursAreTrue
  BY <1>1 DEF Init, RowsComeFromExecutions, OnceEach, ColoursAreTrue
<1> QED BY <1>2, <1>3, <1>4, <1>5 DEF PlaneInv

(* A sink's filter admits an entry only of its own environment.            *)
LEMMA FilterKeepsApart ==
    ASSUME NEW e \in Events, NEW env \in Envs, event[e] # None,
           SinkFilter(event[e].entry, env)
    PROVE  Belongs(e, env)
  BY NoneAssumption DEF SinkFilter, Belongs, HappenedIn

(* The severity at which ServiceNow opens incidents is production's.       *)
LEMMA SeverityIsProductions ==
    \A entry : SeverityOf(entry) < 4 <=> HappenedIn(entry) = "prod"
  BY DEF SeverityOf, EnvironmentOf, HappenedIn

(* The invariant gives both properties.                                    *)
LEMMA InvOwnPlane == PlaneInv => EachEventOnItsOwnPlane
<1> SUFFICES ASSUME PlaneInv PROVE EachEventOnItsOwnPlane
  OBVIOUS
<1>1. \A x \in evidence : x[2] = HappenedIn(event[x[1]].entry)
  BY DEF PlaneInv, Shapes, SinksKeepApart, Belongs
<1>2. ASSUME NEW r \in rows
      PROVE  /\ r.event \in Events
             /\ r.env = HappenedIn(event[r.event].entry)
             /\ r.delivery \in 1 .. MaxDeliveries
  <2>1. /\ r.event \in Events /\ r.env \in Envs
        /\ r.delivery \in 1 .. MaxDeliveries
        /\ execution[CarrierOf(r)].stage # "none"
    BY DEF PlaneInv, RowsComeFromExecutions, Carriers, CarrierOf
  <2>2. message[<<r.event, r.env>>] # "none"
    BY <2>1 DEF PlaneInv, ExecutionsCarry, CarrierOf
  <2> QED BY <2>1, <2>2 DEF PlaneInv, SinksKeepApart, Belongs
<1>3. ASSUME NEW r \in rows, NEW s \in rows, faults = 0,
             s.event = r.event
      PROVE  s = r
  <2>1. r.env = s.env
    BY <1>2, <1>3
  <2>2. r.delivery = 1 /\ s.delivery = 1
    BY <1>3 DEF PlaneInv, RowsComeFromExecutions, OnceEach, CarrierOf
  <2> QED BY <2>1, <2>2, <1>3 DEF PlaneInv, OnceEach, CarrierOf
<1> QED BY <1>1, <1>2, <1>3, SeverityIsProductions
        DEF EachEventOnItsOwnPlane

LEMMA InvNoSilentDrop == PlaneInv => NoSilentDrop
  BY DEF PlaneInv, ColoursAreTrue, NoSilentDrop, CarrierOf

(* A control point writes a line no plane has yet.                         *)
LEMMA EmitPlane ==
    ASSUME PlaneInv, NEW e \in Events, NEW entry \in Emissions,
           Emit(e, entry)
    PROVE  PlaneInv'
<1>1. /\ event[e] = None
      /\ event' = [event EXCEPT ![e] = [entry |-> entry, at |-> clock]]
      /\ UNCHANGED <<evidence, message, execution, rows, undelivered, faults>>
  BY DEF Emit
<1>2. Shapes'
  BY <1>1 DEF PlaneInv, Shapes
<1>3. \A f \in Events, env \in Envs : Belongs(f, env) => Belongs(f, env)'
  BY <1>1 DEF Belongs, PlaneInv, Shapes
<1>4. SinksKeepApart'
  BY <1>1, <1>3 DEF PlaneInv, SinksKeepApart
<1>5. (/\ ExecutionsCarry /\ RowsComeFromExecutions /\ OnceEach
       /\ ColoursAreTrue)'
  BY <1>1 DEF PlaneInv, ExecutionsCarry, RowsComeFromExecutions, OnceEach,
              ColoursAreTrue, CarrierOf
<1> QED BY <1>2, <1>4, <1>5 DEF PlaneInv

(* The sinks.                                                              *)
LEMMA SinkPlane ==
    ASSUME PlaneInv, NEW e \in Events, NEW env \in Envs,
           SinkEvidence(e, env) \/ SinkNotify(e, env)
    PROVE  PlaneInv'
<1>1. /\ event[e] # None /\ SinkFilter(event[e].entry, env)
      /\ UNCHANGED <<event, execution, rows, undelivered>>
      /\ faults' \in Nat /\ (faults' = 0 => faults = 0)
  BY DEF SinkEvidence, SinkNotify, Fault, PlaneInv, Shapes
<1>2. \/ evidence' = evidence \cup {<<e, env>>} /\ UNCHANGED message
      \/ /\ UNCHANGED evidence
         /\ message[<<e, env>>] = "none"
         /\ \/ message' = [message EXCEPT ![<<e, env>>] = "published"]
            \/ message' = [message EXCEPT ![<<e, env>>] = "lost"]
  BY DEF SinkEvidence, SinkNotify
<1>3. Belongs(e, env)
  BY <1>1, FilterKeepsApart
<1>4. Shapes'
  BY <1>1, <1>2 DEF PlaneInv, Shapes
<1>5. ASSUME NEW f \in Events, NEW en \in Envs
      PROVE  /\ <<f, en>> \in evidence' => Belongs(f, en)'
             /\ message'[<<f, en>>] # "none" => Belongs(f, en)'
             /\ message[<<f, en>>] = "published" =>
                   message'[<<f, en>>] = "published"
  <2>1. Belongs(f, en) <=> Belongs(f, en)'
    BY <1>1 DEF Belongs
  <2>2. CASE <<f, en>> = <<e, env>>
    <3>1. f = e /\ en = env
      BY <2>2
    <3> QED BY <3>1, <2>1, <1>2, <1>3
  <2>3. CASE <<f, en>> # <<e, env>>
    <3> DEFINE m == <<f, en>>
               n == <<e, env>>
    <3>1. m # n /\ m \in Events \X Envs
      BY <2>3
    <3>2. /\ m \in evidence => Belongs(f, en)
          /\ message[m] # "none" => Belongs(f, en)
      BY DEF PlaneInv, SinksKeepApart
    <3> HIDE DEF m, n
    <3>3. /\ m \in evidence' => m \in evidence
          /\ message'[m] = message[m]
      BY <3>1, <1>2 DEF n, PlaneInv, Shapes
    <3> QED BY <3>2, <3>3, <2>1 DEF m
  <2> QED BY <2>2, <2>3
<1>6. SinksKeepApart' /\ ExecutionsCarry'
  BY <1>1, <1>5 DEF PlaneInv, SinksKeepApart, ExecutionsCarry
<1>7. (RowsComeFromExecutions /\ OnceEach /\ ColoursAreTrue)'
  BY <1>1 DEF PlaneInv, RowsComeFromExecutions, OnceEach, ColoursAreTrue,
              CarrierOf
<1> QED BY <1>4, <1>5, <1>6, <1>7 DEF PlaneInv

(* An execution starts, or dies on its credentials.                        *)
LEMMA DeliverPlane ==
    ASSUME PlaneInv, NEW e \in Events, NEW env \in Envs,
           NEW d \in 1 .. MaxDeliveries, Deliver(e, env, d)
    PROVE  PlaneInv'
<1> DEFINE c == <<e, env, d>>
<1>1. /\ message[<<e, env>>] = "published"
      /\ execution[c].stage = "none"
      /\ UNCHANGED <<event, evidence, message, rows, undelivered>>
  BY DEF Deliver
<1>2. c \in Carriers /\ c[1] = e /\ c[2] = env /\ c[3] = d
  BY DEF Carriers
<1>3. PICK stage \in {"post", "died"} :
         /\ execution' = [execution EXCEPT ![c].stage = stage]
         /\ faults' \in Nat /\ (faults' = 0 => faults = 0 /\ d = 1)
  BY DEF Deliver, Goes, Fault, PlaneInv, Shapes
<1>4. /\ execution' \in [Carriers -> Executing]
      /\ execution'[c].stage = stage
      /\ \A b \in Carriers \ {c} : execution'[b] = execution[b]
  BY <1>2, <1>3 DEF PlaneInv, Shapes, Executing, Stages
<1>5. \A r \in rows : CarrierOf(r) # c /\ CarrierOf(r) \in Carriers
  BY <1>1 DEF PlaneInv, RowsComeFromExecutions
<1> HIDE DEF c
<1>6. Shapes'
  BY <1>1, <1>3, <1>4 DEF PlaneInv, Shapes
<1>7. SinksKeepApart'
  BY <1>1 DEF PlaneInv, SinksKeepApart, Belongs
<1>8. ExecutionsCarry'
  <2> SUFFICES ASSUME NEW f \in Events, NEW en \in Envs,
                      NEW n \in 1 .. MaxDeliveries,
                      execution'[<<f, en, n>>].stage # "none"
               PROVE  message'[<<f, en>>] = "published"
    BY DEF ExecutionsCarry
  <2>1. <<f, en, n>> \in Carriers
    BY DEF Carriers
  <2>2. CASE <<f, en, n>> = c
    BY <2>2, <1>1 DEF c
  <2>3. CASE <<f, en, n>> # c
    BY <2>1, <2>3, <1>1, <1>4 DEF PlaneInv, ExecutionsCarry
  <2> QED BY <2>2, <2>3
<1>9. RowsComeFromExecutions'
  BY <1>1, <1>4, <1>5 DEF PlaneInv, RowsComeFromExecutions, CarrierOf
<1>10. OnceEach'
  BY <1>1, <1>2, <1>3, <1>4, <1>5 DEF PlaneInv, OnceEach, CarrierOf
<1>11. ColoursAreTrue'
  BY <1>1, <1>3, <1>4, <1>5 DEF PlaneInv, ColoursAreTrue, CarrierOf
<1> QED BY <1>6, <1>7, <1>8, <1>9, <1>10, <1>11 DEF PlaneInv

(* A POST that was answered leaves its row; one that raised is a fault.    *)
LEMMA PostPlane ==
    ASSUME PlaneInv, NEW c \in Carriers, PostEvent(c)
    PROVE  PlaneInv'
<1>1. /\ execution[c].stage = "post"
      /\ UNCHANGED <<event, evidence, message, undelivered>>
  BY DEF PostEvent
<1>2. CarrierOf(Written(c)) = c
  BY DEF CarrierOf, Written, Carriers
<1>3. /\ rows' = rows \cup {Written(c)} \/ rows' = rows
      /\ faults' \in Nat
      /\ faults' = 0 => faults = 0 /\ rows' = rows \cup {Written(c)}
      /\ \/ /\ execution' = [execution EXCEPT ![c].stage = "succeeded"]
            /\ rows' = rows \cup {Written(c)}
         \/ /\ execution' = [execution EXCEPT ![c].stage = "log"]
            /\ faults' # 0
         \/ /\ execution' = [execution EXCEPT ![c].try = @ + 1]
            /\ faults' # 0
  BY DEF PostEvent, Goes, Verdict, Fault, PlaneInv, Shapes
<1>4. /\ execution' \in [Carriers -> Executing]
      /\ execution'[c].stage \in {"succeeded", "log", "post"}
      /\ execution'[c].stage = "succeeded" => Written(c) \in rows'
      /\ faults' = 0 => execution'[c].stage = "succeeded"
      /\ \A b \in Carriers \ {c} : execution'[b] = execution[b]
  <2> DEFINE x == execution[c]
  <2>1. x \in Executing /\ x.stage = "post"
    BY <1>1 DEF PlaneInv, Shapes
  <2> HIDE DEF x
  <2>2. /\ [x EXCEPT !.stage = "succeeded"] \in Executing
        /\ [x EXCEPT !.stage = "succeeded"].stage = "succeeded"
        /\ [x EXCEPT !.stage = "log"] \in Executing
        /\ [x EXCEPT !.stage = "log"].stage = "log"
        /\ [x EXCEPT !.try = @ + 1] \in Executing
        /\ [x EXCEPT !.try = @ + 1].stage = "post"
    BY <2>1 DEF Executing, Stages
  <2>3. PICK y \in Executing :
           /\ execution' = [execution EXCEPT ![c] = y]
           /\ \/ y.stage = "succeeded" /\ Written(c) \in rows'
              \/ y.stage \in {"log", "post"} /\ faults' # 0
    BY <1>3, <2>2 DEF x
  <2> QED BY <2>3 DEF PlaneInv, Shapes
<1>5. \A r \in rows' : r \in rows \/ r = Written(c)
  BY <1>3
<1>6. Shapes'
  BY <1>1, <1>3, <1>4 DEF PlaneInv, Shapes
<1>7. SinksKeepApart'
  BY <1>1 DEF PlaneInv, SinksKeepApart, Belongs
<1>8. ExecutionsCarry'
  <2> SUFFICES ASSUME NEW f \in Events, NEW en \in Envs,
                      NEW n \in 1 .. MaxDeliveries,
                      execution'[<<f, en, n>>].stage # "none"
               PROVE  message'[<<f, en>>] = "published"
    BY DEF ExecutionsCarry
  <2>1. <<f, en, n>> \in Carriers
    BY DEF Carriers
  <2>2. execution[<<f, en, n>>].stage # "none"
    BY <2>1, <1>1, <1>4
  <2> QED BY <2>2, <1>1 DEF PlaneInv, ExecutionsCarry
<1>9. RowsComeFromExecutions'
  <2> SUFFICES ASSUME NEW r \in rows'
               PROVE  /\ CarrierOf(r) \in Carriers
                      /\ execution'[CarrierOf(r)].stage # "none"
    BY DEF RowsComeFromExecutions, CarrierOf
  <2> QED BY <1>2, <1>4, <1>5 DEF PlaneInv, RowsComeFromExecutions
<1>10. OnceEach'
  <2> SUFFICES ASSUME faults' = 0
               PROVE  OnceEach'
    BY DEF OnceEach
  <2>1. /\ faults = 0 /\ execution'[c].stage = "succeeded"
    BY <1>3, <1>4
  <2>2. \A b \in Carriers : execution'[b].stage # "none" => b[3] = 1
    BY <2>1, <1>1, <1>4 DEF PlaneInv, OnceEach
  <2>3. \A r \in rows : CarrierOf(r) # c /\ CarrierOf(r) \in Carriers
    BY <2>1, <1>1 DEF PlaneInv, OnceEach, RowsComeFromExecutions
  <2>4. \A r \in rows' : execution'[CarrierOf(r)].stage # "post"
    BY <2>1, <2>3, <1>2, <1>4, <1>5 DEF PlaneInv, OnceEach
  <2>5. \A r, s \in rows' : CarrierOf(r) = CarrierOf(s) => r = s
    BY <2>1, <2>3, <1>2, <1>5 DEF PlaneInv, OnceEach
  <2> QED BY <2>2, <2>4, <2>5 DEF OnceEach, CarrierOf
<1>11. ColoursAreTrue'
  <2> SUFFICES ASSUME NEW b \in Carriers
               PROVE  /\ execution'[b].stage = "succeeded" =>
                            \E r \in rows' : CarrierOf(r) = b
                      /\ execution'[b].stage = "failed" => b \in undelivered'
    BY DEF ColoursAreTrue, CarrierOf
  <2>1. CASE b = c
    BY <2>1, <1>2, <1>4
  <2>2. CASE b # c
    BY <2>2, <1>1, <1>3, <1>4 DEF PlaneInv, ColoursAreTrue
  <2> QED BY <2>1, <2>2
<1> QED BY <1>6, <1>7, <1>8, <1>9, <1>10, <1>11 DEF PlaneInv

(* An execution fails only after its entry is in the log.                  *)
LEMMA LogPlane ==
    ASSUME PlaneInv, NEW c \in Carriers, LogUndelivered(c)
    PROVE  PlaneInv'
<1>1. /\ execution[c].stage = "log"
      /\ UNCHANGED <<event, evidence, message, rows>>
      /\ faults' \in Nat /\ (faults' = 0 => faults = 0)
  <2>1. /\ execution[c].stage = "log"
        /\ UNCHANGED <<event, evidence, message, rows>>
        /\ faults' = faults \/ faults' = faults + 1
    BY DEF LogUndelivered, Fault
  <2> QED BY <2>1 DEF PlaneInv, Shapes
<1>2. PICK stage \in {"failed", "died"} :
         /\ execution' = [execution EXCEPT ![c].stage = stage]
         /\ undelivered \subseteq undelivered'
         /\ undelivered' \subseteq Carriers
         /\ stage = "failed" => c \in undelivered'
  BY DEF LogUndelivered, Goes, Verdict, PlaneInv, Shapes
<1>3. /\ execution' \in [Carriers -> Executing]
      /\ execution'[c].stage = stage
      /\ \A b \in Carriers \ {c} : execution'[b] = execution[b]
  BY <1>2 DEF PlaneInv, Shapes, Executing, Stages
<1>4. Shapes'
  BY <1>1, <1>2, <1>3 DEF PlaneInv, Shapes
<1>5. SinksKeepApart'
  BY <1>1 DEF PlaneInv, SinksKeepApart, Belongs
<1>6. ExecutionsCarry'
  BY <1>1, <1>3 DEF PlaneInv, ExecutionsCarry, Carriers
<1>7. RowsComeFromExecutions'
  BY <1>1, <1>2, <1>3 DEF PlaneInv, RowsComeFromExecutions, CarrierOf
<1>8. OnceEach'
  BY <1>1, <1>2, <1>3
     DEF PlaneInv, OnceEach, RowsComeFromExecutions, CarrierOf
<1>9. ColoursAreTrue'
  BY <1>1, <1>2, <1>3 DEF PlaneInv, ColoursAreTrue, CarrierOf
<1> QED BY <1>4, <1>5, <1>6, <1>7, <1>8, <1>9 DEF PlaneInv

(* Every step; the clock and the job that compares change neither plane.   *)
LEMMA StepPlane == PlaneInv /\ [Next]_vars => PlaneInv'
<1> SUFFICES ASSUME PlaneInv, [Next]_vars PROVE PlaneInv'
  OBVIOUS
<1>1. CASE \/ UNCHANGED vars \/ Tick \/ Reconcile
           \/ \E env \in Envs : ReadEvidence(env)
  <2>1. UNCHANGED <<event, evidence, message, execution, rows, undelivered,
                    faults>>
    BY <1>1 DEF vars, Tick, Reconcile, ReadEvidence
  <2> QED BY <2>1
          DEF PlaneInv, Shapes, SinksKeepApart, Belongs, ExecutionsCarry,
              RowsComeFromExecutions, OnceEach, ColoursAreTrue, CarrierOf
<1>2. ASSUME NEW e \in Events, NEW entry \in Emissions, Emit(e, entry)
      PROVE  PlaneInv'
  BY <1>2, EmitPlane
<1>3. ASSUME NEW e \in Events, NEW env \in Envs, Carry(e, env)
      PROVE  PlaneInv'
  BY <1>3, SinkPlane, DeliverPlane DEF Carry
<1>4. ASSUME NEW c \in Carriers, Dispatch(c)
      PROVE  PlaneInv'
  BY <1>4, PostPlane, LogPlane DEF Dispatch
<1> QED BY <1>1, <1>2, <1>3, <1>4 DEF Next

THEOREM PlaneAlwaysHolds == Spec => []PlaneInv
  BY InitPlane, StepPlane, PTL DEF Spec

(* An event leaves on the planes of its own environment, once while        *)
(* nothing goes wrong, and pages nobody outside production.                *)
THEOREM EventsStayOnTheirPlane == Spec => []EachEventOnItsOwnPlane
  BY PlaneAlwaysHolds, InvOwnPlane, PTL

(* A green execution has left its row and a red one its log entry.         *)
THEOREM DropsAreNeverSilent == Spec => []NoSilentDrop
  BY PlaneAlwaysHolds, InvNoSilentDrop, PTL

(***************************************************************************)
(* What the report is worth                                                *)
(***************************************************************************)
At(e) == event[e].at

\* When things were written, and what the job read of them.
Dated ==
    /\ clock \in Nat
    /\ \A e \in Events : event[e] # None => At(e) \in Nat /\ At(e) <= clock
    /\ \A r \in rows : /\ r.at \in Nat /\ r.at <= clock
                       /\ event[r.event] # None /\ At(r.event) <= r.at
    /\ job.stage = "read" =>
          /\ job.at \in Nat /\ job.at <= clock
          /\ job.seen \subseteq Events
          /\ \A e \in job.seen : /\ event[e] # None
                                 /\ At(e) + Window >= job.at

LEMMA InitDated == Init => Dated
  BY DEF Init, Dated, NoJob

(* Every step keeps the dates in order.                                    *)
LEMMA StepDated == PlaneInv /\ Dated /\ [Next]_vars => Dated'
<1> SUFFICES ASSUME PlaneInv, Dated, [Next]_vars PROVE Dated'
  OBVIOUS
<1> USE BoundAssumption
<1>1. CASE Tick
  <2>1. clock' = clock + 1 /\ UNCHANGED <<event, rows, job>>
    BY <1>1 DEF Tick
  <2> QED BY <2>1 DEF Dated, At
<1>2. ASSUME NEW e \in Events, NEW entry \in Emissions, Emit(e, entry)
      PROVE  Dated'
  <2> DEFINE new == [entry |-> entry, at |-> clock]
  <2>1. /\ event[e] = None /\ event' = [event EXCEPT ![e] = new]
        /\ UNCHANGED <<clock, rows, job>>
    BY <1>2 DEF Emit
  <2>2. new.at = clock
    OBVIOUS
  <2>3. \A r \in rows : r.event \in Events
    BY DEF PlaneInv, RowsComeFromExecutions, CarrierOf, Carriers
  <2> HIDE DEF new
  <2>4. /\ \A f \in Events : event[f] # None => event'[f] = event[f]
        /\ \A f \in Events : event'[f] = event[f] \/ event'[f] = new
    BY <2>1 DEF PlaneInv, Shapes
  <2>5. \A f \in Events : event'[f] # None => At(f)' \in Nat /\ At(f)' <= clock
    BY <2>2, <2>4 DEF Dated, At
  <2>6. \A r \in rows : event'[r.event] = event[r.event]
    BY <2>3, <2>4 DEF Dated
  <2>7. job.stage = "read" => \A f \in job.seen : event'[f] = event[f]
    BY <2>4 DEF Dated
  <2> QED BY <2>1, <2>5, <2>6, <2>7 DEF Dated, At
<1>3. ASSUME NEW c \in Carriers, PostEvent(c)
      PROVE  Dated'
  <2>1. /\ execution[c].stage = "post"
        /\ rows' \subseteq rows \cup {Written(c)}
        /\ UNCHANGED <<clock, event, job>>
    BY <1>3 DEF PostEvent
  <2>2. PICK e \in Events, env \in Envs, d \in 1 .. MaxDeliveries :
           c = <<e, env, d>>
    BY DEF Carriers
  <2>3. event[e] # None
    BY <2>1, <2>2 DEF PlaneInv, ExecutionsCarry, SinksKeepApart, Belongs
  <2>4. Written(c).event = e /\ Written(c).at = clock
    BY <2>2 DEF Written
  <2>5. \A r \in rows' : r \in rows \/ (r.event = e /\ r.at = clock)
    BY <2>1, <2>4
  <2> QED BY <2>1, <2>3, <2>5 DEF Dated, At
<1>4. ASSUME NEW env \in Envs, ReadEvidence(env)
      PROVE  Dated'
  <2> DEFINE seen == {e \in Events : /\ <<e, env>> \in evidence
                                     /\ event[e].entry.log = "stdout"
                                     /\ Recent(event[e].at)}
  <2>1. /\ job' = [stage |-> "read", env |-> env, at |-> clock,
                   seen |-> seen]
        /\ UNCHANGED <<clock, event, rows>>
    BY <1>4 DEF ReadEvidence
  <2>2. /\ seen \subseteq Events
        /\ \A e \in seen : event[e] # None /\ At(e) + Window >= clock
    BY DEF PlaneInv, SinksKeepApart, Belongs, Recent, At
  <2> HIDE DEF seen
  <2>3. job'.at = clock /\ job'.seen = seen
    BY <2>1
  <2> QED BY <2>1, <2>2, <2>3 DEF Dated, At
<1>5. CASE Reconcile
  <2>1. job'.stage = "reported" /\ UNCHANGED <<clock, event, rows>>
    BY <1>5 DEF Reconcile
  <2> QED BY <2>1 DEF Dated, At
<1>6. CASE \/ UNCHANGED vars
           \/ \E e \in Events, env \in Envs : Carry(e, env)
           \/ \E c \in Carriers : LogUndelivered(c)
  <2>1. UNCHANGED <<clock, event, rows, job>>
    BY <1>6 DEF vars, Carry, SinkEvidence, SinkNotify, Deliver, LogUndelivered
  <2> QED BY <2>1 DEF Dated, At
<1> QED BY <1>1, <1>2, <1>3, <1>4, <1>5, <1>6 DEF Next, Dispatch

(* More rows than events of one key: an event has two rows, or a row is of *)
(* an event that was not counted.                                          *)
LEMMA MoreRowsThanEvents ==
    ASSUME PlaneInv, Dated, job.stage = "read", NEW k,
           Received(k) > Fired(k)
    PROVE  \/ \E r, s \in rows : /\ KeyOf(r.event) = k
                                 /\ r.event = s.event /\ r # s
           \/ \E r \in rows : /\ KeyOf(r.event) = k
                              /\ r.event \notin job.seen
<1> DEFINE R == {r \in RecentRows : KeyOf(r.event) = k}
           E == {e \in job.seen : KeyOf(e) = k}
           f == [r \in R |-> r.event]
<1> SUFFICES ASSUME \A r, s \in rows :
                       KeyOf(r.event) = k /\ r.event = s.event => r = s,
                    \A r \in rows : KeyOf(r.event) = k => r.event \in job.seen
             PROVE  FALSE
  OBVIOUS
<1>1. R \subseteq rows
  BY DEF RecentRows
<1>2. f \in [R -> E]
  BY <1>1
<1>3. f \in Injection(R, E)
  BY <1>1, <1>2 DEF Injection, IsInjective
<1>4. E \in SUBSET Events
  BY DEF Dated
<1>5. IsFiniteSet(E)
  BY <1>4, EventsAssumption, FS_Subset
<1> HIDE DEF R, E, f
<1>6. /\ IsFiniteSet(R)
      /\ Cardinality(R) <= Cardinality(E)
  BY <1>3, <1>5, FS_Injection
<1>7. Cardinality(R) \in Nat /\ Cardinality(E) \in Nat
  BY <1>5, <1>6, FS_CardinalityType
<1> QED BY <1>6, <1>7 DEF R, E, Received, Fired

(* The report of one step says what ReportTellsTheTruth says it does.      *)
LEMMA StepReports ==
    ASSUME PlaneInv, Dated, [Next]_vars,
           job.stage = "read", job'.stage = "reported"
    PROVE  /\ \A e \in job.seen :
                 LET dropped == \A r \in rows : r.event # e IN
                 IF KeyOf(e) \in job'.dropped
                 THEN dropped \/ job.at < clock
                 ELSE dropped => \E r \in rows : KeyOf(r.event) = KeyOf(e)
           /\ \A k \in job'.duplicated :
                 \/ \E r, s \in rows : /\ KeyOf(r.event) = k
                                       /\ r.event = s.event /\ r # s
                 \/ \E r \in rows : /\ KeyOf(r.event) = k
                                    /\ r.event \notin job.seen
<1> DEFINE ev == {KeyOf(e) : e \in job.seen}
           sn == {KeyOf(r.event) : r \in RecentRows}
<1>1. Reconcile
  BY DEF Next, vars, Tick, Emit, Carry, SinkEvidence, SinkNotify, Deliver,
         Dispatch, PostEvent, LogUndelivered, ReadEvidence
<1>2. /\ job'.dropped = ev \ sn
      /\ job'.duplicated = {k \in ev \cap sn : Received(k) > Fired(k)}
  BY <1>1 DEF Reconcile
<1>3. ASSUME NEW e \in job.seen, NEW r \in rows, r.event = e,
             ~(job.at < clock)
      PROVE  KeyOf(e) \in sn
  <2>1. /\ clock \in Nat /\ job.at = clock /\ r.at \in Nat
        /\ At(e) \in Nat /\ At(e) <= r.at /\ At(e) + Window >= clock
    BY <1>3 DEF Dated
  <2>2. Recent(r.at)
    BY <2>1, BoundAssumption DEF Recent
  <2> QED BY <2>2, <1>3 DEF RecentRows
<1>4. ASSUME NEW e \in job.seen, KeyOf(e) \notin ev \ sn
      PROVE  \E r \in rows : KeyOf(r.event) = KeyOf(e)
  BY <1>4 DEF RecentRows
<1>5. \A k \in job'.duplicated : Received(k) > Fired(k)
  BY <1>2
<1> HIDE DEF ev, sn
<1>6. ASSUME NEW e \in job.seen
      PROVE  LET dropped == \A r \in rows : r.event # e IN
             IF KeyOf(e) \in job'.dropped
             THEN dropped \/ job.at < clock
             ELSE dropped => \E r \in rows : KeyOf(r.event) = KeyOf(e)
  BY <1>2, <1>3, <1>4
<1> QED BY <1>5, <1>6, MoreRowsThanEvents

(* A key reported dropped has no row, unless a tick fell between the two   *)
(* reads; a drop goes unreported only behind a row of its key; a key is    *)
(* reported duplicated only for cause (reconcile_controls.py).             *)
THEOREM ReportsAreTrue == Spec => ReportTellsTheTruth
<1>1. PlaneInv /\ Dated /\ [Next]_vars => PlaneInv' /\ Dated'
  BY StepPlane, StepDated
<1>2. PlaneInv /\ Dated /\ [Next]_vars =>
         [ (job.stage = "read" /\ job'.stage = "reported") =>
           /\ \A e \in job.seen :
                 LET dropped == \A r \in rows : r.event # e IN
                 IF KeyOf(e) \in job'.dropped
                 THEN dropped \/ job.at < clock
                 ELSE dropped => \E r \in rows : KeyOf(r.event) = KeyOf(e)
           /\ \A k \in job'.duplicated :
                 \/ \E r, s \in rows : /\ KeyOf(r.event) = k
                                       /\ r.event = s.event /\ r # s
                 \/ \E r \in rows : /\ KeyOf(r.event) = k
                                    /\ r.event \notin job.seen
         ]_vars
  BY StepReports
<1> QED BY <1>1, <1>2, InitPlane, InitDated, PTL DEF Spec, ReportTellsTheTruth
=============================================================================
