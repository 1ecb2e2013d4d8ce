---------------------------- MODULE ControlEvent ----------------------------
(***************************************************************************)
(* The control-event envelope (src/ui/control_events.py): which detectors  *)
(* fired, the key events correlate on, and what the dispatch workflow and  *)
(* the log sinks read off an entry.  An entry carries the Cloud Run service *)
(* it was logged from, None outside Cloud Run, and the environment its     *)
(* emitter claims; the names of a service are its environment here.        *)
(***************************************************************************)
EXTENDS Naturals, FiniteSets

CONSTANTS Envs, None

ASSUME NoneAssumption == None \notin Envs

Security == {"pi_and_jailbreak", "malicious_uris"}
Privacy == {"sdp"}
Content == {"rai"}

\* The most serious class with a detector that fired.
FilterClass(filters) ==
    IF filters \cap Security # {} THEN "security"
    ELSE IF filters \cap Privacy # {} THEN "privacy"
    ELSE IF filters \cap Content # {} THEN "content"
    ELSE "unclassified"

Envelope(service, claimed, log, key, filters) ==
    [service |-> service, claimed |-> claimed, log |-> log, key |-> key,
     filters |-> filters]

\* emit_armor_block: one key per principal and detector class.
ArmorBlock(service, claimed, direction, principal, filters) ==
    Envelope(service, claimed, "stdout",
             <<"model_armor", direction, principal, FilterClass(filters)>>,
             filters)

\* emit_safety_signal: one key per principal, session and class.
SafetySignal(service, claimed, control, principal, session, cls, filters) ==
    Envelope(service, claimed, "stdout",
             <<"conversation_safety", control, principal, session, cls>>,
             filters)

\* The population anomaly: logged by a scheduled job through the API, into a
\* log of its own, from no service.
Anomaly(claimed, metric) ==
    Envelope(None, claimed, "anomaly",
             <<"conversation_safety", metric>>, {metric})

\* Mutation: a project's sink without its environment predicate.
EverySink(entry, env) == env \in Envs

\* sink_filter, the same for the evidence and the notification sink.
SinkFilter(entry, env) ==
    \/ entry.service = env
    \/ entry.service = None /\ entry.claimed = env

\* env_from_resource_identity
EnvironmentOf(entry) ==
    IF entry.service # None THEN entry.service ELSE entry.claimed

Elevating == Security \cup Privacy \cup
    {"session_quarantine", "self_harm", "scam_victim",
     "third_party_coercion", "answer_policy_breach"}

\* derive_severity: 2 Major, 3 Minor, 4 Warning.
SeverityOf(entry) ==
    IF EnvironmentOf(entry) # "prod" THEN 4
    ELSE IF entry.filters \cap Elevating # {} THEN 2 ELSE 3
=============================================================================
