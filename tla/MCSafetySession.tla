-------------------------- MODULE MCSafetySession --------------------------
\* One signal at either threshold, between them, or just short of one; a hit
\* with a cry for help; and a breach, alone or on a probe.
EXTENDS SafetySession

Only(n, conf) == [Silent EXCEPT ![n] = conf]

\* Nothing that counts, and a signal the classifier may not assert.
Below ==
    [Silent EXCEPT !["probe"] = Med - 1, !["distress"] = Med - 1,
                   !["concurrent_turn"] = High]

Alone ==
    {Only("probe", Med), Only("self_harm", Med), Only("self_harm", High),
     Only("scam", 5500), Only("scam", High), Only("distress", 5500),
     Only("answer_policy_breach", High)}

Both == [Only("probe", Med) EXCEPT !["self_harm"] = High]

Worked == [Only("probe", High) EXCEPT !["answer_policy_breach"] = High]

\* A breach that only rounding takes to the threshold.
Short == [Only("probe", Med) EXCEPT !["answer_policy_breach"] = High - 4]

MCVerdicts == {Below, Both, Worked, Short} \cup Alone

=============================================================================
