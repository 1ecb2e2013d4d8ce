-------------------------- MODULE MCControlPlane --------------------------
\* One principal's attacks in production and in development, with different
\* detectors of one class, a session locked and an anomaly; two emitters
\* claim the wrong environment.
EXTENDS ControlPlane, TLC

MCEmissions ==
    {ArmorBlock("prod", "dev", "prompt", "p1", {"pi_and_jailbreak", "rai"}),
     ArmorBlock("dev", "dev", "prompt", "p1", {"pi_and_jailbreak"}),
     SafetySignal("dev", "prod", "locked", "p1", "s1", "security",
                  {"session_quarantine"}),
     Anomaly("prod", "unscreened_rate")}

Symmetry == Permutations(Events)
=============================================================================
