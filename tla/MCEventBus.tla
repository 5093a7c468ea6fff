----------------------------- MODULE MCEventBus -----------------------------
EXTENDS EventBus
CONSTANTS s1, s2

MCSubscribers == {s1, s2}
=============================================================================
