----------------------------- MODULE MCObjectStore -----------------------------
\* The instance of ObjectStore that TLC checks.  Its run is about liveness too, and so
\* does without symmetry.
EXTENDS ObjectStore, TLC

================================================================================
