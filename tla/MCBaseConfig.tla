------------------------------ MODULE MCBaseConfig ------------------------------
\* An instance of BaseConfig for TLC: all tasks share one process, and with it the
\* cache and the read in flight; the installer is the writer elsewhere.
EXTENDS BaseConfig

CONSTANTS p1, t1, t2

MCHome == [t \in {t1, t2} |-> p1]
================================================================================
