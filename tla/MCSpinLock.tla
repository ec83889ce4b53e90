----------------------------- MODULE MCSpinLock -----------------------------
\* Four threads: one inside, one about to exchange, two spinning.
EXTENDS SpinLock
=============================================================================
