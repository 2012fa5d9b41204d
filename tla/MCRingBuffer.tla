---------------------------- MODULE MCRingBuffer -----------------------------
\* A ring of three bytes and calls of up to four: every wrap-around, and writes
\* that fit, that fill the ring and that do not fit.
EXTENDS RingBuffer
=============================================================================
