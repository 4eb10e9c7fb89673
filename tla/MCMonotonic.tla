---------------------------- MODULE MCMonotonic -----------------------------
EXTENDS Monotonic
MCForeign == {Block(40, 2), Block(Start + Size, 1)}
=============================================================================
