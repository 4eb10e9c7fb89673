------------------------------ MODULE MCStack -------------------------------
EXTENDS Stack
MCForeign == {Block(40, 2), Block(Start + Size, 1)}
=============================================================================
