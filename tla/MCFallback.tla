----------------------------- MODULE MCFallback -----------------------------
EXTENDS Fallback
MCForeign == [p : BackAddresses, n : Sizes]
=============================================================================
