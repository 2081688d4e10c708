----------------------------- MODULE MCShutdown -----------------------------
EXTENDS Shutdown, TLC

\* Two workers of the first call, one of the second.
CONSTANTS w1, w2, w3, h1, h2
MCHashOf == (w1 :> h1) @@ (w2 :> h1) @@ (w3 :> h2)
=============================================================================
