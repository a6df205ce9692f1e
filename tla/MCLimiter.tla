----------------------------- MODULE MCLimiter -----------------------------
(* Settings of Limiter for TLC: a token is two units, so that a rate may be    *)
(* less than one token per tick; the steps of the burst are scaled down.       *)
EXTENDS Limiter

MCRates == {-1, 0, 1}

MCBurstSteps == {<<2, 2>>}
=============================================================================
