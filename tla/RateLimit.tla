----------------------------- MODULE RateLimit -----------------------------
(* The token bucket that ChatApp::HandleMessage keeps in every ChatSession.  *)
(* The code counts tokens in a double and refills one per second; here they  *)
(* are natural numbers of some unit, with CostUnits units to a token, so that *)
(* fractions of a token are values of the model too.                         *)
EXTENDS Naturals

CONSTANTS
    CapUnits,   \* the bucket's capacity, 60.0 tokens
    CostUnits   \* what one message costs, 1.0 token

ASSUME RateLimitAssumption ==
    /\ CapUnits \in Nat
    /\ CostUnits \in Nat \ {0}
    /\ CostUnits <= CapUnits

Tokens == 0..CapUnits

(* Slips: the bucket is filled up whenever time has passed, or the sum is    *)
(* compared with the capacity and then forgotten.                            *)
RefillWindow(tokens, elapsed) == IF elapsed > 0 THEN CapUnits ELSE tokens
RefillForgotten(tokens, elapsed) == IF tokens + elapsed > CapUnits THEN CapUnits ELSE tokens

Refill(tokens, elapsed) ==
    IF tokens + elapsed > CapUnits THEN CapUnits ELSE tokens + elapsed

TooFast(tokens) == tokens < CostUnits

Spend(tokens) == tokens - CostUnits
=============================================================================
