------------------------------- MODULE MCRelays -------------------------------
(* Two relays of the user's and a public one; every kind of change between *)
(* settings: a relay, a token, the policy.                                 *)
EXTENDS Relays, TLC

CONSTANTS public, r1, r2, token

Choices ==
    {[servers |-> s, mode |-> m] :
        s \in {r1 :> NoToken, r1 :> token, r2 :> NoToken}, m \in {"preferred", "only"}}

MCSettings ==
    {Default} \union
    (Choices \ {[servers |-> r2 :> NoToken, mode |-> "preferred"], [servers |-> r1 :> NoToken, mode |-> "only"]})
=============================================================================
