---------------------------- MODULE MCRateLimiter ----------------------------
(* Small instances of RateLimiter for TLC. *)
EXTENDS RateLimiter, TLC

CONSTANTS ann, bob, org

\* Two members of one organisation.
MCKeys == {ann, bob, org}
MCLimit == ann :> 2 @@ bob :> 1 @@ org :> 2
MCChain == ann :> <<ann, org>> @@ bob :> <<bob, org>>
=============================================================================
