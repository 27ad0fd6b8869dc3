--------------------------- MODULE MCAccountSync ---------------------------
(* Bounded instance of AccountSync: two payloads that put an account in    *)
(* different pools.                                                        *)
EXTENDS AccountSync, TLC

CONSTANTS inBasic, inSuper, basic, super

MCContent == {inBasic, inSuper}
MCPool    == {basic, super}
MCPoolOf  == inBasic :> basic @@ inSuper :> super
=============================================================================
