--------------------------- MODULE MCAccountSyncRedis ---------------------------
(* Bounded instance of AccountSyncRedis: two payloads that put an account in    *)
(* different pools.                                                        *)
EXTENDS AccountSyncRedis, TLC

CONSTANTS inBasic, inSuper, basic, super

MCContent == {inBasic, inSuper}
MCPool    == {basic, super}
MCPoolOf  == inBasic :> basic @@ inSuper :> super
=============================================================================
