--------------------------- MODULE MCAccountSyncMySql ---------------------------
(* Bounded instance of AccountSyncMySql: two payloads that put an account in    *)
(* different pools.                                                        *)
EXTENDS AccountSyncMySql, TLC

CONSTANTS inBasic, inSuper, basic, super

MCContent == {inBasic, inSuper}
MCPool    == {basic, super}
MCPoolOf  == inBasic :> basic @@ inSuper :> super
=============================================================================
