-------------------------- MODULE AccountSyncRedis --------------------------
(***************************************************************************)
(* The account repository on Redis, under the same workers.                *)
(*                                                                         *)
(* Redis has no transaction around a write: INCR takes the new revision    *)
(* first, then each token's hash is written and after it the token's       *)
(* score in the accounts:rev log, one command at a time.  scan_changes     *)
(* reads the counter, then the log.  `changed` is the log here: the score  *)
(* by which a scan finds a token.  replace_pool is delete_accounts         *)
(* followed by upsert_accounts: two mutations.                             *)
(***************************************************************************)
EXTENDS AccountSync

VARIABLE writes  \* the mutations in progress, each between its commands

redisVars == <<vars, writes>>

Kind == {"upsert", "patch", "delete"}

(* A mutation: its revision, the tokens it has still to write, and the     *)
(* token whose hash is written but whose score is not.                     *)
Mutation == [kind : Kind, rev : 1..MaxRevision, content : Content,
             todo : SUBSET Token, logging : SUBSET Token]

RedisInit == backend = "redis" /\ EmptyStart /\ writes = {}

(* _bump_revision: INCR, before anything is written.                       *)
BeginMutation(kind, S, c) ==
    /\ S # {}
    /\ Bump(1)
    /\ writes' = writes \cup
         {[kind |-> kind, rev |-> revision + 1, content |-> c,
           todo |-> S, logging |-> {}]}
    /\ UNCHANGED <<backend, row, changed, replacing, workerVars>>

Advance(m, next) == writes' = (writes \ {m}) \cup {next}

(* HSET of one token's hash.                                               *)
WriteHash(m, t) ==
    /\ m.logging = {}
    /\ t \in m.todo
    /\ \/ m.kind = "upsert"
       \/ m.kind = "patch" /\ row[t] # NoRow
       \/ m.kind = "delete" /\ Live(t)
    /\ row' = [row EXCEPT ![t] = IF m.kind = "delete" THEN Gone
                                 ELSE IF m.kind = "patch" /\ @ = Gone THEN Gone
                                 ELSE m.content]
    /\ Advance(m, [m EXCEPT !.todo = @ \ {t}, !.logging = {t}])
    /\ UNCHANGED <<backend, revision, changed, replacing, workerVars>>

(* A token that patch or delete finds no (live) record for.                *)
SkipToken(m, t) ==
    /\ m.logging = {}
    /\ t \in m.todo
    /\ \/ m.kind = "patch" /\ row[t] = NoRow
       \/ m.kind = "delete" /\ ~Live(t)
    /\ Advance(m, [m EXCEPT !.todo = @ \ {t}])
    /\ UNCHANGED vars

(* ZADD of its score.                                                      *)
LogRevision(m, t) ==
    /\ t \in m.logging
    /\ changed' = [changed EXCEPT ![t] = m.rev]
    /\ Advance(m, [m EXCEPT !.logging = {}])
    /\ UNCHANGED <<backend, revision, row, replacing, workerVars>>

EndMutation(m) ==
    /\ m.todo = {} /\ m.logging = {}
    /\ writes' = writes \ {m}
    /\ UNCHANGED vars

RedisWrite ==
    \/ \E kind \in Kind, S \in SUBSET Token, c \in Content :
          BeginMutation(kind, S, c)
    \/ \E m \in writes :
          \/ \E t \in Token : WriteHash(m, t) \/ SkipToken(m, t)
                              \/ LogRevision(m, t)
          \/ EndMutation(m)

RedisNext == RedisWrite \/ \E w \in Worker : WorkerStep(w) /\ UNCHANGED writes

(* A mutation that has begun goes on: every command is answered.           *)
RedisFairness ==
    /\ SyncFairness
    /\ WF_redisVars(\E m \in writes :
                       \/ \E t \in Token : WriteHash(m, t) \/ SkipToken(m, t)
                                           \/ LogRevision(m, t)
                       \/ EndMutation(m))

RedisFairSpec == RedisInit /\ [][RedisNext]_redisVars /\ RedisFairness
=============================================================================
