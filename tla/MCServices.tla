----------------------------- MODULE MCServices -----------------------------
(***************************************************************************)
(* The services around the API, the RPC pool and the liveness of the dead  *)
(* letter queue, one after the other: part says whose behaviour this is,   *)
(* the rest stay in their initial states, where no fair action of theirs   *)
(* is enabled.                                                             *)
(***************************************************************************)
EXTENDS ConcurrentLimiter, Migrations, CacheLayer, KeysetPages, RpcFailover,
        DeadLetterQueue

VARIABLE part

servicesVars == <<limiterVars, migrationVars, cacheVars, keysetVars, poolVars, vars, part>>

TwoFiles == <<<<[online |-> TRUE, size |-> 2], [online |-> FALSE, size |-> 2]>>,
              <<[online |-> FALSE, size |-> 1], [online |-> TRUE, size |-> 2]>>>>

ServicesInit ==
    /\ part \in {"limiter", "migrations", "cache", "pages", "pool", "queue"}
    /\ LimiterInit /\ MigrationsInit /\ CacheInit /\ KeysetInit /\ FailoverInit /\ Init
    /\ part # "pages" => feed = {}

ServicesNext ==
    /\ UNCHANGED part
    /\ IF part = "limiter"    THEN LimiterNext    ELSE UNCHANGED limiterVars
    /\ IF part = "migrations" THEN MigrationsNext ELSE UNCHANGED migrationVars
    /\ IF part = "cache"      THEN CacheNext      ELSE UNCHANGED cacheVars
    /\ IF part = "pages"      THEN KeysetNext     ELSE UNCHANGED keysetVars
    /\ IF part = "pool"       THEN FailoverNext   ELSE UNCHANGED poolVars
    /\ IF part = "queue"      THEN Next           ELSE UNCHANGED vars

ServicesSpec ==
    ServicesInit /\ [][ServicesNext]_servicesVars /\ CacheFairness /\ QueueFairness

ServicesTypeOK ==
    LimiterTypeOK /\ MigrationsTypeOK /\ CacheTypeOK /\ KeysetTypeOK /\ FailoverTypeOK /\ TypeOK
=============================================================================
