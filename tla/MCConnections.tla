---------------------------- MODULE MCConnections ----------------------------
(***************************************************************************)
(* The messages of a TCP connection and a redis connection share no state; *)
(* both are fair and are checked in one run.  The variable subject picks,  *)
(* once, the one whose steps are taken; the other stays in its initial     *)
(* state, where none of the actions its fairness is about is enabled.      *)
(***************************************************************************)
EXTENDS MCMsgStream

CONSTANTS RedisConns, Ctx, Opt, NULL, Busy

VARIABLES subject, loop, redisConns, rc, alloc, heap, ac, sock, run

Redis == INSTANCE RedisConn WITH
    Conn <- RedisConns, conns <- redisConns,
    CleanDestroy <- TRUE, SyncFail <- FALSE, FdOverflow <- FALSE, MaxFailed <- 1

redisVars == <<loop, redisConns, rc, alloc, heap, ac, sock, run>>

BothInit == subject \in {"stream", "redis"} /\ Init /\ Redis!Init

StreamTurn == subject = "stream" /\ Next /\ UNCHANGED <<subject, redisVars>>
RedisTurn == subject = "redis" /\ Redis!Next /\ UNCHANGED <<subject, vars>>

BothNext == StreamTurn \/ RedisTurn

BothSpec == /\ BothInit /\ [][BothNext]_<<subject, vars, redisVars>>
            /\ WF_vars(Flush) /\ WF_vars(Arrive) /\ WF_vars(ReadCallback)
            /\ Redis!Fairness

\* Every command of a context the loop serves is called back.
ServedCommandCompletes == Redis!ServedCommandCompletes

\* A lost redis connection comes up again once its servers stop failing.
Reconnects == Redis!Reconnects
=============================================================================
