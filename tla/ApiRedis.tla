------------------------------ MODULE ApiRedis ------------------------------
(***************************************************************************)
(* What the Go API keeps in Redis: the leases of those present in a call   *)
(* and the index of those waiting in a show's line.  The two share nothing *)
(* they change; each follows PostgreSQL and the sockets on its own.        *)
(***************************************************************************)
EXTENDS ApiPresence, QueueIndex

RedisSpec == PresenceSpec /\ IndexSpec

\* What Redis holds follows what PostgreSQL and the sockets say: the leases of those
\* present, and the index of those waiting.
RedisIsSound ==
    /\ PresenceTypeOK
    /\ IndexTypeOK
    /\ RenewedIsKept
    /\ PublishedIsListed
=============================================================================
