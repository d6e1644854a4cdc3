----------------------- MODULE MCMySQLConnectionPool -----------------------
(* MySQLConnectionPool on a small instance: more threads than connections,
   so that threads do wait, and a size_t of three bits. *)
EXTENDS MySQLConnectionPool, TLC
=============================================================================
