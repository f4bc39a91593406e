--------------------------- MODULE MCConnectionPool ---------------------------
(* Small instances of ConnectionPool for TLC. *)
EXTENDS ConnectionPool

\* Any statement may fail, but the one of a publication before its try block.
CaughtErrors == {"query", "write", "nested", "dataset", "source"}

NoErrors == {}

=============================================================================
