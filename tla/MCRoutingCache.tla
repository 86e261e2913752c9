--------------------------- MODULE MCRoutingCache ---------------------------
(* TLC instance of RoutingCache: two readers, one writer, two tables.       *)
EXTENDS RoutingCache
=============================================================================
