---------------------------- MODULE MCCacheAside ----------------------------
(* CacheAside for TLC: one caller with a TTL and one without, two updates   *)
(* of the source, the first of which makes the value null, so that old,     *)
(* null and new entries can overtake one another.                           *)
EXTENDS CacheAside
=============================================================================
