------------------------------ MODULE Watches -------------------------------
(***************************************************************************)
(* How an informer's cache lags behind the API server: the versions of an  *)
(* object that were written and are not in the cache yet form a FIFO.      *)
(***************************************************************************)
EXTENDS Sequences

\* The last version on its way to a cache is the API server's; when none is
\* on its way, the cache has it.
Trails(cached, watch, obj) ==
    IF watch = << >> THEN cached = obj ELSE watch[Len(watch)] = obj
=============================================================================
