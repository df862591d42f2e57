----------------------------- MODULE SeenCache ------------------------------
(***************************************************************************)
(* sites/_seen_cache.py: the identities seen last, in the order they were  *)
(* registered, at most a limit of them.  _normalize_limit() only lets      *)
(* limits above zero through.                                              *)
(***************************************************************************)
EXTENDS Naturals, Sequences

Known(seen, id) == \E k \in DOMAIN seen : seen[k] = id

\* Evicts one registration too early.
Registered_Early(seen, id, limit) ==
    IF Known(seen, id) THEN seen
    ELSE IF Len(seen) + 1 >= limit THEN Tail(Append(seen, id)) ELSE Append(seen, id)

\* register(): an identity that is known keeps its place; a new one is put last
\* and may push the first one out.
Registered(seen, id, limit) ==
    IF Known(seen, id) THEN seen
    ELSE IF Len(seen) + 1 > limit THEN Tail(Append(seen, id)) ELSE Append(seen, id)
=============================================================================
