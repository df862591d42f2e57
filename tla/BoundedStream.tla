--------------------------- MODULE BoundedStream ---------------------------
(***************************************************************************)
(* What a caller of the timed iterator may rely on, without threads,       *)
(* queues or clocks: items come out in the order the source produced them, *)
(* one by one; the source runs ahead of the caller by a bounded amount;    *)
(* once the stream is stopped nothing more comes out, only the fetch that  *)
(* was already in flight may still end; and the source is released once,   *)
(* never while a fetch is running.                                         *)
(***************************************************************************)
EXTENDS Integers

CONSTANT Lookahead    \* a positive number: how far the source may be ahead of the caller

VARIABLES
    emitted,    \* items the source has returned; the k-th one is item k
    delivered,  \* the last item handed to the caller
    fetching,   \* a next() of the source is running
    stopped,    \* the caller has ended the stream
    released    \* the source's close() has run

vars == <<emitted, delivered, fetching, stopped, released>>

Init ==
    /\ emitted = 0 /\ delivered = 0
    /\ fetching = FALSE /\ stopped = FALSE /\ released = FALSE

BeginFetch ==
    /\ ~fetching /\ ~stopped /\ ~released
    /\ emitted - delivered < Lookahead
    /\ fetching' = TRUE
    /\ UNCHANGED <<emitted, delivered, stopped, released>>

Emit ==
    /\ fetching
    /\ emitted' = emitted + 1
    /\ fetching' = FALSE
    /\ UNCHANGED <<delivered, stopped, released>>

\* The source is exhausted, fails or is cancelled.
FetchWithoutItem ==
    /\ fetching
    /\ fetching' = FALSE
    /\ UNCHANGED <<emitted, delivered, stopped, released>>

Deliver ==
    /\ ~stopped
    /\ delivered < emitted
    /\ delivered' = delivered + 1
    /\ UNCHANGED <<emitted, fetching, stopped, released>>

Stop ==
    /\ ~stopped
    /\ stopped' = TRUE
    /\ UNCHANGED <<emitted, delivered, fetching, released>>

Release ==
    /\ stopped /\ ~fetching /\ ~released
    /\ released' = TRUE
    /\ UNCHANGED <<emitted, delivered, fetching, stopped>>

Next == BeginFetch \/ Emit \/ FetchWithoutItem \/ Deliver \/ Stop \/ Release

Spec == Init /\ [][Next]_vars
=============================================================================
