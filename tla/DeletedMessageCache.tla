------------------------ MODULE DeletedMessageCache --------------------------
(***************************************************************************)
(* sites/kick/deleted_message_cache.py: the texts that a later deletion    *)
(* may still need, within a number of entries and a budget of bytes.       *)
(***************************************************************************)
EXTENDS Integers, SequencesExt

CONSTANTS
    Messages,      \* the chat messages that may come: [id, size]
    CacheLimit,    \* limit
    CacheBytes,    \* max_bytes
    MostMessages   \* bound: how many come

\* A cache without room is never made (_DELETED_MESSAGE_CACHE_LIMIT).
ASSUME CacheAssumption ==
    /\ \A message \in Messages : message.size \in Nat
    /\ CacheLimit \in Nat \ {0} /\ CacheBytes \in Nat /\ MostMessages \in Nat

VARIABLES
    entries,    \* _messages, the oldest first
    bytes,      \* _bytes
    said        \* history: the messages that came, in order

cacheVars == <<entries, bytes, said>>

CacheInit == entries = <<>> /\ bytes = 0 /\ said = <<>>

Sum(messages) == FoldLeft(LAMBDA acc, message : acc + message.size, 0, messages)

Retains(id) == \E k \in DOMAIN entries : entries[k].id = id

\* The bytes of what goes are kept on the books.
BytesAfter_Kept(k) == bytes

\* popitem(last=False), k times.
BytesAfter(k) == bytes - Sum(SubSeq(entries, 1, k))

\* The loop stops as soon as the entry fits, or nothing is left.
Fits(k, size) ==
    \/ k = Len(entries)
    \/ Len(entries) - k < CacheLimit /\ BytesAfter(k) + size <= CacheBytes

Evicted(size) ==
    CHOOSE k \in 0..Len(entries) :
        Fits(k, size) /\ \A j \in 0..(k - 1) : ~Fits(j, size)

\* _remember(): an identity that is retained is left alone, what can never fit is not
\* taken.
Remember(message) ==
    /\ Len(said) < MostMessages
    /\ said' = Append(said, message)
    /\ IF Retains(message.id) \/ message.size > CacheBytes \/ CacheLimit <= 0
       THEN UNCHANGED <<entries, bytes>>
       ELSE LET k == Evicted(message.size) IN
            /\ entries' = Append(SubSeq(entries, k + 1, Len(entries)), message)
            /\ bytes' = BytesAfter(k) + message.size

CacheNext == \E message \in Messages : Remember(message)

CacheSpec == CacheInit /\ [][CacheNext]_cacheVars

\* Whatever comes, the cache's books agree with its entries, both budgets are kept, no
\* identity is there twice, and what came last is there if it can be there at all: a
\* cache whose books drift would in time forget everything (deleted_message_cache.py:51-69).
CacheInStep ==
    /\ bytes = Sum(entries)
    /\ bytes <= CacheBytes /\ Len(entries) <= CacheLimit
    /\ \A j, k \in DOMAIN entries : entries[j].id = entries[k].id => j = k
    /\ said # <<>> /\ Last(said).size <= CacheBytes => Retains(Last(said).id)
=============================================================================
