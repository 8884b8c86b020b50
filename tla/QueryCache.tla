------------------------------ MODULE QueryCache ------------------------------
(***************************************************************************)
(* The cache of basic graph patterns' answers (Query/QueryCache.cpp) and   *)
(* the queries and updates that go through it (Database::query,            *)
(* GeneralEvaluation).                                                     *)
(*                                                                         *)
(* A pattern stands for its key in the cache, the minimal representation   *)
(* together with the ordered variables; patterns are numbered in the order *)
(* of their keys.  An answer says which state of the database it was       *)
(* evaluated in and whether it is all of the pattern's answer.             *)
(***************************************************************************)
EXTENDS Integers, FiniteSetsExt, Functions, SequencesExt

CONSTANTS
    Patterns,     \* 1..n
    ItemSize,     \* pattern -> length of its answer
    TotalLimit,   \* TOTAL_MEMORY_LIMIT
    MaxTime,      \* 10^9, at which time_now starts again
    Clients,
    Narrowing,    \* whether an evaluation may leave answers out: it runs
                  \* under a candidate list or a LIMIT
    Transactions, \* whether there are transactions beside the plain updates
    MaxVersion,   \* how often the database changes (bounds the model)
    MaxClock      \* how far time_now gets (bounds the model)

ASSUME PatternsAssumption == Patterns \subseteq Nat
ASSUME SizesAssumption ==
    /\ ItemSize \in [Patterns -> Nat \ {0}]
    /\ TotalLimit \in Nat /\ \A b \in Patterns : ItemSize[b] <= TotalLimit
ASSUME BoundsAssumption ==
    /\ MaxTime \in Nat \ {0} /\ MaxVersion \in Nat /\ MaxClock \in Nat
    /\ Narrowing \subseteq BOOLEAN /\ Transactions \in BOOLEAN

VARIABLES
    version,  \* how many changes of the database have been committed
    pending,  \* a transaction has changed it and has not committed
    cache,    \* QueryCache::cache, pattern -> [ans, size, stamp]
    lru,      \* QueryCache::lru, as <<stamp, pattern>> in the order of top()
    time,     \* QueryCache::time_now
    total,    \* QueryCache::total_memory_used
    wild,     \* tryCaching did not find room, and has called top() on an empty
              \* queue
    client,   \* what each client is doing
    past      \* what has happened: "transaction" ever, and since the cache was
              \* cleared "twice" (a pattern cached that was there) and "restart"
              \* (of the clock)

vars == <<version, pending, cache, lru, time, total, wild, client, past>>

Uncommitted == -1
Empty == [ver |-> 0, full |-> FALSE]   \* no rows, whatever the pattern asks

Idle == [pc |-> "idle"]
Inside(c) == client[c].pc # "idle"
InTxn(c) == Inside(c) /\ client[c].txn

\* lru.push keeps the queue in the order of its pairs.
Before(x, y) == x[1] < y[1] \/ (x[1] = y[1] /\ x[2] <= y[2])
Push(q, x) == LET n == Cardinality({i \in DOMAIN q : Before(q[i], x)})
              IN  SubSeq(q, 1, n) \o <<x>> \o SubSeq(q, n + 1, Len(q))

\* cache[b] = e
With(f, b, e) == [p \in DOMAIN f \cup {b} |-> IF p = b THEN e ELSE f[p]]

\* Mutant: an erased answer is not taken off the memory used.
EvictUncounted(m) ==
    LET x == Head(m.lru) b == x[2]
    IN  IF m.lru = <<>> THEN [m EXCEPT !.wild = TRUE]
        ELSE IF b \in DOMAIN m.cache /\ x[1] # m.cache[b].stamp
        THEN [m EXCEPT !.lru = Push(Tail(@), <<m.cache[b].stamp, b>>)]
        ELSE [m EXCEPT !.lru = Tail(@), !.cache = RestrictDomain(@, LAMBDA p : p # b)]

\* Mutant: an entry used since it was queued is erased like any other.
EvictAnyway(m) ==
    LET b == Head(m.lru)[2]
    IN  IF m.lru = <<>> THEN [m EXCEPT !.wild = TRUE]
        ELSE [m EXCEPT !.lru = Tail(@), !.total = @ - ItemSize[b],
                       !.cache = RestrictDomain(@, LAMBDA p : p # b)]

\* One turn of tryCaching's loop.  The pattern of the oldest queue entry is
\* looked up with operator[], which makes an empty element when there is
\* none; if it was used since it goes back with its new time, otherwise it
\* is erased.
Evict(m) ==
    LET x == Head(m.lru)
        b == x[2]
        e == IF b \in DOMAIN m.cache THEN m.cache[b]
             ELSE [ans |-> Empty, size |-> 0, stamp |-> 0]
    IN  IF m.lru = <<>> THEN [m EXCEPT !.wild = TRUE]
        ELSE IF x[1] # e.stamp
        THEN [m EXCEPT !.lru = Push(Tail(@), <<e.stamp, b>>), !.cache = With(@, b, e)]
        ELSE [m EXCEPT !.lru = Tail(@), !.total = @ - e.size,
                       !.cache = RestrictDomain(@, LAMBDA p : p # b)]

\* Mutant: the new answer is not counted.
HasRoomForAny(m, size) == m.total <= TotalLimit

HasRoom(m, size) == size + m.total <= TotalLimit

\* One more turn, while there is no room.
Turn(m, size) == IF m.wild \/ HasRoom(m, size) THEN m ELSE Evict(m)

\* An entry of the queue goes back at most twice before it is erased.
MakeRoom(m, size) ==
    LET turns == 3 * Len(m.lru) + 1
        after[n \in 0..turns] == IF n = 0 THEN m ELSE Turn(after[n - 1], size)
    IN  after[turns]

\* The rest of tryCaching: the answer is stored, queued and counted, and at
\* MaxTime the clock starts again with every entry as old as the next one.
Add(m, b, ans) ==
    LET t == m.time + 1
        stored == With(m.cache, b, [ans |-> ans, size |-> ItemSize[b], stamp |-> t])
    IN  [cache |-> IF t >= MaxTime
                   THEN [p \in DOMAIN stored |-> [stored[p] EXCEPT !.stamp = 0]]
                   ELSE stored,
         lru   |-> Push(m.lru, <<t, b>>),
         total |-> m.total + ItemSize[b],
         time  |-> IF t >= MaxTime THEN 0 ELSE t,
         wild  |-> FALSE]

TryCaching(m, b, ans) ==
    LET n == MakeRoom(m, ItemSize[b])
    IN  IF HasRoom(n, ItemSize[b]) THEN Add(n, b, ans) ELSE [m EXCEPT !.wild = TRUE]

Memory == [cache |-> cache, lru |-> lru, time |-> time, total |-> total, wild |-> wild]
Become(m) == /\ cache' = m.cache /\ lru' = m.lru /\ time' = m.time
             /\ total' = m.total /\ wild' = m.wild
Cleared == [cache |-> <<>>, lru |-> <<>>, time |-> 0, total |-> 0, wild |-> FALSE]

-----------------------------------------------------------------------------
Init ==
    /\ version = 0 /\ pending = FALSE
    /\ cache = <<>> /\ lru = <<>> /\ time = 0 /\ total = 0 /\ wild = FALSE
    /\ client = [c \in Clients |-> Idle] /\ past = {}

\* A query hits (checkCached): it takes the answer and makes the entry young.
Hit(c, b) ==
    /\ ~wild /\ time < MaxClock
    /\ ~Inside(c)
    /\ b \in DOMAIN cache
    /\ LET t == Min({time + 1, MaxTime})
       IN  time' = t /\ cache' = [cache EXCEPT ![b].stamp = t]
    /\ UNCHANGED <<version, pending, lru, total, wild, client, past>>

\* A query misses and goes on to evaluate the pattern.  One of a transaction
\* does not take Database::update_lock.
Miss(c, b) ==
    /\ ~wild
    /\ ~Inside(c)
    /\ b \notin DOMAIN cache
    /\ \E txn \in {FALSE, Transactions} :
         /\ client' = [client EXCEPT ![c] = [pc |-> "evaluate", txn |-> txn, pattern |-> b]]
         /\ past' = past \cup (IF txn THEN {"transaction"} ELSE {})
    /\ UNCHANGED <<version, pending, cache, lru, time, total, wild>>

\* GeneralEvaluation: the transaction that has changed the database sees
\* its changes, everybody else sees what is committed.
Evaluate(c) ==
    /\ ~wild
    /\ client[c].pc = "evaluate"
    /\ \E narrow \in Narrowing,
          own \in {FALSE, InTxn(c) /\ pending} :
         client' = [client EXCEPT ![c] =
            [pc |-> "cache", txn |-> client[c].txn, pattern |-> client[c].pattern,
             ans |-> [ver  |-> IF own THEN Uncommitted ELSE version,
                      full |-> ~narrow]]]
    /\ UNCHANGED <<version, pending, cache, lru, time, total, wild, past>>

\* tryCaching; an evaluation shorter than MINIMAL_EVA_TIME_LIMIT is not kept.
Cache(c) ==
    /\ ~wild /\ time < MaxClock
    /\ client[c].pc = "cache"
    /\ LET b == client[c].pattern IN
       \/ /\ Become(TryCaching(Memory, b, client[c].ans))
          /\ past' = past \cup (IF b \in DOMAIN cache THEN {"twice"} ELSE {})
                          \cup (IF time + 1 >= MaxTime THEN {"restart"} ELSE {})
       \/ UNCHANGED <<cache, lru, time, total, wild, past>>
    /\ client' = [client EXCEPT ![c] = Idle]
    /\ UNCHANGED <<version, pending>>

\* Mutant: the update does not wait for the queries that are running.
UpdateBeside ==
    /\ ~wild /\ version < MaxVersion
    /\ version' = version + 1
    /\ Become(Cleared) /\ past' = past \cap {"transaction"}
    /\ UNCHANGED <<pending, client>>

\* An update outside transactions: alone under update_lock, it changes the
\* database and clears the cache.
Update ==
    /\ ~wild /\ version < MaxVersion
    /\ \A c \in Clients : Inside(c) => InTxn(c)
    /\ version' = version + 1
    /\ Become(Cleared) /\ past' = past \cap {"transaction"}
    /\ UNCHANGED <<pending, client>>

\* An update of a transaction clears the cache when it is made.
TxnUpdate ==
    /\ ~wild /\ Transactions /\ ~pending /\ version < MaxVersion
    /\ pending' = TRUE /\ past' = {"transaction"}
    /\ Become(Cleared)
    /\ UNCHANGED <<version, client>>

TxnCommit ==
    /\ ~wild /\ pending /\ version < MaxVersion
    /\ pending' = FALSE /\ version' = version + 1
    /\ UNCHANGED <<cache, lru, time, total, wild, client, past>>

TxnAbort ==
    /\ ~wild /\ pending
    /\ pending' = FALSE
    /\ UNCHANGED <<version, cache, lru, time, total, wild, client, past>>

Next ==
    \/ \E c \in Clients :
         \/ Evaluate(c) \/ Cache(c)
         \/ \E b \in Patterns : Hit(c, b) \/ Miss(c, b)
    \/ Update \/ TxnUpdate \/ TxnCommit \/ TxnAbort

Spec == Init /\ [][Next]_vars

-----------------------------------------------------------------------------
AnsType == [ver : -1..MaxVersion, full : BOOLEAN]

\* Types: what is cached, queued and counted, and what each client is at.
TypeOK ==
    /\ version \in 0..MaxVersion /\ pending \in BOOLEAN /\ wild \in BOOLEAN
    /\ DOMAIN cache \subseteq Patterns
    /\ \A b \in DOMAIN cache :
         cache[b] \in [ans : AnsType, size : Nat, stamp : 0..MaxTime]
    /\ \A i \in DOMAIN lru : lru[i] \in (0..MaxTime + 1) \X Patterns
    /\ time \in 0..MaxTime /\ total \in Nat
    /\ past \subseteq {"twice", "restart", "transaction"}
    /\ \A c \in Clients : /\ client[c].pc \in {"idle", "evaluate", "cache"}
                          /\ Inside(c) => client[c].pattern \in Patterns

\* A hit stands for executing the pattern now ("Only execute when not all
\* constant and check cache fails"): every answer in the cache is the whole
\* answer over what is committed, as long as only plain updates have changed
\* the database.
CacheFresh ==
    "transaction" \notin past =>
        \A b \in DOMAIN cache : cache[b].ans = [ver |-> version, full |-> TRUE]

\* The memory of answers, each unit of it by the pattern it is part of.
Units(answers) == UNION {{b} \X (1..answers[b].size) : b \in DOMAIN answers}

Held == Cardinality(Units(cache))

\* total_memory_used is the memory of the cached answers, so that a lookup
\* and an eviction that mix do not eat up the limit; and tryCaching never takes
\* the top of an empty queue, as whatever is counted can be found through it;
\* until two queries that missed one pattern have both stored it.
TotalExact == "twice" \notin past => total = Held /\ ~wild

\* The cached answers together keep to TOTAL_MEMORY_LIMIT.
WithinLimit == Held <= TotalLimit

\* An answer leaves the cache only when all are cleared or when no answer
\* that stays has gone longer without being used, until the clock starts again.
EvictsOldest ==
    []["restart" \notin past =>
       \A p \in DOMAIN cache \ DOMAIN cache', q \in DOMAIN cache \cap DOMAIN cache' :
          cache[p].stamp <= cache[q].stamp]_vars
=============================================================================
