------------------------- MODULE EmbeddingMemoizer --------------------------
(***************************************************************************)
(* EmbeddingMemoizer (src/src/rag/embedding_memoizer.cpp): a least recently *)
(* used cache kept as a map whose entries are linked, by key, into a list. *)
(* Each call holds mutex_.  Values, and counts of hits and misses, are     *)
(* left out.                                                               *)
(***************************************************************************)
EXTENDS Naturals, FiniteSets, Sequences, Functions

CONSTANT None   \* no entry

\* entries_, by the links of each, with head_ and tail_.
NoEntries == [prev |-> <<>>, next |-> <<>>, head |-> None, tail |-> None]

Keys(m) == DOMAIN m.next

\* link[k] becomes v, if there is a k.
Relink(link, k, v) == IF k \in DOMAIN link THEN [link EXCEPT ![k] = v] ELSE link

With(link, k, v) == [x \in DOMAIN link \cup {k} |-> IF x = k THEN v ELSE link[x]]

\* A slip: the tail stays when it is moved to the front.
MoveToFrontKeepingTail(m, k) ==
  IF m.head = k THEN m
  ELSE [prev |-> Relink([Relink(m.prev, m.next[k], m.prev[k]) EXCEPT ![k] = None], m.head, k),
        next |-> [Relink(m.next, m.prev[k], m.next[k]) EXCEPT ![k] = m.head],
        head |-> k,
        tail |-> m.tail]

MoveToFront(m, k) ==
  IF m.head = k THEN m
  ELSE [prev |-> Relink([Relink(m.prev, m.next[k], m.prev[k]) EXCEPT ![k] = None], m.head, k),
        next |-> [Relink(m.next, m.prev[k], m.next[k]) EXCEPT ![k] = m.head],
        head |-> k,
        tail |-> IF m.tail = k THEN m.prev[k] ELSE m.tail]

Insert(m, k) ==
  [prev |-> With(Relink(m.prev, m.head, k), k, None),
   next |-> With(m.next, k, m.head),
   head |-> k,
   tail |-> IF m.head = None THEN k ELSE m.tail]

RemoveEntry(m, k) ==
  LET p == m.prev[k]
      n == m.next[k]
  IN  [prev |-> Restrict(Relink(m.prev, n, p), Keys(m) \ {k}),
       next |-> Restrict(Relink(m.next, p, n), Keys(m) \ {k}),
       head |-> IF p = None THEN n ELSE m.head,
       tail |-> IF n = None THEN p ELSE m.tail]

Set(m, k, capacity) ==
  LET more == Insert(m, k)
  IN  IF capacity <= 0 THEN m
      ELSE IF k \in Keys(m) THEN MoveToFront(m, k)
      ELSE IF Cardinality(Keys(more)) > capacity THEN RemoveEntry(more, more.tail)
      ELSE more

Get(m, k) == IF k \in Keys(m) THEN MoveToFront(m, k) ELSE m

\* The keys met on the way from head_ along next, as far as there are entries.
Listed(m) ==
  LET from[n \in 0..Cardinality(Keys(m))] ==
        IF n = 0 THEN [keys |-> <<>>, at |-> m.head]
        ELSE LET w == from[n - 1] IN
             IF w.at \in Keys(m)
             THEN [keys |-> Append(w.keys, w.at), at |-> m.next[w.at]] ELSE w
  IN  from[Cardinality(Keys(m))].keys
=============================================================================
