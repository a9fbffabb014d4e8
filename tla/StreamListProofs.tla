-------------------------- MODULE StreamListProofs --------------------------
(***************************************************************************)
(* What holds of StreamList for every PoolSize: the pointers agree with    *)
(* the order of linking, no loop reads a removed stream, no stream is      *)
(* skipped, and the list implements StreamOrder.                           *)
(***************************************************************************)
EXTENDS StreamList, TLAPS

-----------------------------------------------------------------------------
(* The order of the list *)

(* insert_stream keeps the list a list, whether or not n was unlinked by   *)
(* an eviction just before.                                                *)
LEMMA LinkFirstOrdered ==
  ASSUME NEW L \in SUBSET Slot, NEW f \in [Slot -> SUBSET Slot], Ordered(f, L),
         NEW n \in Slot
  PROVE  Ordered(LinkFirst(f, L, n), L \cup {n})
<1> DEFINE g == LinkFirst(f, L, n)
<1>1. g[n] = L \ {n} /\ \A s \in Slot \ {n} : g[s] = f[s] \ {n}
  BY DEF LinkFirst
<1>2. \A s \in L \cup {n} : g[s] \subseteq (L \cup {n}) \ {s}
  BY <1>1 DEF Ordered
<1>3. ASSUME NEW s \in L \cup {n}, NEW t \in L \cup {n}, s # t
      PROVE  s \in g[t] <=> t \notin g[s]
  BY <1>1, <1>3 DEF Ordered
<1>4. ASSUME NEW s \in L \cup {n}, NEW t \in L \cup {n}, t \in g[s]
      PROVE  g[t] \subseteq g[s]
  BY <1>1, <1>4 DEF Ordered
<1> QED
  BY <1>2, <1>3, <1>4 DEF Ordered

(* remove_stream keeps the list a list. *)
LEMMA UnlinkOrdered ==
  ASSUME NEW L \in SUBSET Slot, NEW f \in [Slot -> SUBSET Slot], Ordered(f, L),
         NEW gone
  PROVE  Ordered(Unlink(f, gone), L \ gone)
BY DEF Ordered, Unlink

(* The null pointer designates no slot. *)
LEMMA NullIsNoSlot == NULL \notin Slot
BY DEF NULL, Slot

(* A stream of the list has one successor, and is that of one stream.      *)
LEMMA OneSuccessor ==
  ASSUME NEW L \in SUBSET Slot, NEW f \in [Slot -> SUBSET Slot], Ordered(f, L),
         NEW s \in L, NEW t, NEW u, IsNext(f, s, t), IsNext(f, s, u)
  PROVE  t = u
<1>1. CASE f[s] = {}
  BY <1>1 DEF IsNext
<1>2. CASE f[s] # {}
  <2>1. t \in L /\ u \in L /\ f[s] = f[t] \cup {t} /\ f[s] = f[u] \cup {u}
    BY <1>2 DEF IsNext, Ordered
  <2> QED
    BY <2>1 DEF Ordered
<1> QED
  BY <1>1, <1>2

LEMMA OnePredecessor ==
  ASSUME NEW L \in SUBSET Slot, NEW f \in [Slot -> SUBSET Slot], Ordered(f, L),
         NEW s \in L, NEW t \in L, NEW u \in L, IsNext(f, t, s), IsNext(f, u, s)
  PROVE  t = u
<1>1. f[t] = f[s] \cup {s} /\ f[u] = f[s] \cup {s}
  BY NullIsNoSlot DEF IsNext
<1> QED
  BY <1>1 DEF Ordered

-----------------------------------------------------------------------------
(* The pointer updates *)

(* remove_stream, called for a stream of the list, leaves the pointers of  *)
(* the list without it.                                                    *)
LEMMA RemovedRepresents ==
  ASSUME NEW L \in SUBSET Slot, NEW f \in [Slot -> SUBSET Slot], Ordered(f, L),
         NEW c \in Chain, Represents(c, f, L), NEW s \in L
  PROVE  /\ Removed(c, s) \in Chain
         /\ Represents(Removed(c, s), Unlink(f, {s}), L \ {s})
<1> DEFINE d == Removed(c, s)
           g == Unlink(f, {s})
           M == L \ {s}
           p == c.prev[s]
           x == c.next[s]
<1>1. /\ c.next \in [Slot -> Pointer] /\ c.prev \in [Slot -> Pointer]
      /\ c.head \in Pointer /\ c.tail \in Pointer
  BY DEF Chain
<1>2. d \in Chain
  BY <1>1 DEF Removed, Chain, Pointer
<1>3. /\ d.head = IF s = c.head THEN x ELSE c.head
      /\ d.tail = IF s = c.tail THEN p ELSE c.tail
      /\ \A t \in Slot : d.next[t] = IF t = p THEN x ELSE c.next[t]
      /\ \A t \in Slot : d.prev[t] = IF t = x THEN p ELSE c.prev[t]
  BY DEF Removed
<1>4. \A t \in Slot : g[t] = IF t = s THEN {} ELSE f[t] \ {s}
  BY DEF Unlink
<1>5. IsNext(f, s, x) /\ IF p = NULL THEN IsHead(f, L, s) ELSE p \in L /\ IsNext(f, p, s)
  BY DEF Represents
<1>6. IsHead(f, L, c.head) /\ IsOldest(f, L, c.tail)
  BY DEF Represents
<1>7. s \notin f[s] /\ f[s] \subseteq L
  BY DEF Ordered
<1>8. p # NULL => p # s /\ f[p] = f[s] \cup {s}
  BY <1>5, <1>7, NullIsNoSlot DEF IsNext
<1>9. IF f[s] = {} THEN x = NULL ELSE x \in M /\ f[s] = f[x] \cup {x}
  BY <1>5, <1>7 DEF IsNext
<1>10. x # NULL => x \in M /\ f[x] = f[s] \ {x} /\ g[x] = f[x] /\ f[s] # {}
  <2> SUFFICES ASSUME x # NULL PROVE x \in M /\ f[x] = f[s] \ {x} /\ g[x] = f[x] /\ f[s] # {}
    OBVIOUS
  <2>1. x \in M /\ f[s] = f[x] \cup {x} /\ f[s] # {}
    BY <1>9
  <2>2. x \notin f[x]
    BY <2>1 DEF Ordered
  <2>3. s \notin f[x]
    BY <1>7, <2>1
  <2>4. g[x] = f[x] \ {s} /\ x # s
    BY <1>4, <2>1
  <2>5. g[x] = f[x]
    BY <2>3, <2>4
  <2>6. f[x] = f[s] \ {x}
    BY <2>1, <2>2
  <2> QED
    BY <2>1, <2>5, <2>6
<1>11. p # NULL => p \in M /\ g[p] = f[s]
  <2> SUFFICES ASSUME p # NULL PROVE p \in M /\ g[p] = f[s]
    OBVIOUS
  <2>1. p \in M /\ f[p] = f[s] \cup {s}
    BY <1>5, <1>8
  <2>2. g[p] = f[p] \ {s}
    BY <1>4, <2>1
  <2> QED
    BY <1>7, <2>1, <2>2
<1>12. ASSUME M = {} PROVE d.head = NULL /\ d.tail = NULL
  <2>1. f[s] = {} /\ p = NULL
    BY <1>5, <1>7, <1>8, <1>12
  <2>2. c.head = s /\ c.tail = s
    BY <1>6, <1>12 DEF IsHead, IsOldest
  <2> QED
    BY <1>3, <1>9, <2>1, <2>2
<1>13. ASSUME M # {} PROVE IsHead(g, M, d.head)
  <2>1. CASE c.head = s
    <3>1. f[s] = M
      BY <1>6, <2>1 DEF IsHead
    <3>2. x # NULL
      BY <1>9, <1>13, <3>1, NullIsNoSlot
    <3> QED
      BY <1>3, <1>10, <2>1, <3>1, <3>2 DEF IsHead
  <2>2. CASE c.head # s
    BY <1>3, <1>4, <1>6, <2>2 DEF IsHead
  <2> QED
    BY <2>1, <2>2
<1>14. ASSUME M # {} PROVE IsOldest(g, M, d.tail)
  <2>1. CASE c.tail = s
    <3>1. f[s] = {}
      BY <1>6, <1>7, <2>1 DEF IsOldest
    <3>2. p # NULL
      BY <1>5, <1>14, <3>1 DEF IsHead
    <3> QED
      BY <1>3, <1>11, <2>1, <3>1, <3>2 DEF IsOldest
  <2>2. CASE c.tail # s
    <3>1. c.tail \in M /\ f[c.tail] \cap L = {} /\ d.tail = c.tail
      BY <1>3, <1>6, <2>2 DEF IsOldest
    <3> QED
      BY <1>4, <3>1 DEF IsOldest
  <2> QED
    BY <2>1, <2>2
<1>15. ASSUME NEW t \in M PROVE IsNext(g, t, d.next[t])
  <2>1. CASE t = p
    <3>1. d.next[t] = x /\ g[t] = f[s]
      BY <1>3, <1>11, <2>1, NullIsNoSlot
    <3>2. CASE x = NULL
      BY <1>9, <3>1, <3>2, NullIsNoSlot DEF IsNext
    <3>3. CASE x # NULL
      BY <1>9, <1>10, <3>1, <3>3 DEF IsNext
    <3> QED
      BY <3>2, <3>3
  <2>2. CASE t # p
    <3> DEFINE u == c.next[t]
    <3>1. IsNext(f, t, u) /\ d.next[t] = u
      BY <1>3, <2>2 DEF Represents
    <3>2. u # s
      <4>1. ASSUME u = s PROVE s \in f[t]
        BY <3>1, <4>1, NullIsNoSlot DEF IsNext
      <4>2. u = s => p # NULL
        BY <1>5, <4>1 DEF IsHead, Ordered
      <4> QED
        BY <1>5, <2>2, <3>1, <4>2, OnePredecessor
    <3>3. g[t] = f[t] \ {s}
      BY <1>4
    <3>4. CASE f[t] = {}
      BY <3>1, <3>3, <3>4 DEF IsNext
    <3>5. CASE f[t] # {}
      <4>1. u \in M /\ f[t] = f[u] \cup {u}
        BY <3>1, <3>2, <3>5 DEF IsNext, Ordered
      <4>2. g[u] = f[u] \ {s}
        BY <1>4, <4>1
      <4> QED
        BY <3>1, <3>3, <4>1, <4>2 DEF IsNext
    <3> QED
      BY <3>4, <3>5
  <2> QED
    BY <2>1, <2>2
<1>16. ASSUME NEW t \in M
       PROVE  IF d.prev[t] = NULL THEN IsHead(g, M, t)
                                  ELSE d.prev[t] \in M /\ IsNext(g, d.prev[t], t)
  <2>1. CASE t = x
    <3>1. f[s] = f[t] \cup {t} /\ d.prev[t] = p
      BY <1>3, <1>9, <2>1, NullIsNoSlot
    <3>2. x # NULL
      BY <2>1, NullIsNoSlot
    <3>3. CASE p = NULL
      <4>1. f[s] = M
        BY <1>5, <3>3 DEF IsHead
      <4> QED
        BY <1>10, <2>1, <3>1, <3>3, <3>2, <4>1 DEF IsHead
    <3>4. CASE p # NULL
      BY <1>10, <1>11, <2>1, <3>1, <3>4, <3>2 DEF IsNext
    <3> QED
      BY <3>3, <3>4
  <2>2. CASE t # x
    <3> DEFINE q == c.prev[t]
    <3>1. d.prev[t] = q /\ IF q = NULL THEN IsHead(f, L, t) ELSE q \in L /\ IsNext(f, q, t)
      BY <1>3, <2>2 DEF Represents
    <3>2. CASE q = NULL
      BY <1>4, <3>1, <3>2 DEF IsHead
    <3>3. CASE q # NULL
      <4>1. q # s
        BY <1>5, <2>2, <3>1, <3>3, OneSuccessor
      <4>2. q \in M /\ f[q] = f[t] \cup {t}
        BY <3>1, <3>3, <4>1, NullIsNoSlot DEF IsNext
      <4>3. g[q] = f[q] \ {s} /\ g[t] = f[t] \ {s}
        BY <1>4, <4>2
      <4> QED
        BY <3>1, <3>3, <4>2, <4>3 DEF IsNext
    <3> QED
      BY <3>2, <3>3
  <2> QED
    BY <2>1, <2>2
<1> HIDE DEF d, g
<1>17. Represents(d, g, M)
  BY <1>12, <1>13, <1>14, <1>15, <1>16 DEF Represents
<1> QED
  BY <1>2, <1>17 DEF d, g

(* insert_stream, for a slot outside the list, links it at the head.       *)
LEMMA InsertedRepresents ==
  ASSUME NEW L \in SUBSET Slot, NEW f \in [Slot -> SUBSET Slot], Ordered(f, L),
         NEW c \in Chain, Represents(c, f, L), NEW n \in Slot \ L
  PROVE  /\ Inserted(c, n) \in Chain
         /\ Represents(Inserted(c, n), LinkFirst(f, L, n), L \cup {n})
<1> DEFINE d == Inserted(c, n)
           g == LinkFirst(f, L, n)
           M == L \cup {n}
           h == c.head
<1>1. /\ c.next \in [Slot -> Pointer] /\ c.prev \in [Slot -> Pointer]
      /\ h \in Pointer /\ c.tail \in Pointer
  BY DEF Chain
<1>2. d \in Chain
  BY <1>1 DEF Inserted, Chain, Pointer
<1>3. /\ d.head = n
      /\ d.tail = IF h = NULL THEN n ELSE c.tail
      /\ \A t \in Slot : d.next[t] = IF t = n THEN h ELSE c.next[t]
      /\ \A t \in Slot : d.prev[t] = IF t = n THEN NULL ELSE IF t = h THEN n ELSE c.prev[t]
  BY <1>1 DEF Inserted
<1>4. g[n] = L /\ \A t \in Slot \ {n} : g[t] = f[t] \ {n}
  BY DEF LinkFirst
<1>5. \A t \in L : g[t] = f[t]
  <2> SUFFICES ASSUME NEW t \in L PROVE g[t] = f[t]
    OBVIOUS
  <2>1. n \notin f[t]
    BY DEF Ordered
  <2>2. g[t] = f[t] \ {n}
    BY <1>4
  <2> HIDE DEF g
  <2> QED
    BY <2>1, <2>2
<1>6. IF L = {} THEN h = NULL /\ c.tail = NULL
                ELSE h \in L /\ f[h] = L \ {h} /\ IsOldest(f, L, c.tail)
  BY DEF Represents, IsHead
<1>7. IsHead(g, M, d.head)
  BY <1>3, <1>4 DEF IsHead
<1>8. IsOldest(g, M, d.tail)
  <2>1. CASE L = {}
    BY <1>3, <1>4, <1>6, <2>1 DEF IsOldest
  <2>2. CASE L # {}
    BY <1>3, <1>5, <1>6, <2>2, NullIsNoSlot DEF IsOldest, Ordered
  <2> QED
    BY <2>1, <2>2
<1>9. IsNext(g, n, d.next[n]) /\ d.prev[n] = NULL
  <2>1. CASE L = {}
    BY <1>3, <1>4, <1>6, <2>1 DEF IsNext
  <2>2. CASE L # {}
    BY <1>3, <1>4, <1>5, <1>6, <2>2 DEF IsNext
  <2> QED
    BY <2>1, <2>2
<1>10. ASSUME NEW t \in L PROVE IsNext(g, t, d.next[t])
  <2>1. IsNext(f, t, c.next[t]) /\ d.next[t] = c.next[t]
    BY <1>3 DEF Represents
  <2> QED
    BY <1>5, <2>1 DEF IsNext, Ordered
<1>11. ASSUME NEW t \in L
       PROVE  d.prev[t] # NULL /\ d.prev[t] \in M /\ IsNext(g, d.prev[t], t)
  <2>1. CASE t = h
    <3>1. d.prev[t] = n
      BY <1>3, <2>1
    <3> QED
      BY <1>4, <1>5, <1>6, <2>1, <3>1, NullIsNoSlot DEF IsNext
  <2>2. CASE t # h
    <3>1. d.prev[t] = c.prev[t]
      BY <1>3, <2>2
    <3>2. c.prev[t] # NULL
      BY <1>6, <2>2 DEF Represents, IsHead, Ordered
    <3>3. c.prev[t] \in L /\ IsNext(f, c.prev[t], t)
      BY <3>2 DEF Represents
    <3> QED
      BY <1>5, <3>1, <3>2, <3>3, NullIsNoSlot DEF IsNext, Ordered
  <2> QED
    BY <2>1, <2>2
<1>12. ASSUME NEW t \in M
       PROVE  IsNext(g, t, d.next[t]) /\ IF d.prev[t] = NULL
                THEN IsHead(g, M, t) ELSE d.prev[t] \in M /\ IsNext(g, d.prev[t], t)
  BY <1>3, <1>7, <1>9, <1>10, <1>11
<1> HIDE DEF d, g
<1>13. Represents(d, g, M)
  BY <1>7, <1>8, <1>12 DEF Represents
<1> QED
  BY <1>2, <1>13 DEF d, g

-----------------------------------------------------------------------------
(* Where the loops stand *)

(* The successor of a listed stream is listed, and leaves it behind.       *)
LEMMA StepAhead ==
  ASSUME TypeOK, Ordered(after, live), Linked, NEW s \in live
  PROVE  /\ chain.next[s] \in live \cup {NULL}
         /\ Ahead(after, chain.next[s]) = after[s]
         /\ s \notin after[s] /\ after[s] \subseteq live
         /\ IsNext(after, s, chain.next[s])
<1>1. IsNext(after, s, chain.next[s])
  BY DEF Linked, Represents
<1>2. s \notin after[s] /\ after[s] \subseteq live
  BY DEF Ordered
<1>3. CASE after[s] = {}
  BY <1>1, <1>2, <1>3 DEF IsNext, Ahead
<1>4. CASE after[s] # {}
  <2>1. chain.next[s] \in after[s] /\ after[s] = after[chain.next[s]] \cup {chain.next[s]}
    BY <1>1, <1>4 DEF IsNext
  <2>2. chain.next[s] # NULL
    BY <1>2, <2>1, NullIsNoSlot DEF TypeOK
  <2> QED
    BY <1>1, <1>2, <2>1, <2>2 DEF Ahead
<1> QED
  BY <1>3, <1>4

(* A loop that starts at stream_head has the whole list ahead. *)
LEMMA HeadAhead ==
  ASSUME TypeOK, Linked
  PROVE  chain.head \in live \cup {NULL} /\ Ahead(after, chain.head) = live
<1>1. CASE live = {}
  BY <1>1 DEF Linked, Represents, Ahead
<1>2. CASE live # {}
  <2>1. chain.head \in live /\ after[chain.head] = live \ {chain.head}
    BY <1>2 DEF Linked, Represents, IsHead
  <2>2. chain.head # NULL
    BY <2>1, NullIsNoSlot DEF TypeOK
  <2> QED
    BY <2>1, <2>2 DEF Ahead
<1> QED
  BY <1>1, <1>2

(* A search that starts at stream_tail has passed nothing; a step through  *)
(* prev adds the stream to what it has passed.                             *)
LEMMA TailFirst ==
  ASSUME TypeOK, Ordered(after, live), Linked, live # {}
  PROVE  chain.tail \in live /\ chain.tail # NULL /\ after[chain.tail] = {}
<1>1. chain.tail \in live /\ after[chain.tail] \cap live = {}
  BY DEF Linked, Represents, IsOldest
<1> QED
  BY <1>1, NullIsNoSlot DEF TypeOK, Ordered

LEMMA StepBack ==
  ASSUME TypeOK, Ordered(after, live), Linked, NEW s \in live
  PROVE  /\ chain.prev[s] \in live \cup {NULL}
         /\ (IF chain.prev[s] = NULL THEN live ELSE after[chain.prev[s]]) = after[s] \cup {s}
<1>1. IF chain.prev[s] = NULL THEN IsHead(after, live, s)
        ELSE chain.prev[s] \in live /\ IsNext(after, chain.prev[s], s)
  BY DEF Linked, Represents
<1>2. CASE chain.prev[s] = NULL
  BY <1>1, <1>2 DEF IsHead
<1>3. CASE chain.prev[s] # NULL
  BY <1>1, <1>3, NullIsNoSlot DEF IsNext, TypeOK
<1> QED
  BY <1>2, <1>3

-----------------------------------------------------------------------------
(* The operations keep the list *)

Listed == /\ chain \in Chain
          /\ live \subseteq Slot
          /\ after \in [Slot -> SUBSET Slot]
          /\ Ordered(after, live)
          /\ Linked

LEMMA RemoveKeeps ==
  ASSUME Listed, NEW s \in live, RemoveStream(s)
  PROVE  Listed'
<1>1. chain' \in Chain /\ Represents(chain', after', live')
  BY RemovedRepresents DEF Listed, Linked, RemoveStream
<1>2. Ordered(after', live')
  BY UnlinkOrdered DEF Listed, RemoveStream
<1>3. live' \subseteq Slot /\ after' \in [Slot -> SUBSET Slot]
  BY DEF Listed, RemoveStream, Unlink
<1> QED
  BY <1>1, <1>2, <1>3 DEF Listed, Linked

LEMMA InsertKeeps ==
  ASSUME Listed, NEW n \in Slot \ live,
         chain' = Inserted(chain, n), live' = live \cup {n}, after' = LinkFirst(after, live, n)
  PROVE  Listed'
<1>1. chain' \in Chain /\ Represents(chain', after', live')
  BY InsertedRepresents DEF Listed, Linked
<1>2. Ordered(after', live')
  BY LinkFirstOrdered DEF Listed
<1>3. live' \subseteq Slot /\ after' \in [Slot -> SUBSET Slot]
  BY DEF Listed, LinkFirst
<1> QED
  BY <1>1, <1>2, <1>3 DEF Listed, Linked

(* An eviction and the insertion after it, which takes the same slot.      *)
LEMMA ReplaceKeeps ==
  ASSUME Listed, NEW v \in live,
         chain' = Inserted(Removed(chain, v), v), live' = live,
         after' = LinkFirst(after, live, v)
  PROVE  Listed'
<1> DEFINE c == Removed(chain, v)
           f == Unlink(after, {v})
           L == live \ {v}
<1>1. c \in Chain /\ Represents(c, f, L)
  BY RemovedRepresents DEF Listed, Linked
<1>2. Ordered(f, L) /\ L \in SUBSET Slot /\ v \in Slot \ L /\ f \in [Slot -> SUBSET Slot]
  BY UnlinkOrdered DEF Listed, Unlink
<1>3. LinkFirst(f, L, v) = LinkFirst(after, live, v)
  <2>1. \A s \in Slot : s # v => f[s] \ {v} = after[s] \ {v}
    BY DEF Unlink
  <2>2. L \ {v} = live \ {v}
    OBVIOUS
  <2> HIDE DEF f, L
  <2> QED
    BY <2>1, <2>2 DEF LinkFirst
<1>4. L \cup {v} = live
  OBVIOUS
<1> HIDE DEF c, f, L
<1>5. Inserted(c, v) \in Chain /\ Represents(Inserted(c, v), LinkFirst(f, L, v), L \cup {v})
  BY <1>1, <1>2, InsertedRepresents
<1>6. Ordered(LinkFirst(f, L, v), L \cup {v})
  BY <1>2, LinkFirstOrdered
<1>7. after' \in [Slot -> SUBSET Slot]
  BY DEF Listed, LinkFirst
<1> QED
  BY <1>3, <1>4, <1>5, <1>6, <1>7 DEF Listed, Linked, c

-----------------------------------------------------------------------------
(* The invariant *)

LEMMA InitHolds == Init => IInv
<1> SUFFICES ASSUME Init PROVE IInv
  OBVIOUS
<1> USE DEF Init
<1>1. 1 \in Slot /\ 1 # NULL
  BY PoolSizeAssumption DEF Slot, NULL
<1>2. TypeOK
  BY <1>1 DEF TypeOK, Chain, Pointer, EmptyList
<1>3. after[1] = {}
  BY <1>1 DEF EmptyList
<1>4. Ordered(after, live)
  BY <1>3 DEF Ordered
<1>5. Linked
  BY <1>1, <1>3 DEF Linked, Represents, IsHead, IsOldest, IsNext
<1>6. CursorsListed
  BY DEF CursorsListed
<1>7. CleanupProgress /\ WalkProgress /\ DrainProgress /\ SeekProgress
  BY <1>1, <1>3 DEF CleanupProgress, WalkProgress, DrainProgress, SeekProgress, Ahead, Seeking
<1> QED
  BY <1>2, <1>4, <1>5, <1>6, <1>7 DEF IInv

(* Steps that leave the list alone keep the part of the invariant that     *)
(* speaks of the list.                                                     *)
LEMMA ListAlone ==
  ASSUME IInv, UNCHANGED <<chain, live, after>>
  PROVE  Ordered(after', live') /\ Linked'
<1>1. chain' = chain /\ live' = live /\ after' = after
  OBVIOUS
<1> QED
  BY <1>1 DEF IInv, Linked

(* cleanup_streams and remove_all_streams: a stream is removed, and the    *)
(* loop goes on with the successor it had.                                 *)
LEMMA RemoveStep ==
  ASSUME IInv, iter # NULL, iter \in live, RemoveStream(iter), iter' = chain.next[iter],
         UNCHANGED <<abandoned, due>>
  PROVE  /\ Listed'
         /\ listener' \in Pointer
         /\ iter' \in live' \cup {NULL}
         /\ Ahead(after', iter') = after[iter]
<1>1. Listed'
  BY RemoveKeeps DEF IInv, TypeOK, Listed
<1>2. listener' \in Pointer
  BY DEF IInv, TypeOK, RemoveStream, Pointer
<1>3. /\ iter' \in live \cup {NULL} /\ Ahead(after, iter') = after[iter]
      /\ iter \notin after[iter] /\ after[iter] \subseteq live
  BY StepAhead DEF IInv
<1>4. iter' # iter
  BY <1>3 DEF Ahead
<1>5. iter' # NULL => after'[iter'] = after[iter'] \ {iter}
  BY <1>3, <1>4 DEF RemoveStream, Unlink, IInv, TypeOK
<1>6. Ahead(after', iter') = after[iter]
  <2>1. CASE iter' = NULL
    BY <1>3, <2>1 DEF Ahead
  <2>2. CASE iter' # NULL
    BY <1>3, <1>4, <1>5, <2>2 DEF Ahead
  <2> QED
    BY <2>1, <2>2
<1> QED
  BY <1>1, <1>2, <1>3, <1>4, <1>6 DEF RemoveStream

LEMMA CleanupKeepsInvariant ==
  ASSUME IInv, CleanupRemoves \/ CleanupKeeps \/ CleanupEnds
  PROVE  IInv'
<1> USE DEF IInv
<1>1. CASE CleanupRemoves
  <2>1. iter # NULL /\ iter \in live
    BY <1>1, NullIsNoSlot DEF CleanupRemoves, CursorsListed, TypeOK
  <2>2. /\ Listed' /\ listener' \in Pointer
        /\ iter' \in live' \cup {NULL} /\ Ahead(after', iter') = after[iter]
    BY <1>1, <2>1, RemoveStep DEF CleanupRemoves
  <2>3. TypeOK'
    BY <1>1, <2>2 DEF CleanupRemoves, TypeOK, Listed, Pointer
  <2>4. CursorsListed'
    BY <1>1, <2>2 DEF CleanupRemoves, CursorsListed
  <2>5. CleanupProgress'
    BY <1>1, <2>1, <2>2 DEF CleanupRemoves, RemoveStream, CleanupProgress, Ahead
  <2>6. WalkProgress' /\ DrainProgress' /\ SeekProgress'
    BY <1>1 DEF CleanupRemoves, WalkProgress, DrainProgress, SeekProgress, Seeking
  <2> QED
    BY <2>2, <2>3, <2>4, <2>5, <2>6 DEF Listed
<1>2. CASE CleanupKeeps
  <2>1. iter \in live
    BY <1>2 DEF CleanupKeeps, CursorsListed
  <2>2. iter' \in live \cup {NULL} /\ Ahead(after, iter') = after[iter]
    BY <1>2, <2>1, StepAhead DEF CleanupKeeps
  <2>3. TypeOK'
    BY <1>2, <2>2 DEF CleanupKeeps, TypeOK, Pointer
  <2>4. CursorsListed'
    BY <1>2, <2>2 DEF CleanupKeeps, CursorsListed
  <2>5. CleanupProgress'
    BY <1>2, <2>1, <2>2 DEF CleanupKeeps, CleanupProgress, Ahead
  <2>6. WalkProgress' /\ DrainProgress' /\ SeekProgress'
    BY <1>2 DEF CleanupKeeps, WalkProgress, DrainProgress, SeekProgress, Seeking
  <2>7. Ordered(after', live') /\ Linked'
    BY <1>2, ListAlone DEF CleanupKeeps
  <2> QED
    BY <2>3, <2>4, <2>5, <2>6, <2>7
<1>3. CASE CleanupEnds
  <2>1. Ordered(after', live') /\ Linked'
    BY <1>3, ListAlone DEF CleanupEnds
  <2>2. TypeOK' /\ CursorsListed'
    BY <1>3 DEF CleanupEnds, cursor, TypeOK, CursorsListed
  <2>3. CleanupProgress' /\ WalkProgress' /\ DrainProgress' /\ SeekProgress'
    BY <1>3 DEF CleanupEnds, CleanupProgress, WalkProgress, DrainProgress, SeekProgress,
                Seeking, Ahead
  <2> QED
    BY <2>1, <2>2, <2>3
<1> QED
  BY <1>1, <1>2, <1>3

LEMMA WatchKeepsInvariant ==
  ASSUME IInv, Watch \/ Idle \/ Fail
  PROVE  IInv'
<1> USE DEF IInv
<1>1. chain.head \in live \cup {NULL} /\ Ahead(after, chain.head) = live
  BY HeadAhead
<1>2. Ordered(after', live') /\ Linked'
  BY ListAlone DEF Watch, Idle, Fail
<1>3. TypeOK' /\ CursorsListed'
  BY <1>1 DEF Watch, Idle, Fail, TypeOK, CursorsListed, Pointer
<1>4. CleanupProgress' /\ WalkProgress' /\ DrainProgress' /\ SeekProgress'
  BY <1>1 DEF Watch, Idle, Fail, CleanupProgress, WalkProgress, DrainProgress,
              SeekProgress, Seeking
<1> QED
  BY <1>2, <1>3, <1>4

LEMMA DrainKeepsInvariant ==
  ASSUME IInv, DrainRemoves \/ DrainEnds
  PROVE  IInv'
<1> USE DEF IInv
<1>1. CASE DrainRemoves
  <2>1. iter # NULL /\ iter \in live
    BY <1>1 DEF DrainRemoves, CursorsListed
  <2>2. /\ Listed' /\ listener' \in Pointer
        /\ iter' \in live' \cup {NULL} /\ Ahead(after', iter') = after[iter]
    BY <1>1, <2>1, RemoveStep DEF DrainRemoves
  <2>3. TypeOK'
    BY <1>1, <2>2 DEF DrainRemoves, TypeOK, Listed, Pointer
  <2>4. CursorsListed'
    BY <1>1, <2>2 DEF DrainRemoves, CursorsListed
  <2>5. DrainProgress'
    BY <1>1, <2>1, <2>2 DEF DrainRemoves, RemoveStream, DrainProgress, Ahead
  <2>6. WalkProgress' /\ CleanupProgress' /\ SeekProgress'
    BY <1>1 DEF DrainRemoves, WalkProgress, CleanupProgress, SeekProgress, Seeking
  <2> QED
    BY <2>2, <2>3, <2>4, <2>5, <2>6 DEF Listed
<1>2. CASE DrainEnds
  <2>1. Ordered(after', live') /\ Linked'
    BY <1>2, ListAlone DEF DrainEnds
  <2>2. TypeOK' /\ CursorsListed'
    BY <1>2 DEF DrainEnds, cursor, TypeOK, CursorsListed
  <2>3. CleanupProgress' /\ WalkProgress' /\ DrainProgress' /\ SeekProgress'
    BY <1>2 DEF DrainEnds, CleanupProgress, WalkProgress, DrainProgress, SeekProgress,
                Seeking, Ahead
  <2> QED
    BY <2>1, <2>2, <2>3
<1> QED
  BY <1>1, <1>2

(* A handler: the walk moves on to the successor, which an insertion at    *)
(* the head leaves what it was.                                            *)
LEMMA HandleKeepsInvariant ==
  ASSUME IInv, HandleOnly \/ HandleInsert \/ HandleNeedsSlot \/ WalkEnds
  PROVE  IInv'
<1> USE DEF IInv
<1>1. CASE WalkEnds
  <2>1. chain.head \in live \cup {NULL} /\ Ahead(after, chain.head) = live
    BY HeadAhead
  <2>2. Ordered(after', live') /\ Linked'
    BY <1>1, ListAlone DEF WalkEnds
  <2>3. TypeOK' /\ CursorsListed'
    BY <1>1, <2>1 DEF WalkEnds, TypeOK, CursorsListed, Pointer
  <2>4. CleanupProgress' /\ WalkProgress' /\ DrainProgress' /\ SeekProgress'
    BY <1>1, <2>1 DEF WalkEnds, CleanupProgress, WalkProgress, DrainProgress, SeekProgress,
                Seeking
  <2> QED
    BY <2>2, <2>3, <2>4
<1>2. CASE AtStream
  <2>1. iter \in live
    BY <1>2 DEF AtStream, CursorsListed
  <2>2. /\ chain.next[iter] \in live \cup {NULL}
        /\ Ahead(after, chain.next[iter]) = after[iter]
        /\ iter \notin after[iter] /\ after[iter] \subseteq live
    BY <2>1, StepAhead
  <2>3. due \subseteq {iter} \cup after[iter]
    BY <1>2 DEF AtStream, WalkProgress, Ahead
  <2>4. CASE HandleOnly
    <3>1. Ordered(after', live') /\ Linked'
      BY <2>4, ListAlone DEF HandleOnly
    <3>2. abandoned' \subseteq Slot
      BY <2>1, <2>4 DEF HandleOnly, Marked, TypeOK, Pointer
    <3>3. TypeOK' /\ CursorsListed'
      BY <1>2, <2>2, <2>4, <3>2 DEF HandleOnly, AtStream, TypeOK, CursorsListed, Pointer
    <3>4. CleanupProgress' /\ WalkProgress' /\ DrainProgress' /\ SeekProgress'
      BY <1>2, <2>2, <2>3, <2>4 DEF HandleOnly, AtStream, CleanupProgress, WalkProgress,
                  DrainProgress, SeekProgress, Seeking
    <3> QED
      BY <3>1, <3>3, <3>4
  <2>5. CASE HandleInsert
    <3>1. PICK n \in Slot : /\ IsFirstFree(live, n)
                            /\ chain' = Inserted(chain, n)
                            /\ live' = live \cup {n}
                            /\ abandoned' = abandoned \ {n}
                            /\ after' = LinkFirst(after, live, n)
      BY <2>5 DEF HandleInsert
    <3>2. n \in Slot \ live
      BY <3>1 DEF IsFirstFree
    <3>3. Listed'
      BY <3>1, <3>2, InsertKeeps DEF Listed, TypeOK
    <3>4. TypeOK' /\ CursorsListed'
      BY <1>2, <2>2, <2>5, <3>1, <3>3 DEF HandleInsert, AtStream, TypeOK, CursorsListed,
         Pointer, Listed
    <3>5. Ahead(after', iter') = Ahead(after, iter')
      <4>1. iter' \in live \cup {NULL}
        BY <2>2, <2>5 DEF HandleInsert
      <4>2. CASE iter' = NULL
        BY <4>2 DEF Ahead
      <4>3. CASE iter' # NULL
        <5>1. n \notin after[iter'] /\ iter' # n /\ iter' \in Slot
          BY <3>2, <4>1, <4>3 DEF Ordered, TypeOK
        <5>2. after'[iter'] = after[iter'] \ {n}
          BY <3>1, <5>1 DEF LinkFirst
        <5> QED
          BY <5>1, <5>2 DEF Ahead
      <4> QED
        BY <4>2, <4>3
    <3>6. CleanupProgress' /\ WalkProgress' /\ DrainProgress' /\ SeekProgress'
      BY <1>2, <2>2, <2>3, <2>5, <3>5 DEF HandleInsert, AtStream, CleanupProgress,
                  WalkProgress, DrainProgress, SeekProgress, Seeking
    <3> QED
      BY <3>3, <3>4, <3>6 DEF Listed
  <2>6. CASE HandleNeedsSlot
    <3>1. chain.tail \in live /\ chain.tail # NULL /\ after[chain.tail] = {}
      BY <2>1, TailFirst
    <3>2. Ordered(after', live') /\ Linked'
      BY <2>6, ListAlone DEF HandleNeedsSlot
    <3>3. TypeOK' /\ CursorsListed'
      BY <1>2, <2>1, <2>2, <2>6, <3>1 DEF HandleNeedsSlot, AtStream, TypeOK, CursorsListed,
         Pointer
    <3>4. CleanupProgress' /\ WalkProgress' /\ DrainProgress'
      BY <1>2, <2>3, <2>6 DEF HandleNeedsSlot, AtStream, CleanupProgress, WalkProgress,
         DrainProgress, Ahead
    <3>5. SeekProgress'
      BY <1>2, <2>6, <3>1 DEF HandleNeedsSlot, AtStream, SeekProgress, Seeking, Candidates
    <3> QED
      BY <3>2, <3>3, <3>4, <3>5
  <2> QED
    BY <1>2, <2>4, <2>5, <2>6 DEF WalkEnds, AtStream
<1> QED
  BY <1>1, <1>2 DEF HandleOnly, HandleInsert, HandleNeedsSlot

(* The search of force_cleanup, and the eviction it ends with.             *)
LEMMA SeekKeepsInvariant ==
  ASSUME IInv, Evict \/ SeekOn \/ SeekPort
  PROVE  IInv'
<1> USE DEF IInv
<1>1. Seeking
  BY DEF Evict, EvictThen, SeekOn, SeekPort, Seeking
<1>2. /\ live = Slot /\ iter \in live /\ iter # NULL /\ iter \notin abandoned
      /\ saved = chain.next[iter]
      /\ excl = IF iter = listener THEN NULL ELSE iter
      /\ pc = "port" => abandoned \subseteq {excl}
      /\ Candidates \cap (IF seek = NULL THEN live ELSE after[seek]) = {}
      /\ saved \in live \cup {NULL} /\ seek \in live \cup {NULL}
      /\ due \subseteq {iter} \cup after[iter]
  BY <1>1 DEF SeekProgress, CursorsListed, Seeking, WalkProgress, Ahead
<1>3. CASE Evict
  <2>1. seek \in live /\ seek # NULL
    BY <1>2, <1>3 DEF Evict, EvictThen, Eligible
  <2>2. /\ chain' = Inserted(Removed(chain, seek), seek)
        /\ after' = LinkFirst(after, live, seek)
        /\ live' = live
        /\ pc' = "walk" /\ iter' = saved /\ due' = due \ {iter, seek}
    BY <1>3 DEF Evict, EvictThen
  <2>3. Listed'
    BY <2>1, <2>2, ReplaceKeeps DEF Listed, TypeOK
  <2>4. abandoned' \subseteq Slot /\ listener' \in Pointer
    BY <1>3, <2>1 DEF Evict, EvictThen, Marked, TypeOK, Pointer
  <2>5. TypeOK' /\ CursorsListed'
    BY <1>2, <1>3, <2>2, <2>3, <2>4 DEF Evict, EvictThen, TypeOK, CursorsListed, Listed, Pointer
  <2>6. after[iter] = Ahead(after, saved)
    BY <1>2, StepAhead
  <2>7. Ahead(after, saved) \ {seek} \subseteq Ahead(after', saved)
    <3>1. CASE saved = NULL
      BY <3>1 DEF Ahead
    <3>2. CASE saved = seek
      BY <2>1, <2>2, <2>6, <3>2, StepAhead DEF Ahead, LinkFirst, TypeOK
    <3>3. CASE saved # NULL /\ saved # seek
      <4>1. after'[saved] = after[saved] \ {seek}
        BY <1>2, <2>2, <3>3 DEF LinkFirst, TypeOK
      <4> QED
        BY <3>3, <4>1 DEF Ahead
    <3> QED
      BY <3>1, <3>2, <3>3
  <2>8. WalkProgress'
    BY <1>2, <2>2, <2>6, <2>7 DEF WalkProgress
  <2>9. CleanupProgress' /\ DrainProgress' /\ SeekProgress'
    BY <2>2 DEF CleanupProgress, DrainProgress, SeekProgress, Seeking
  <2> QED
    BY <2>3, <2>5, <2>8, <2>9 DEF Listed
<1>4. CASE SeekOn
  <2>1. seek \in live /\ seek # NULL
    BY <1>2, <1>4 DEF SeekOn
  <2>2. /\ chain.prev[seek] \in live \cup {NULL}
        /\ (IF chain.prev[seek] = NULL THEN live ELSE after[chain.prev[seek]])
             = after[seek] \cup {seek}
    BY <2>1, StepBack
  <2>3. seek \notin Candidates
    BY <1>1, <1>4, <2>1 DEF SeekOn, Eligible, Candidates, Seeking
  <2>4. Ordered(after', live') /\ Linked'
    BY <1>4, ListAlone DEF SeekOn
  <2>5. TypeOK' /\ CursorsListed'
    BY <1>4, <2>2 DEF SeekOn, TypeOK, CursorsListed, Pointer
  <2>6. CleanupProgress' /\ WalkProgress' /\ DrainProgress'
    BY <1>1, <1>4 DEF SeekOn, CleanupProgress, WalkProgress, DrainProgress, Seeking
  <2>7. Candidates' = Candidates
    BY <1>4 DEF SeekOn, Candidates
  <2>8. SeekProgress'
    BY <1>2, <1>4, <2>1, <2>2, <2>3, <2>7 DEF SeekOn, SeekProgress
  <2> QED
    BY <2>4, <2>5, <2>6, <2>8
<1>5. CASE SeekPort
  <2>1. chain.tail \in live /\ chain.tail # NULL /\ after[chain.tail] = {}
    BY <1>2, TailFirst
  <2>2. abandoned \subseteq {excl}
    BY <1>2, <1>5 DEF SeekPort, Candidates, TypeOK
  <2>3. Ordered(after', live') /\ Linked'
    BY <1>5, ListAlone DEF SeekPort
  <2>4. TypeOK' /\ CursorsListed'
    BY <1>5, <2>1 DEF SeekPort, TypeOK, CursorsListed, Pointer
  <2>5. CleanupProgress' /\ WalkProgress' /\ DrainProgress'
    BY <1>1, <1>5 DEF SeekPort, CleanupProgress, WalkProgress, DrainProgress, Seeking
  <2>6. SeekProgress'
    BY <1>2, <1>5, <2>1, <2>2 DEF SeekPort, SeekProgress
  <2> QED
    BY <2>3, <2>4, <2>5, <2>6
<1> QED
  BY <1>3, <1>4, <1>5

LEMMA NextHolds == IInv /\ [Next]_vars => IInv'
<1> SUFFICES ASSUME IInv, [Next]_vars PROVE IInv'
  OBVIOUS
<1>1. CASE UNCHANGED vars
  <2>1. Ordered(after', live') /\ Linked'
    BY <1>1, ListAlone DEF vars
  <2>2. TypeOK' /\ CursorsListed'
    BY <1>1 DEF IInv, vars, cursor, TypeOK, CursorsListed
  <2>3. CleanupProgress' /\ WalkProgress' /\ DrainProgress' /\ SeekProgress'
    BY <1>1 DEF IInv, vars, cursor, CleanupProgress, WalkProgress, DrainProgress,
                SeekProgress, Candidates, Seeking, Ahead
  <2> QED
    BY <2>1, <2>2, <2>3 DEF IInv
<1>2. CASE Next
  BY <1>1, <1>2, CleanupKeepsInvariant, WatchKeepsInvariant, HandleKeepsInvariant,
     SeekKeepsInvariant, DrainKeepsInvariant DEF Next, Ended
<1> QED
  BY <1>1, <1>2

-----------------------------------------------------------------------------
(* The theorems *)

(* The inductive invariant: pointers, cursors and the progress of every    *)
(* loop hold together, for every size of the pool.                         *)
THEOREM Invariant == Spec => []IInv
BY InitHolds, NextHolds, PTL DEF Spec

(* The pointers and cursors designate slots or nothing, through every loop *)
(* of util.c that removes or inserts a stream.                             *)
THEOREM TypeCorrect == Spec => []TypeOK
<1>1. IInv => TypeOK
  BY DEF IInv
<1> QED
  BY <1>1, Invariant, PTL

(* prev, next, stream_head and stream_tail agree with the order in which   *)
(* the streams were linked, at every step of every loop.                   *)
THEOREM StaysLinked == Spec => []Linked
<1>1. IInv => Linked
  BY DEF IInv
<1> QED
  BY <1>1, Invariant, PTL

(* No loop holds a pointer to a stream that was removed, although handlers *)
(* remove other streams than their own.                                    *)
THEOREM CursorsStayListed == Spec => []CursorsListed
<1>1. IInv => CursorsListed
  BY DEF IInv
<1> QED
  BY <1>1, Invariant, PTL

(* A walk that ends has handled every stream that was in the list when it  *)
(* began, but for those it evicted.                                        *)
THEOREM NothingSkipped == Spec => []NoneSkipped
<1>1. IInv => NoneSkipped
  BY DEF IInv, WalkProgress, Ahead, NoneSkipped
<1> QED
  BY <1>1, Invariant, PTL

(* When the proxy has ended, no stream is left and the list is empty.      *)
THEOREM DrainsAll == Spec => []DrainedEmpty
<1>1. IInv => DrainedEmpty
  BY DEF IInv, DrainProgress, DrainedEmpty, Linked, Represents
<1> QED
  BY <1>1, Invariant, PTL

-----------------------------------------------------------------------------
(* The list implements StreamOrder *)

(* The operators of StreamPool mean the same to both specifications.       *)
LEMMA SamePool ==
  /\ Order!NULL = NULL /\ Order!Slot = Slot /\ Order!EmptyList = EmptyList
  /\ \A f, gone : Order!Unlink(f, gone) = Unlink(f, gone)
  /\ \A f, L, n : Order!LinkFirst(f, L, n) = LinkFirst(f, L, n)
  /\ \A f, s, t : Order!IsNext(f, s, t) <=> IsNext(f, s, t)
  /\ \A f, L, t : Order!IsHead(f, L, t) <=> IsHead(f, L, t)
  /\ \A f, S, t : Order!IsOldest(f, S, t) <=> IsOldest(f, S, t)
  /\ \A L, n : Order!IsFirstFree(L, n) <=> IsFirstFree(L, n)
BY DEF Order!NULL, NULL, Order!Slot, Slot, Order!EmptyList, EmptyList, Order!Unlink, Unlink,
       Order!LinkFirst, LinkFirst, Order!IsNext, IsNext, Order!IsHead, IsHead,
       Order!IsOldest, IsOldest, Order!IsFirstFree, IsFirstFree

LEMMA InitMaps == Init => Order!Init
BY SamePool DEF Init, Order!Init, Phase, Position

(* cleanup_streams frees abandoned streams one by one; what else it does,  *)
(* and the search of force_cleanup, StreamOrder does not see.              *)
LEMMA CleanupMaps ==
  ASSUME IInv, CleanupRemoves
  PROVE  Order!Free
<1>1. iter \in live \cap abandoned
  BY NullIsNoSlot DEF IInv, TypeOK, CursorsListed, CleanupRemoves
<1>2. Phase = "cleanup" /\ Phase' = "cleanup" /\ Position = NULL /\ Position' = NULL
  BY DEF CleanupRemoves, Phase, Position
<1>3. Order!Leaves(iter)
  BY SamePool DEF CleanupRemoves, RemoveStream, Order!Leaves
<1> QED
  BY <1>1, <1>2, <1>3 DEF CleanupRemoves, Order!Free

LEMMA DrainMaps ==
  ASSUME IInv, DrainRemoves
  PROVE  Order!Drain
<1>1. iter \in live
  BY DEF IInv, CursorsListed, DrainRemoves
<1>2. Phase = "drain" /\ Phase' = "drain" /\ Position = NULL /\ Position' = NULL
  BY DEF DrainRemoves, Phase, Position
<1>3. Order!Leaves(iter)
  BY SamePool DEF DrainRemoves, RemoveStream, Order!Leaves
<1> QED
  BY <1>1, <1>2, <1>3 DEF DrainRemoves, Order!Drain

(* Steps at the head and at the end of the walk. *)
LEMMA WatchMaps ==
  ASSUME IInv
  PROVE  /\ Watch => Order!StartWalk
         /\ Idle => Order!Expire
         /\ Fail => Order!StartDrain
         /\ WalkEnds => Order!EndWalk
<1>1. ASSUME Watch PROVE Order!StartWalk
  <2>1. /\ Phase = "cleanup" /\ Phase' = "walk" /\ Position' = chain.head
        /\ live \cap abandoned = {}
    BY <1>1 DEF Watch, Phase, Position, IInv, CleanupProgress
  <2>2. chain.head \in live /\ IsHead(after, live, chain.head)
    BY <1>1 DEF Watch, IInv, Linked, Represents, IsHead
  <2> QED
    BY SamePool, <1>1, <2>1, <2>2 DEF Watch, Order!StartWalk
<1>2. ASSUME Idle PROVE Order!Expire
  <2>1. /\ Phase = "cleanup" /\ Phase' = "cleanup" /\ Position = NULL /\ Position' = NULL
        /\ live \cap abandoned = {}
    BY <1>2 DEF Idle, Phase, Position, IInv, CleanupProgress
  <2> QED
    BY SamePool, <1>2, <2>1 DEF Idle, Order!Expire
<1>3. ASSUME Fail PROVE Order!StartDrain
  <2>1. Phase \in {"cleanup", "walk"} /\ Phase' = "drain" /\ Position' = NULL
    BY <1>3 DEF Fail, Phase, Position
  <2> QED
    BY SamePool, <1>3, <2>1 DEF Fail, Order!StartDrain
<1>4. ASSUME WalkEnds PROVE Order!EndWalk
  <2>1. /\ Phase = "walk" /\ Phase' = "cleanup" /\ Position = NULL /\ Position' = NULL
        /\ due = {}
    BY <1>4 DEF WalkEnds, Phase, Position, IInv, WalkProgress, Ahead
  <2> QED
    BY SamePool, <1>4, <2>1 DEF WalkEnds, Order!EndWalk
<1> QED
  BY <1>1, <1>2, <1>3, <1>4

LEMMA HandleMaps ==
  ASSUME IInv
  PROVE  /\ HandleOnly => Order!HandleOnly
         /\ HandleInsert => Order!HandleInsert
<1>1. ASSUME AtStream, pc' = "walk", iter' = chain.next[iter], due' = due \ {iter}
      PROVE  Order!MoveOn({}) /\ Phase' = Phase /\ Position = iter /\ iter \in live
  <2>1. iter \in live /\ iter \in Slot /\ Position = iter
    BY <1>1 DEF AtStream, IInv, TypeOK, CursorsListed, Phase, Position
  <2>2. IsNext(after, iter, chain.next[iter]) /\ chain.next[iter] \in Slot \cup {NULL}
    BY <2>1, StepAhead DEF IInv, TypeOK
  <2>3. Phase = "walk" /\ Phase' = "walk" /\ Position' = chain.next[iter]
    BY <1>1 DEF AtStream, Phase, Position
  <2> QED
    BY SamePool, <1>1, <2>1, <2>2, <2>3 DEF AtStream, Order!MoveOn
<1>2. ASSUME HandleOnly PROVE Order!HandleOnly
  <2>1. Order!MoveOn({}) /\ Phase' = Phase /\ Position = iter /\ iter \in Slot
    BY <1>1, <1>2 DEF HandleOnly, AtStream, IInv, TypeOK
  <2>2. PICK t \in Pointer : abandoned' \in {abandoned, Marked(iter, t)}
    BY <1>2 DEF HandleOnly
  <2>3. \E u \in Slot : abandoned' \in {abandoned, abandoned \cup {Position, u}}
    <3>1. CASE t = NULL
      <4>1. Marked(iter, t) = abandoned \cup {Position, iter}
        BY <2>1, <3>1, NullIsNoSlot DEF Marked
      <4> QED
        BY <2>1, <2>2, <4>1
    <3>2. CASE t # NULL
      <4>1. t \in Slot /\ Marked(iter, t) = abandoned \cup {Position, t}
        BY <2>1, <3>2, NullIsNoSlot DEF Marked, Pointer
      <4> QED
        BY <2>2, <4>1
    <3> QED
      BY <3>1, <3>2
  <2> QED
    BY SamePool, <1>2, <2>1, <2>3 DEF HandleOnly, Order!HandleOnly
<1>3. ASSUME HandleInsert PROVE Order!HandleInsert
  <2>1. Order!MoveOn({}) /\ Phase' = Phase
    BY <1>1, <1>3 DEF HandleInsert, AtStream
  <2> QED
    BY SamePool, <1>3, <2>1 DEF HandleInsert, Order!HandleInsert
<1> QED
  BY <1>2, <1>3

(* force_cleanup finds the oldest abandoned stream, or else the oldest one *)
(* but the listener: it has passed every older one.                        *)
LEMMA EvictMaps ==
  ASSUME IInv, Evict
  PROVE  Order!HandleReplace
<1>1. /\ live = Slot /\ iter \in live /\ iter # NULL /\ iter \notin abandoned
      /\ saved = chain.next[iter]
      /\ excl = IF iter = listener THEN NULL ELSE iter
      /\ pc = "port" => abandoned \subseteq {excl}
      /\ Candidates \cap (IF seek = NULL THEN live ELSE after[seek]) = {}
  BY DEF IInv, SeekProgress, CursorsListed, Seeking, Evict, EvictThen
<1>2. seek \in Slot /\ seek # NULL /\ Seeking /\ Eligible
  BY NullIsNoSlot DEF IInv, TypeOK, Pointer, Evict, EvictThen, Eligible
<1>3. /\ Phase = "walk" /\ Phase' = "walk" /\ Position = iter /\ Position' = saved
  BY <1>2 DEF Evict, EvictThen, Phase, Position, Seeking
<1>4. abandoned \subseteq Slot
  BY DEF IInv, TypeOK
<1>5. Order!IsVictim(seek, excl)
  <2>1. CASE pc = "leftover"
    <3>1. seek \in (live \cap abandoned) \ {excl}
      BY <1>1, <1>2, <2>1 DEF Eligible
    <3>2. after[seek] \cap ((live \cap abandoned) \ {excl}) = {}
      BY <1>1, <1>2, <2>1 DEF Candidates
    <3> QED
      BY SamePool, <3>1, <3>2 DEF Order!IsVictim, IsOldest
  <2>2. CASE pc = "port"
    <3>1. (live \cap abandoned) \ {excl} = {}
      BY <1>1, <2>2
    <3>2. seek \in live \ {excl, listener}
      BY <1>1, <1>2, <2>2 DEF Eligible
    <3>3. after[seek] \cap (live \ {excl, listener}) = {}
      BY <1>1, <1>2, <2>2 DEF Candidates
    <3> QED
      BY SamePool, <3>1, <3>2, <3>3 DEF Order!IsVictim, IsOldest
  <2> QED
    BY <1>2, <2>1, <2>2 DEF Seeking
<1>6. excl \in {NULL, Position} /\ (excl = NULL => Position = listener)
  BY <1>1, <1>3
<1>7. \E t \in Slot : abandoned' = (abandoned \cup {t}) \ {seek}
  <2>1. PICK t \in Pointer : abandoned' = Marked(seek, t) \ {seek}
    BY DEF Evict, EvictThen
  <2>2. CASE t = NULL
    <3>1. Marked(seek, t) \ {seek} = (abandoned \cup {seek}) \ {seek}
      BY <1>2, <2>2 DEF Marked
    <3> QED
      BY <1>2, <2>1, <3>1
  <2>3. CASE t # NULL
    <3>1. t \in Slot /\ Marked(seek, t) \ {seek} = (abandoned \cup {t}) \ {seek}
      BY <1>2, <2>3 DEF Marked, Pointer
    <3> QED
      BY <2>1, <3>1
  <2> QED
    BY <2>2, <2>3
<1>8. Order!MoveOn({seek})
  <2>1. IsNext(after, iter, saved) /\ saved \in Slot \cup {NULL}
    BY <1>1, StepAhead DEF IInv
  <2>2. due' = due \ ({iter} \cup {seek})
    BY DEF Evict, EvictThen
  <2> QED
    BY SamePool, <1>1, <1>3, <2>1, <2>2 DEF Order!MoveOn
<1>9. /\ after' = LinkFirst(after, live, seek)
      /\ listener' = IF seek = listener THEN NULL ELSE listener
      /\ live' = live
  BY DEF Evict, EvictThen
<1> QED
  BY SamePool, <1>1, <1>2, <1>3, <1>5, <1>6, <1>7, <1>8, <1>9 DEF Order!HandleReplace

(* What StreamOrder does not see. *)
LEMMA Stutters ==
  ASSUME IInv, \/ CleanupKeeps \/ CleanupEnds \/ HandleNeedsSlot \/ SeekOn \/ SeekPort
               \/ DrainEnds \/ Ended \/ UNCHANGED vars
  PROVE  UNCHANGED Order!vars
<1>1. UNCHANGED <<live, after, abandoned, listener, due>>
  BY DEF CleanupKeeps, CleanupEnds, HandleNeedsSlot, SeekOn, SeekPort, DrainEnds, Ended, vars,
         cursor
<1>2. UNCHANGED <<Phase, Position>>
  BY DEF CleanupKeeps, CleanupEnds, HandleNeedsSlot, AtStream, SeekOn, SeekPort, Seeking,
         DrainEnds, Ended, vars, cursor, Phase, Position
<1> QED
  BY <1>1, <1>2 DEF Order!vars

(* Every behaviour of the pointers is one of the abstract list: only       *)
(* abandoned streams are freed, all of them before a walk; the oldest one  *)
(* makes room, never the stream that asks; a walk handles every stream.    *)
THEOREM Implementation == Spec => ImplementsOrder
<1>1. IInv /\ [Next]_vars => [Order!Next]_(Order!vars)
  <2> SUFFICES ASSUME IInv, [Next]_vars PROVE Order!Next \/ UNCHANGED Order!vars
    OBVIOUS
  <2> QED
    BY CleanupMaps, DrainMaps, WatchMaps, HandleMaps, EvictMaps, Stutters DEF Next, Order!Next
<1> QED
  BY <1>1, InitMaps, Invariant, PTL DEF Spec, ImplementsOrder, Order!Spec

=============================================================================
