----------------------------- MODULE StreamList -----------------------------
(***************************************************************************)
(* The doubly linked stream list of struct proxy_t, and the loops over it. *)
(*                                                                         *)
(* Every loop is modelled one iteration at a time, with the pointers it    *)
(* holds: the stream it is at (iter), the successor that                   *)
(* handle_streams_cycle read before the handler (saved), and the position  *)
(* of force_cleanup in the handler (seek).  What handlers do apart from    *)
(* the list is left to ProxyLoop: here a handler may mark its stream and   *)
(* any other one, ask for a new stream, or end the proxy.                  *)
(*                                                                         *)
(* after and due are history variables: the order in which the streams     *)
(* were linked, and the streams that a walk has yet to handle.  They give  *)
(* the mapping under which this specification implements StreamOrder.      *)
(***************************************************************************)
EXTENDS StreamPool

VARIABLES
  pc,         \* the loop that runs
  iter,       \* its current stream
  saved,      \* next of handle_streams_cycle, while force_cleanup runs
  seek,       \* iter of force_cleanup
  excl,       \* excl of force_cleanup
  chain,      \* stream_head, stream_tail and the next and prev of each slot
  live,       \* the slots with allocated set
  abandoned,  \* the slots with abandoned set
  listener,   \* the slot with role L_ACCEPT, NULL once it was removed
  after,      \* history
  due         \* history

cursor == <<iter, saved, seek, excl>>
vars   == <<pc, cursor, chain, live, abandoned, listener, after, due>>

Pointer == Slot \cup {NULL}
Chain   == [head : Pointer, tail : Pointer, next : [Slot -> Pointer], prev : [Slot -> Pointer]]

TypeOK ==
  /\ pc \in {"cleanup", "watch", "walk", "leftover", "port", "drain", "done"}
  /\ iter \in Pointer /\ saved \in Pointer /\ seek \in Pointer /\ excl \in Pointer
  /\ chain \in Chain
  /\ live \subseteq Slot
  /\ abandoned \subseteq Slot
  /\ listener \in Pointer
  /\ after \in [Slot -> SUBSET Slot]
  /\ due \subseteq Slot

-----------------------------------------------------------------------------
(* Pointers *)

(* insert_stream: n is cleared and linked at the head. *)
Inserted(c, n) ==
  [head |-> n,
   tail |-> IF c.head = NULL THEN n ELSE c.tail,
   next |-> [c.next EXCEPT ![n] = c.head],
   prev |-> [s \in Slot |-> IF s = n THEN NULL ELSE IF s = c.head THEN n ELSE c.prev[s]]]

(* A mistake: the second neighbour of a removed stream is not updated. *)
RemovedForward(c, s) ==
  [c EXCEPT !.head = IF s = @ THEN c.next[s] ELSE @,
            !.tail = IF s = @ THEN c.prev[s] ELSE @,
            !.next = [t \in Slot |-> IF t = c.prev[s] THEN c.next[s] ELSE @[t]]]

(* remove_stream: the streams around s are linked to each other. *)
Removed(c, s) ==
  [head |-> IF s = c.head THEN c.next[s] ELSE c.head,
   tail |-> IF s = c.tail THEN c.prev[s] ELSE c.tail,
   next |-> [t \in Slot |-> IF t = c.prev[s] THEN c.next[s] ELSE c.next[t]],
   prev |-> [t \in Slot |-> IF t = c.next[s] THEN c.prev[s] ELSE c.prev[t]]]

-----------------------------------------------------------------------------
(* proxy_task has inserted the listen stream into an empty list. *)
Init ==
  /\ pc = "cleanup"
  /\ iter = 1
  /\ saved = NULL /\ seek = NULL /\ excl = NULL
  /\ chain = [head |-> 1, tail |-> 1, next |-> [s \in Slot |-> NULL], prev |-> [s \in Slot |-> NULL]]
  /\ live = {1}
  /\ abandoned = {}
  /\ listener = 1
  /\ after = EmptyList
  /\ due = {}

(* remove_stream *)
RemoveStream(s) ==
  /\ chain' = Removed(chain, s)
  /\ live' = live \ {s}
  /\ listener' = IF s = listener THEN NULL ELSE listener
  /\ after' = Unlink(after, {s})

(* remove_relation: s is marked, and the slot t that its neighbour         *)
(* pointer designates, if any.                                             *)
Marked(s, t) == abandoned \cup ({s, t} \ {NULL})

-----------------------------------------------------------------------------
(* cleanup_streams *)

(* A mistake: another abandoned stream, which may be the next one, is      *)
(* removed together with the current one.                                  *)
CleanupRemovesTwo ==
  /\ pc = "cleanup" /\ iter \in abandoned
  /\ \E t \in live \cap abandoned :
       /\ chain' = IF t = iter THEN Removed(chain, t) ELSE Removed(Removed(chain, iter), t)
       /\ live' = live \ {iter, t}
       /\ listener' = IF listener \in {iter, t} THEN NULL ELSE listener
       /\ after' = Unlink(after, {iter, t})
  /\ iter' = chain.next[iter]
  /\ UNCHANGED <<pc, saved, seek, excl, abandoned, due>>

CleanupRemoves ==
  /\ pc = "cleanup" /\ iter \in abandoned
  /\ RemoveStream(iter)
  /\ iter' = chain.next[iter]
  /\ UNCHANGED <<pc, saved, seek, excl, abandoned, due>>

CleanupKeeps ==
  /\ pc = "cleanup" /\ iter # NULL /\ iter \notin abandoned
  /\ iter' = chain.next[iter]
  /\ UNCHANGED <<pc, saved, seek, excl, chain, live, abandoned, listener, after, due>>

CleanupEnds ==
  /\ pc = "cleanup" /\ iter = NULL
  /\ pc' = "watch"
  /\ UNCHANGED <<cursor, chain, live, abandoned, listener, after, due>>

-----------------------------------------------------------------------------
(* watch_streams and its outcomes in handle_streams_cycle *)

(* Some stream is ready. *)
Watch ==
  /\ pc = "watch" /\ live # {}
  /\ pc' = "walk"
  /\ iter' = chain.head
  /\ due' = live
  /\ UNCHANGED <<saved, seek, excl, chain, live, abandoned, listener, after>>

(* remove_pending_streams marks streams, and cleanup_streams runs.  The    *)
(* cleanup of the next cycle finds nothing more, and is left out.          *)
Idle ==
  /\ pc = "watch"
  /\ \E M \in SUBSET Slot : abandoned' = abandoned \cup M
  /\ pc' = "cleanup"
  /\ iter' = chain.head
  /\ UNCHANGED <<saved, seek, excl, chain, live, listener, after, due>>

(* A negative status, from watch_streams or a handler: remove_all_streams. *)
Fail ==
  /\ pc = "watch" \/ (pc = "walk" /\ iter # NULL) \/ (pc = "port" /\ seek = NULL)
  /\ pc' = "drain"
  /\ iter' = chain.head
  /\ due' = {}
  /\ UNCHANGED <<saved, seek, excl, chain, live, abandoned, listener, after>>

-----------------------------------------------------------------------------
(* The walk of handle_streams_cycle *)

AtStream == pc = "walk" /\ iter # NULL

(* A stream is passed over, or handled without change to the list; it may  *)
(* be abandoned, and with it the slot its neighbour pointer designates.    *)
HandleOnly ==
  /\ AtStream
  /\ \E t \in Pointer : abandoned' \in {abandoned, Marked(iter, t)}
  /\ iter' = chain.next[iter]
  /\ due' = due \ {iter}
  /\ UNCHANGED <<pc, saved, seek, excl, chain, live, listener, after>>

(* A handler inserts a stream, and there is a free slot. *)
HandleInsert ==
  /\ AtStream
  /\ iter \notin abandoned
  /\ \E n \in Slot :
       /\ IsFirstFree(live, n)
       /\ chain' = Inserted(chain, n)
       /\ live' = live \cup {n}
       /\ abandoned' = abandoned \ {n}
       /\ after' = LinkFirst(after, live, n)
  /\ iter' = chain.next[iter]
  /\ due' = due \ {iter}
  /\ UNCHANGED <<pc, saved, seek, excl, listener>>

(* There is none: force_cleanup is called, by accept_new_stream without an *)
(* exception, by setup_endpoint_stream for the stream that is handled.     *)
HandleNeedsSlot ==
  /\ AtStream
  /\ iter \notin abandoned
  /\ live = Slot
  /\ pc' = "leftover"
  /\ saved' = chain.next[iter]
  /\ seek' = chain.tail
  /\ excl' = IF iter = listener THEN NULL ELSE iter
  /\ UNCHANGED <<iter, chain, live, abandoned, listener, after, due>>

WalkEnds ==
  /\ pc = "walk" /\ iter = NULL
  /\ pc' = "cleanup"
  /\ iter' = chain.head
  /\ UNCHANGED <<saved, seek, excl, chain, live, abandoned, listener, after, due>>

-----------------------------------------------------------------------------
(* force_cleanup, and the insertion after it *)

(* A mistake: the stream that asks for a slot may lose its own. *)
EligibleAny ==
  /\ seek # NULL
  /\ pc = "leftover" => seek \in abandoned
  /\ pc = "port" => seek # listener

(* The conditions of the two loops of force_cleanup. *)
Eligible ==
  /\ seek # NULL /\ seek # excl
  /\ pc = "leftover" => seek \in abandoned
  /\ pc = "port" => seek # listener

Seeking == pc \in {"leftover", "port"}

(* The stream is removed and its neighbour marked; insert_stream then      *)
(* finds the slot, and the walk goes on with t.                            *)
EvictThen(t) ==
  /\ Seeking /\ Eligible
  /\ chain' = Inserted(Removed(chain, seek), seek)
  /\ \E neighbour \in Pointer : abandoned' = Marked(seek, neighbour) \ {seek}
  /\ listener' = IF seek = listener THEN NULL ELSE listener
  /\ after' = LinkFirst(after, live, seek)
  /\ pc' = "walk"
  /\ iter' = t
  /\ due' = due \ {iter, seek}
  /\ saved' = NULL /\ seek' = NULL /\ excl' = NULL
  /\ UNCHANGED live

(* A mistake: the walk is given up when a stream was evicted. *)
EvictAndStop == EvictThen(NULL)

(* The walk goes on with the stream that was read before the handler. *)
Evict == EvictThen(saved)

SeekOn ==
  /\ Seeking /\ seek # NULL /\ ~ Eligible
  /\ seek' = chain.prev[seek]
  /\ UNCHANGED <<pc, iter, saved, excl, chain, live, abandoned, listener, after, due>>

(* A mistake: the search for abandoned streams starts again. *)
SeekAgain ==
  /\ pc = "leftover" /\ seek = NULL
  /\ seek' = chain.tail
  /\ UNCHANGED <<pc, iter, saved, excl, chain, live, abandoned, listener, after, due>>

(* No stream is abandoned: the second loop starts at the tail again. *)
SeekPort ==
  /\ pc = "leftover" /\ seek = NULL
  /\ pc' = "port"
  /\ seek' = chain.tail
  /\ UNCHANGED <<iter, saved, excl, chain, live, abandoned, listener, after, due>>

-----------------------------------------------------------------------------
(* remove_all_streams *)

(* A mistake: the loop moves on twice, in its body and in its header. *)
DrainEverySecond ==
  /\ pc = "drain" /\ iter # NULL
  /\ RemoveStream(iter)
  /\ iter' = IF chain.next[iter] = NULL THEN NULL ELSE chain.next[chain.next[iter]]
  /\ UNCHANGED <<pc, saved, seek, excl, abandoned, due>>

DrainRemoves ==
  /\ pc = "drain" /\ iter # NULL
  /\ RemoveStream(iter)
  /\ iter' = chain.next[iter]
  /\ UNCHANGED <<pc, saved, seek, excl, abandoned, due>>

DrainEnds ==
  /\ pc = "drain" /\ iter = NULL
  /\ pc' = "done"
  /\ UNCHANGED <<cursor, chain, live, abandoned, listener, after, due>>

Ended == pc = "done" /\ UNCHANGED vars

-----------------------------------------------------------------------------
Next ==
  \/ CleanupRemoves \/ CleanupKeeps \/ CleanupEnds
  \/ Watch \/ Idle \/ Fail
  \/ HandleOnly \/ HandleInsert \/ HandleNeedsSlot \/ WalkEnds
  \/ Evict \/ SeekOn \/ SeekPort
  \/ DrainRemoves \/ DrainEnds \/ Ended

(* The loops run in one thread and wait for nothing. *)
Spec == Init /\ [][Next]_vars /\ WF_vars(Next)

-----------------------------------------------------------------------------
(* Correctness *)

(* The pointers agree with the order in which the streams were linked. *)
Represents(c, order, streams) ==
  /\ IF streams = {} THEN c.head = NULL /\ c.tail = NULL
                     ELSE IsHead(order, streams, c.head) /\ IsOldest(order, streams, c.tail)
  /\ \A s \in streams :
       /\ IsNext(order, s, c.next[s])
       /\ IF c.prev[s] = NULL THEN IsHead(order, streams, s)
                              ELSE c.prev[s] \in streams /\ IsNext(order, c.prev[s], s)

(* Following next from head meets every allocated slot in the order of     *)
(* linking, and following prev from tail meets them in the other one, at   *)
(* every step of every loop.                                               *)
Linked == Represents(chain, after, live)

(* No loop ever reads a pointer of a stream that was removed. *)
CursorsListed ==
  /\ pc \in {"cleanup", "walk", "leftover", "port", "drain"} => iter \in live \cup {NULL}
  /\ pc \in {"leftover", "port"} => saved \in live \cup {NULL} /\ seek \in live \cup {NULL}

(* A walk has handled every stream that was in the list when it began and  *)
(* that was not evicted, even if an eviction sent it back to the head.     *)
NoneSkipped == pc = "walk" /\ iter = NULL => due = {}

(* When remove_all_streams has run, no stream is left and the list is      *)
(* empty.                                                                  *)
DrainedEmpty == pc = "done" => live = {} /\ chain.head = NULL /\ chain.tail = NULL

-----------------------------------------------------------------------------
(* The inductive invariant *)

(* The streams that a loop at i has yet to visit. *)
Ahead(order, i) == IF i = NULL THEN {} ELSE {i} \cup order[i]

(* What each of the loops has left behind. *)
CleanupProgress ==
  /\ pc = "cleanup" => live \cap abandoned \subseteq Ahead(after, iter)
  /\ pc = "watch" => live \cap abandoned = {}
WalkProgress == pc = "walk" \/ Seeking => due \subseteq Ahead(after, iter)
DrainProgress ==
  /\ pc = "drain" => live \subseteq Ahead(after, iter)
  /\ pc = "done" => live = {}

(* The streams that the current loop of force_cleanup would take. *)
Candidates == IF pc = "leftover" THEN abandoned \ {excl} ELSE live \ {excl, listener}

(* force_cleanup has passed none of them, and its caller is listed.        *)
SeekProgress ==
  Seeking =>
    /\ live = Slot
    /\ iter # NULL /\ iter \notin abandoned
    /\ saved = chain.next[iter]
    /\ excl = IF iter = listener THEN NULL ELSE iter
    /\ pc = "port" => abandoned \subseteq {excl}
    /\ Candidates \cap (IF seek = NULL THEN live ELSE after[seek]) = {}

(* Together they are inductive: a loop that follows pointers is right if   *)
(* these agree with the order and it is where it should be in the order.   *)
IInv ==
  /\ TypeOK /\ Ordered(after, live) /\ Linked /\ CursorsListed
  /\ CleanupProgress /\ WalkProgress /\ DrainProgress /\ SeekProgress

-----------------------------------------------------------------------------
(* Every loop but the walk ends, whatever the handlers do: cleanup, the    *)
(* search of force_cleanup, and the final removal.                         *)
LoopsEnd ==
  /\ pc = "cleanup" ~> pc = "watch"
  /\ pc = "leftover" ~> pc \in {"walk", "drain"}
  /\ pc = "drain" ~> pc = "done"

(* The mapping: the loops of force_cleanup run while a stream is handled,  *)
(* and the walk is at that stream; everything after a failure is draining. *)
Phase == CASE pc \in {"cleanup", "watch"} -> "cleanup"
           [] pc \in {"walk", "leftover", "port"} -> "walk"
           [] pc \in {"drain", "done"} -> "drain"

Position == IF Phase = "walk" THEN iter ELSE NULL

Order == INSTANCE StreamOrder WITH phase <- Phase, position <- Position

(* The list implements the abstract order: what the pointer loops do, one  *)
(* iteration at a time, is what StreamOrder says in a step.                *)
ImplementsOrder == Order!Spec

=============================================================================
