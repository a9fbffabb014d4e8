----------------------------- MODULE StreamPool -----------------------------
(***************************************************************************)
(* The stream pool of struct proxy_t and the order of its stream list.     *)
(*                                                                         *)
(* A stream is named by its slot of stream_pool.  insert_stream always     *)
(* links at stream_head, so the list is ordered from newest to oldest.     *)
(* Here the list is a set of slots, live, and a function after: after[s]   *)
(* holds the streams behind s, which are the older ones.  StreamList       *)
(* models the prev and next pointers and implements this view.             *)
(***************************************************************************)
EXTENDS Naturals

CONSTANT PoolSize   \* POOL_SIZE of config.h

ASSUME PoolSizeAssumption == PoolSize \in Nat \ {0}

Slot == 1 .. PoolSize

NULL == 0           \* the null struct stream_t pointer

(* The list holds no stream. *)
EmptyList == [s \in Slot |-> {}]

(* The list is a list: a strict total order of its streams. *)
Ordered(after, live) ==
  /\ \A s \in live : after[s] \subseteq live \ {s}
  /\ \A s, t \in live : s # t => (s \in after[t] <=> t \notin after[s])
  /\ \A s, t \in live : t \in after[s] => after[t] \subseteq after[s]

(* A mistake: a stream is linked at the tail of the list. *)
LinkLast(after, live, n) ==
  [s \in Slot |-> IF s \in live \ {n} THEN (after[s] \ {n}) \cup {n} ELSE {}]

(* n becomes the first stream of a list that held the streams of live. *)
LinkFirst(after, live, n) ==
  [s \in Slot |-> IF s = n THEN live \ {n} ELSE after[s] \ {n}]

(* The list without the streams of gone; the others keep their order. *)
Unlink(after, gone) ==
  [s \in Slot |-> IF s \in gone THEN {} ELSE after[s] \ gone]

(* t is the stream that s->next designates, NULL behind the oldest one. *)
IsNext(after, s, t) ==
  IF after[s] = {}
    THEN t = NULL
    ELSE t \in after[s] /\ after[s] = after[t] \cup {t}

(* t is stream_head: every other stream of the list is behind it. *)
IsHead(after, live, t) == t \in live /\ after[t] = live \ {t}

(* t is the stream of S that a walk from stream_tail through prev meets     *)
(* first: the oldest one.                                                  *)
IsOldest(after, S, t) == t \in S /\ after[t] \cap S = {}

(* n is the first slot of stream_pool that is not allocated. *)
IsFirstFree(live, n) ==
  n \in Slot \ live /\ \A m \in Slot \ live : n <= m

=============================================================================
