---------------------------- MODULE StreamOrder -----------------------------
(***************************************************************************)
(* What the stream list promises to the event loop, without pointers.      *)
(*                                                                         *)
(* Streams enter at the head.  Only abandoned streams are freed, and all   *)
(* of them before a walk begins; to make room, the oldest abandoned stream *)
(* goes, or else the oldest that is not the listener.  A walk handles      *)
(* every stream that was in the list when it began and was not evicted     *)
(* since.                                                                  *)
(***************************************************************************)
EXTENDS StreamPool

VARIABLES
  phase,      \* what the loop is doing: "cleanup", "walk" or "drain"
  position,   \* the stream that the walk handles next
  live,       \* the streams of the list
  after,      \* their order
  abandoned,  \* the slots marked for removal
  listener,   \* the listener's slot, NULL once it was removed
  due         \* streams that this walk has not handled yet

vars == <<phase, position, live, after, abandoned, listener, due>>

Init ==
  /\ phase = "cleanup"
  /\ position = NULL
  /\ live = {1}
  /\ after = EmptyList
  /\ abandoned = {}
  /\ listener = 1
  /\ due = {}

(* s leaves the list. *)
Leaves(s) ==
  /\ live' = live \ {s}
  /\ after' = Unlink(after, {s})
  /\ listener' = IF s = listener THEN NULL ELSE listener

Free ==
  /\ phase = "cleanup"
  /\ \E s \in live \cap abandoned : Leaves(s)
  /\ UNCHANGED <<phase, position, abandoned, due>>

(* Nobody was heard of in time: some streams are marked, and freed next.   *)
Expire ==
  /\ phase = "cleanup"
  /\ live \cap abandoned = {}
  /\ \E M \in SUBSET Slot : abandoned' = abandoned \cup M
  /\ UNCHANGED <<phase, position, live, after, listener, due>>

StartWalk ==
  /\ phase = "cleanup"
  /\ live \cap abandoned = {}
  /\ \E s \in live : IsHead(after, live, s) /\ position' = s
  /\ phase' = "walk"
  /\ due' = live
  /\ UNCHANGED <<live, after, abandoned, listener>>

(* The walk goes on behind the stream that was handled. *)
MoveOn(gone) ==
  /\ phase = "walk"
  /\ position # NULL
  /\ \E t \in Slot \cup {NULL} : IsNext(after, position, t) /\ position' = t
  /\ due' = due \ ({position} \cup gone)

(* The handler leaves the list alone; it may mark streams. *)
HandleOnly ==
  /\ MoveOn({})
  /\ \E t \in Slot : abandoned' \in {abandoned, abandoned \cup {position, t}}
  /\ UNCHANGED <<phase, live, after, listener>>

(* The handler inserts a stream. *)
HandleInsert ==
  /\ \E n \in Slot :
       /\ IsFirstFree(live, n)
       /\ live' = live \cup {n}
       /\ after' = LinkFirst(after, live, n)
       /\ abandoned' = abandoned \ {n}
  /\ MoveOn({})
  /\ UNCHANGED <<phase, listener>>

(* v makes room for a stream that the handler of excl asks for. *)
IsVictim(v, excl) ==
  LET leftover == (live \cap abandoned) \ {excl}
  IN  IsOldest(after, IF leftover # {} THEN leftover ELSE live \ {excl, listener}, v)

HandleReplace ==
  /\ live = Slot
  /\ \E v \in Slot, excl \in {NULL, position} :
       /\ IsVictim(v, excl)
       /\ excl = NULL => position = listener
       /\ after' = LinkFirst(after, live, v)
       /\ listener' = IF v = listener THEN NULL ELSE listener
       /\ \E t \in Slot : abandoned' = (abandoned \cup {t}) \ {v}   \* t = v: nobody else
       /\ MoveOn({v})
  /\ UNCHANGED <<phase, live>>

EndWalk ==
  /\ phase = "walk"
  /\ position = NULL
  /\ due = {}
  /\ phase' = "cleanup"
  /\ UNCHANGED <<position, live, after, abandoned, listener, due>>

(* The proxy ends: every stream is removed. *)
StartDrain ==
  /\ phase \in {"cleanup", "walk"}
  /\ phase' = "drain"
  /\ position' = NULL
  /\ due' = {}
  /\ UNCHANGED <<live, after, abandoned, listener>>

Drain ==
  /\ phase = "drain"
  /\ \E s \in live : Leaves(s)
  /\ UNCHANGED <<phase, position, abandoned, due>>

Next ==
  \/ Free \/ Expire \/ StartWalk
  \/ HandleOnly \/ HandleInsert \/ HandleReplace
  \/ EndWalk \/ StartDrain \/ Drain

Spec == Init /\ [][Next]_vars

=============================================================================
