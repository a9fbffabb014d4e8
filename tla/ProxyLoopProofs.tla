-------------------------- MODULE ProxyLoopProofs ---------------------------
(***************************************************************************)
(* What holds of ProxyLoop for every PoolSize and every MaxReady.          *)
(*                                                                         *)
(* First the types, then the inductive invariant IInv: the list order, the *)
(* saved successor, the listener and the relations.  The relations need    *)
(* all of them: a step may only touch the neighbour of a stream because    *)
(* that neighbour is listed, is not the listener, and points back.         *)
(***************************************************************************)
EXTENDS ProxyLoop, TLAPS

-----------------------------------------------------------------------------
(* The order of the list, as in StreamListProofs *)

(* insert_stream keeps the list a list, whether or not n was unlinked by   *)
(* an eviction just before.                                                *)
LEMMA LinkFirstOrdered ==
  ASSUME NEW L \in SUBSET Slot, NEW f \in [Slot -> SUBSET Slot], Ordered(f, L),
         NEW n \in Slot
  PROVE  Ordered(LinkFirst(f, L, n), L \cup {n})
<1> DEFINE g == LinkFirst(f, L, n)
<1>1. g[n] = L \ {n} /\ \A s \in Slot \ {n} : g[s] = f[s] \ {n}
  BY DEF LinkFirst
<1>2. \A s \in L \cup {n} : g[s] \subseteq (L \cup {n}) \ {s}
  BY <1>1 DEF Ordered
<1>3. ASSUME NEW s \in L \cup {n}, NEW t \in L \cup {n}, s # t
      PROVE  s \in g[t] <=> t \notin g[s]
  BY <1>1, <1>3 DEF Ordered
<1>4. ASSUME NEW s \in L \cup {n}, NEW t \in L \cup {n}, t \in g[s]
      PROVE  g[t] \subseteq g[s]
  BY <1>1, <1>4 DEF Ordered
<1> QED
  BY <1>2, <1>3, <1>4 DEF Ordered

(* remove_stream keeps the list a list. *)
LEMMA UnlinkOrdered ==
  ASSUME NEW L \in SUBSET Slot, NEW f \in [Slot -> SUBSET Slot], Ordered(f, L),
         NEW gone
  PROVE  Ordered(Unlink(f, gone), L \ gone)
BY DEF Ordered, Unlink

-----------------------------------------------------------------------------
(* Types *)

(* remove_relation marks slots only. *)
LEMMA RelationType ==
  ASSUME TypeOK, NEW s \in Slot
  PROVE  Relation(s) \subseteq Slot /\ s \in Relation(s)
BY DEF TypeOK, Relation

(* remove_stream keeps every field of every slot in its type. *)
LEMMA RemoveStreamsType ==
  ASSUME TypeOK, NEW gone, RemoveStreams(gone)
  PROVE  /\ live' \subseteq Slot
         /\ after' \in [Slot -> SUBSET Slot]
         /\ role' \in [Slot -> Role]
         /\ level' \in [Slot -> Level]
         /\ neighbour' \in [Slot -> Slot \cup {NULL}]
         /\ abandoned' \subseteq Slot
         /\ events' \in [Slot -> SUBSET Poll]
         /\ revents' \in [Slot -> SUBSET (Poll \cup {"ERR"})]
         /\ queued' \in [Slot -> BOOLEAN]
<1> USE DEF TypeOK, RemoveStreams, Wipe
<1>1. live' \subseteq Slot /\ abandoned' \subseteq Slot
  OBVIOUS
<1>2. after' \in [Slot -> SUBSET Slot]
  BY DEF Unlink
<1>3. role' \in [Slot -> Role] /\ level' \in [Slot -> Level]
  BY DEF Role, Level
<1>4. neighbour' \in [Slot -> Slot \cup {NULL}]
  OBVIOUS
<1>5. events' \in [Slot -> SUBSET Poll] /\ revents' \in [Slot -> SUBSET (Poll \cup {"ERR"})]
  OBVIOUS
<1>6. queued' \in [Slot -> BOOLEAN]
  OBVIOUS
<1> QED
  BY <1>1, <1>2, <1>3, <1>4, <1>5, <1>6

(* insert_stream, with or without an eviction, links a slot of the pool. *)
LEMMA InsertStreamType ==
  ASSUME TypeOK, NEW n \in Slot, NEW excl, InsertStream(n, excl)
  PROVE  /\ live' \subseteq Slot
         /\ after' \in [Slot -> SUBSET Slot]
         /\ abandoned' \subseteq Slot
         /\ reclaimed' \in BOOLEAN /\ overlap' \in BOOLEAN
<1>1. live' \subseteq Slot
  BY DEF TypeOK, InsertStream
<1>2. after' \in [Slot -> SUBSET Slot]
  BY DEF TypeOK, InsertStream, LinkFirst
<1>3. abandoned' \subseteq Slot
  BY RelationType DEF TypeOK, InsertStream
<1>4. reclaimed' \in BOOLEAN /\ overlap' \in BOOLEAN
  BY DEF TypeOK, InsertStream, history
<1> QED
  BY <1>1, <1>2, <1>3, <1>4

(* The walk goes on at a slot, or the next cycle starts. *)
LEMMA ProceedType ==
  ASSUME Proceed
  PROVE  /\ iter' \in Slot \cup {NULL}
         /\ pc' \in {"cleanup", "watch", "walk", "done"}
BY DEF Proceed

(* remove_relation leaves all but the abandoned flags alone. *)
LEMMA AbandonType ==
  ASSUME TypeOK, NEW s \in Slot, Abandon(s)
  PROVE  TypeOK'
BY RelationType, ProceedType DEF TypeOK, Abandon, list, fields, history

(* proxy_task ends with an empty list. *)
LEMMA ExitType ==
  ASSUME TypeOK, Exit
  PROVE  TypeOK'
<1>1. RemoveStreams(live)
  BY DEF Exit
<1> QED
  BY <1>1, RemoveStreamsType DEF TypeOK, Exit, history

(* The steps of one stream keep the types. *)
LEMMA HandleType ==
  ASSUME TypeOK, NEW s \in Slot, Handle(s)
  PROVE  TypeOK'
<1> USE DEF TypeOK, list, fields, history
<1>1. ASSUME PassOver(s) PROVE TypeOK'
  BY <1>1, ProceedType DEF PassOver
<1>2. ASSUME StreamError(s) PROVE TypeOK'
  BY <1>2, AbandonType DEF StreamError
<1>3. ASSUME ForwardChunk(s) PROVE TypeOK'
  <2>1. events' \in [Slot -> SUBSET Poll]
    BY <1>3 DEF ForwardChunk, Poll
  <2> QED
    BY <1>3, <2>1, ProceedType DEF ForwardChunk
<1>4. ASSUME AwaitWritable(s) PROVE TypeOK'
  <2>1. events' \in [Slot -> SUBSET Poll]
    BY <1>4 DEF AwaitWritable, Forwarding, Poll
  <2> QED
    BY <1>4, <2>1, ProceedType DEF AwaitWritable
<1>5. ASSUME FlushQueue(s) PROVE TypeOK'
  <2>1. events' \in [Slot -> SUBSET Poll]
    BY <1>5 DEF FlushQueue, Poll
  <2> QED
    BY <1>5, <2>1, ProceedType DEF FlushQueue
<1>6. ASSUME FlushPart(s) PROVE TypeOK'
  BY <1>6, ProceedType DEF FlushPart
<1>7. ASSUME FlushFails(s) PROVE TypeOK'
  BY <1>7, AbandonType DEF FlushFails
<1>8. ASSUME Accept(s) PROVE TypeOK'
  <2>1. PICK n \in Slot :
          /\ InsertStream(n, NULL)
          /\ role' = [role EXCEPT ![n] = "A"]
          /\ level' = [level EXCEPT ![n] = "VER"]
          /\ neighbour' = [neighbour EXCEPT ![n] = NULL]
          /\ events' = [events EXCEPT ![n] = {"IN"}]
          /\ revents' = [revents EXCEPT ![n] = {}]
          /\ queued' = [queued EXCEPT ![n] = FALSE]
    BY <1>8 DEF Accept
  <2>2. role' \in [Slot -> Role] /\ level' \in [Slot -> Level]
    BY <2>1 DEF Role, Level
  <2>3. events' \in [Slot -> SUBSET Poll]
    BY <2>1 DEF Poll
  <2>4. /\ neighbour' \in [Slot -> Slot \cup {NULL}]
        /\ revents' \in [Slot -> SUBSET (Poll \cup {"ERR"})]
        /\ queued' \in [Slot -> BOOLEAN]
    BY <2>1
  <2> QED
    BY <1>8, <2>1, <2>2, <2>3, <2>4, InsertStreamType, ProceedType DEF Accept
<1>9. ASSUME AcceptFails(s) PROVE TypeOK'
  BY <1>9, ExitType DEF AcceptFails
<1>10. ASSUME NEW l \in Level, Reply(s, l) PROVE TypeOK'
  <2>1. events' \in [Slot -> SUBSET Poll]
    BY <1>10 DEF Reply, Poll
  <2> QED
    BY <1>10, <2>1, ProceedType DEF Reply
<1>11. ASSUME Greeting(s) \/ Credentials(s) PROVE TypeOK'
  BY <1>10, <1>11 DEF Greeting, Credentials, Level
<1>12. ASSUME AwaitRequest(s) PROVE TypeOK'
  BY <1>12, ProceedType DEF AwaitRequest
<1>13. ASSUME Connect(s) PROVE TypeOK'
  <2>1. PICK n \in Slot :
          /\ InsertStream(n, s)
          /\ role' = [role EXCEPT ![n] = "B"]
          /\ level' = [level EXCEPT ![n] = "CONNECTING", ![s] = "PASS"]
          /\ neighbour' = [neighbour EXCEPT ![n] = s, ![s] = n]
          /\ events' = [events EXCEPT ![n] = Poll, ![s] = {"OUT"}]
          /\ revents' = [revents EXCEPT ![n] = {}]
          /\ queued' = [queued EXCEPT ![n] = FALSE, ![s] = TRUE]
    BY <1>13 DEF Connect
  <2>2. role' \in [Slot -> Role] /\ level' \in [Slot -> Level]
    BY <2>1 DEF Role, Level
  <2>3. events' \in [Slot -> SUBSET Poll]
    BY <2>1 DEF Poll
  <2>4. /\ neighbour' \in [Slot -> Slot \cup {NULL}]
        /\ revents' \in [Slot -> SUBSET (Poll \cup {"ERR"})]
        /\ queued' \in [Slot -> BOOLEAN]
    BY <2>1
  <2> QED
    BY <1>13, <2>1, <2>2, <2>3, <2>4, InsertStreamType, ProceedType DEF Connect
<1>14. ASSUME ConnectIsSevere(s) PROVE TypeOK'
  BY <1>14, ExitType DEF ConnectIsSevere
<1>15. ASSUME RefuseClient(s) PROVE TypeOK'
  BY <1>15, AbandonType DEF RefuseClient
<1>16. ASSUME ConnectCompleted(s) PROVE TypeOK'
  <2>1. level' \in [Slot -> Level]
    BY <1>16 DEF ConnectCompleted, Level
  <2>2. events' \in [Slot -> SUBSET Poll]
    BY <1>16 DEF ConnectCompleted, Poll
  <2> QED
    BY <1>16, <2>1, <2>2, ProceedType DEF ConnectCompleted
<1>17. ASSUME DropEndpoint(s) PROVE TypeOK'
  BY <1>17, AbandonType DEF DropEndpoint
<1> QED
  BY <1>1, <1>2, <1>3, <1>4, <1>5, <1>6, <1>7, <1>8, <1>9, <1>11, <1>12, <1>13,
     <1>14, <1>15, <1>16, <1>17 DEF Handle

(* The pool starts with the listener in its first slot. *)
LEMMA InitType ==
  ASSUME Init
  PROVE  TypeOK
<1>1. 1 \in Slot
  BY PoolSizeAssumption DEF Slot
<1>2. live \subseteq Slot /\ abandoned \subseteq Slot /\ after \in [Slot -> SUBSET Slot]
  BY <1>1 DEF Init, EmptyList
<1>3. role \in [Slot -> Role] /\ level \in [Slot -> Level]
  BY DEF Init, Role, Level
<1>4. neighbour \in [Slot -> Slot \cup {NULL}] /\ queued \in [Slot -> BOOLEAN]
  BY DEF Init
<1>5. events \in [Slot -> SUBSET Poll] /\ revents \in [Slot -> SUBSET (Poll \cup {"ERR"})]
  BY DEF Init, Poll
<1> QED
  BY <1>2, <1>3, <1>4, <1>5 DEF Init, TypeOK

(* Every step keeps the types. *)
LEMMA NextType ==
  ASSUME TypeOK, [Next]_vars
  PROVE  TypeOK'
<1> USE DEF TypeOK, list, fields, history
<1>1. CASE CleanupStreams
  BY <1>1, RemoveStreamsType DEF CleanupStreams
<1>2. CASE Watch
  <2>1. revents' \in [Slot -> SUBSET (Poll \cup {"ERR"})]
    BY <1>2 DEF Watch
  <2> QED
    BY <1>2, <2>1 DEF Watch
<1>3. CASE Idle
  BY <1>3, RemoveStreamsType DEF Idle
<1>4. CASE WatchFails
  BY <1>4, ExitType DEF WatchFails
<1>5. ASSUME NEW s \in Slot, Handle(s) PROVE TypeOK'
  BY <1>5, HandleType
<1>6. CASE UNCHANGED vars
  BY <1>6 DEF vars
<1> QED
  BY <1>1, <1>2, <1>3, <1>4, <1>5, <1>6 DEF Next, Ended

(* Type correctness: whatever the kernel reports and however system calls  *)
(* end, the fields of the streams keep their types; in particular a        *)
(* neighbour pointer designates a slot of the pool or is NULL.             *)
THEOREM TypeCorrect == Spec => []TypeOK
BY InitType, NextType, PTL DEF Spec

-----------------------------------------------------------------------------
(* The order of the list *)

(* A step of a stream is a step of the walk, at a stream of the list; one  *)
(* that is abandoned is passed over.                                       *)
LEMMA HandledStream ==
  ASSUME WalkIsListed, NEW s \in Slot, Handle(s)
  PROVE  /\ pc = "walk" /\ iter = s /\ s \in live
         /\ s \in abandoned => PassOver(s)
BY DEF Handle, PassOver, StreamError, ForwardChunk, AwaitWritable, FlushQueue,
       FlushPart, FlushFails, Accept, AcceptFails, Greeting, Credentials, AwaitRequest,
       Connect, ConnectIsSevere, RefuseClient, ConnectCompleted, DropEndpoint,
       NotForwarded, Receives, Dispatches, Handles, AtStream, WalkIsListed

(* The steps of one stream keep the list a list, and the saved successor   *)
(* in it: a step frees no slot of the list without using it again.         *)
LEMMA HandleListed ==
  ASSUME TypeOK, ListOrdered, WalkIsListed, NEW s \in Slot, Handle(s)
  PROVE  ListOrdered' /\ WalkIsListed' /\ pc' # "watch"
<1>1. pc = "walk" /\ iter = s /\ s \in live
  BY HandledStream
<1>2. ASSUME Proceed, UNCHANGED list PROVE ListOrdered' /\ WalkIsListed' /\ pc' # "watch"
  BY <1>1, <1>2 DEF ListOrdered, Ordered, WalkIsListed, Proceed, IsNext, list
<1>3. ASSUME Abandon(s) PROVE ListOrdered' /\ WalkIsListed' /\ pc' # "watch"
  BY <1>2, <1>3 DEF Abandon
<1>4. ASSUME Exit PROVE ListOrdered' /\ WalkIsListed' /\ pc' # "watch"
  BY <1>4, UnlinkOrdered DEF Exit, RemoveStreams, ListOrdered, WalkIsListed, TypeOK
<1>5. ASSUME NEW n \in Slot, NEW excl, InsertStream(n, excl), Proceed
      PROVE  ListOrdered' /\ WalkIsListed' /\ pc' # "watch"
  <2>1. live' = live \cup {n} /\ after' = LinkFirst(after, live, n)
    BY <1>5 DEF InsertStream
  <2>2. ListOrdered'
    BY <2>1, LinkFirstOrdered DEF ListOrdered, TypeOK
  <2>3. WalkIsListed' /\ pc' # "watch"
    BY <1>1, <1>5, <2>1 DEF ListOrdered, Ordered, WalkIsListed, Proceed, IsNext
  <2> QED
    BY <2>2, <2>3
<1>6. CASE \/ PassOver(s) \/ ForwardChunk(s) \/ AwaitWritable(s) \/ FlushQueue(s)
           \/ FlushPart(s) \/ Greeting(s) \/ Credentials(s) \/ AwaitRequest(s)
           \/ ConnectCompleted(s)
  BY <1>2, <1>6 DEF PassOver, ForwardChunk, AwaitWritable, FlushQueue, FlushPart,
                    Greeting, Credentials, Reply, AwaitRequest, ConnectCompleted
<1>7. CASE StreamError(s) \/ FlushFails(s) \/ RefuseClient(s) \/ DropEndpoint(s)
  BY <1>3, <1>7 DEF StreamError, FlushFails, RefuseClient, DropEndpoint
<1>8. CASE AcceptFails(s) \/ ConnectIsSevere(s)
  BY <1>4, <1>8 DEF AcceptFails, ConnectIsSevere
<1>9. CASE Accept(s) \/ Connect(s)
  BY <1>5, <1>9 DEF Accept, Connect
<1> QED
  BY <1>6, <1>7, <1>8, <1>9 DEF Handle

-----------------------------------------------------------------------------
(* The listener *)

(* No step of a stream touches the listener, for no stream points at it.   *)
LEMMA HandleListener ==
  ASSUME TypeOK, WalkIsListed, ListenerApart, NEW s \in Slot, Handle(s)
  PROVE  ListenerApart'
<1> USE DEF ListenerApart, TypeOK, list, fields, history
<1>1. s \in live
  BY HandledStream
<1>2. ASSUME Abandon(s) \/ PassOver(s) \/ FlushPart(s) \/ AwaitRequest(s) PROVE ListenerApart'
  BY <1>2 DEF Abandon, PassOver, FlushPart, AwaitRequest
<1>3. ASSUME Exit PROVE ListenerApart'
  BY <1>3 DEF Exit, RemoveStreams
<1>4. CASE ForwardChunk(s) \/ AwaitWritable(s)
  BY <1>1, <1>4 DEF ForwardChunk, AwaitWritable, Forwarding
<1>5. CASE FlushQueue(s)
  BY <1>1, <1>5 DEF FlushQueue, Flushes
<1>6. CASE Greeting(s) \/ Credentials(s)
  BY <1>1, <1>6 DEF Greeting, Credentials, Reply
<1>7. CASE Accept(s)
  <2>1. PICK n \in Slot :
          /\ InsertStream(n, NULL)
          /\ role' = [role EXCEPT ![n] = "A"]
          /\ level' = [level EXCEPT ![n] = "VER"]
          /\ neighbour' = [neighbour EXCEPT ![n] = NULL]
          /\ events' = [events EXCEPT ![n] = {"IN"}]
    BY <1>7 DEF Accept
  <2>2. live' = live \cup {n} /\ after' = LinkFirst(after, live, n)
    BY <2>1 DEF InsertStream
  <2> QED
    BY <2>1, <2>2 DEF LinkFirst, NULL, Slot
<1>8. CASE Connect(s)
  <2>1. PICK n \in Slot :
          /\ InsertStream(n, s)
          /\ role' = [role EXCEPT ![n] = "B"]
          /\ level' = [level EXCEPT ![n] = "CONNECTING", ![s] = "PASS"]
          /\ neighbour' = [neighbour EXCEPT ![n] = s, ![s] = n]
          /\ events' = [events EXCEPT ![n] = Poll, ![s] = {"OUT"}]
    BY <1>8 DEF Connect
  <2>2. live' = live \cup {n} /\ after' = LinkFirst(after, live, n)
    BY <2>1 DEF InsertStream
  <2>3. role[s] = "A"
    BY <1>8 DEF Connect, Receives, Dispatches
  <2> QED
    BY <1>1, <2>1, <2>2, <2>3 DEF LinkFirst
<1>9. CASE ConnectCompleted(s)
  BY <1>1, <1>9 DEF ConnectCompleted, Completes, Dispatches
<1> QED
  BY <1>2, <1>3, <1>4, <1>5, <1>6, <1>7, <1>8, <1>9
  DEF Handle, StreamError, FlushFails, RefuseClient, DropEndpoint, AcceptFails,
      ConnectIsSevere

-----------------------------------------------------------------------------
(* The relations *)

SameFields(u) ==
  role'[u] = role[u] /\ level'[u] = level[u] /\ neighbour'[u] = neighbour[u]
    /\ events'[u] = events[u]

(* A stream stays at its stage when it and its neighbour are not touched.  *)
LEMMA StageKept ==
  ASSUME NEW u, Stage(u), SameFields(u),
         live \subseteq Slot,
         neighbour[u] # NULL =>
           neighbour[u] \in live' \ abandoned' /\ SameFields(neighbour[u])
  PROVE  Stage(u)'
<1>1. CASE role[u] = "ACCEPT" /\ neighbour[u] = NULL
  BY <1>1 DEF Stage, SameFields
<1>2. CASE /\ role[u] = "A" /\ level[u] \in {"VER", "AUTH", "REQ"}
           /\ neighbour[u] = NULL /\ events[u] # {}
  BY <1>2 DEF Stage, SameFields
<1>3. CASE /\ neighbour[u] \in live \ abandoned /\ neighbour[u] # NULL
           /\ LET t == neighbour[u] IN
                \/ /\ role[u] = "A" /\ level[u] = "PASS"
                   /\ role[t] = "B" /\ level[t] = "CONNECTING"
                \/ /\ role[u] = "B" /\ level[u] = "CONNECTING" /\ events[u] = Poll
                   /\ role[t] = "A" /\ level[t] = "PASS"
                \/ /\ role[u] \in {"A", "B"} /\ role[t] \in {"A", "B"} \ {role[u]}
                   /\ level[u] = "FORWARDING" /\ level[t] = "FORWARDING"
                   /\ events[u] # {} \/ events[t] # {}
  BY <1>3 DEF Stage, SameFields
<1>4. NULL \notin live
  BY DEF Slot, NULL
<1> QED
  BY <1>1, <1>2, <1>3, <1>4 DEF Stage

(* What every stream that is not abandoned may rely on. *)
LEMMA PairedStream ==
  ASSUME TypeOK, Paired, ~ overlap, NEW u \in live \ abandoned
  PROVE  /\ Stage(u)
         /\ neighbour[u] # NULL =>
              /\ neighbour[u] \in live \ abandoned
              /\ neighbour[neighbour[u]] = u
<1>1. Stage(u) /\ (neighbour[u] # NULL => Mutual(u, neighbour[u]))
  BY DEF Paired
<1>2. neighbour[u] # NULL => neighbour[u] \in live \ abandoned
  BY <1>1 DEF Stage
<1> QED
  BY <1>1, <1>2 DEF Mutual

(* remove_relation of a stream that is not abandoned takes a whole         *)
(* relation, and none of another.                                          *)
LEMMA AbandonPaired ==
  ASSUME TypeOK, Paired, NEW s \in live \ abandoned, Abandon(s)
  PROVE  Paired'
<1> SUFFICES ASSUME ~ overlap PROVE Paired'
  BY DEF Abandon, history, Paired
<1>1. /\ abandoned' = abandoned \cup Relation(s)
      /\ UNCHANGED <<live, role, level, neighbour, events, reclaimed, overlap>>
  BY DEF Abandon, list, fields, history
<1>2. ASSUME NEW u \in live' \ abandoned'
      PROVE  Stage(u)' /\ (neighbour'[u] # NULL => Mutual(u, neighbour[u])')
  <2>1. u \in live \ abandoned /\ u # s /\ u # neighbour[s]
    BY <1>1, <1>2 DEF Relation, TypeOK, Slot, NULL
  <2>2. /\ Stage(u)
        /\ neighbour[u] # NULL => neighbour[u] \in live \ abandoned /\ neighbour[neighbour[u]] = u
    BY <2>1, PairedStream
  <2>3. neighbour[s] # NULL => neighbour[neighbour[s]] = s
    BY PairedStream
  <2>4. neighbour[u] # NULL => neighbour[u] \in live' \ abandoned'
    BY <1>1, <2>1, <2>2, <2>3 DEF Relation
  <2>5. SameFields(u) /\ SameFields(neighbour[u])
    BY <1>1 DEF SameFields
  <2>6. Stage(u)'
    BY <2>2, <2>4, <2>5, StageKept DEF TypeOK
  <2> QED
    BY <1>1, <2>1, <2>2, <2>6 DEF Mutual
<1>3. ASSUME ~ reclaimed', NEW u \in live' \cap abandoned', neighbour'[u] # NULL
      PROVE  Mutual(u, neighbour[u])' /\ neighbour'[u] \in abandoned'
  <2>1. CASE u \in abandoned
    BY <1>1, <1>3, <2>1 DEF Paired, Mutual
  <2>2. CASE u \in Relation(s)
    BY <1>1, <1>3, <2>2, PairedStream DEF Relation, Mutual
  <2> QED
    BY <1>1, <1>3, <2>1, <2>2
<1> QED
  BY <1>2, <1>3 DEF Paired

(* A stream that survives the insertion of n was not related to the stream *)
(* evicted for it.                                                         *)
LEMMA InsertPaired ==
  ASSUME TypeOK, Paired, NEW n \in Slot, NEW excl, InsertStream(n, excl), ~ overlap',
         NEW u \in live \ abandoned', u # n
  PROVE  u \notin abandoned /\ neighbour[u] # n /\ neighbour[u] \notin abandoned'
<1>1. ~ overlap /\ u # NULL /\ n # NULL
  BY DEF InsertStream, history, TypeOK, Slot, NULL
<1>2. CASE n \notin live /\ abandoned' = abandoned \ {n}
  <2>1. u \notin abandoned
    BY <1>2
  <2> QED
    BY <1>1, <1>2, <2>1, PairedStream DEF NULL, TypeOK, Slot
<1>3. CASE /\ live = Slot
           /\ abandoned' = (abandoned \cup Relation(n)) \ {n}
           /\ ~ reclaimed
  <2>1. u \notin abandoned /\ u # neighbour[n]
    BY <1>1, <1>3 DEF Relation
  <2>2. neighbour[n] # NULL => neighbour[neighbour[n]] = n
    BY <1>1, <1>3 DEF Paired, Mutual
  <2>3. neighbour[u] # NULL => neighbour[u] \notin abandoned /\ neighbour[neighbour[u]] = u
    BY <1>1, <2>1, PairedStream
  <2>4. neighbour[u] # n
    BY <1>1, <2>1, <2>3
  <2>5. neighbour[u] \notin abandoned
    BY <2>3 DEF TypeOK, Slot, NULL
  <2>6. neighbour[u] \notin Relation(n)
    BY <1>1, <2>2, <2>3, <2>4 DEF Relation
  <2> QED
    BY <1>3, <2>1, <2>4, <2>5, <2>6
<1> QED
  BY <1>2, <1>3 DEF InsertStream, IsFirstFree

(* A step that neither lists, abandons nor relates streams, and touches    *)
(* only s and its neighbour, has to account for the stage of these two.    *)
LEMMA QuietPaired ==
  ASSUME TypeOK, Paired, NEW s \in live \ abandoned,
         UNCHANGED <<live, abandoned, role, neighbour, reclaimed, overlap>>,
         \A u \in live \ {s, neighbour[s]} : level'[u] = level[u] /\ events'[u] = events[u],
         ~ overlap => Stage(s)' /\ (neighbour[s] # NULL => Stage(neighbour[s])')
  PROVE  Paired'
<1> SUFFICES ASSUME ~ overlap PROVE Paired'
  BY DEF Paired
<1>1. neighbour[s] # NULL => neighbour[neighbour[s]] = s
  BY PairedStream
<1>2. ASSUME NEW u \in live \ abandoned
      PROVE  Stage(u)' /\ (neighbour[u] # NULL => Mutual(u, neighbour[u])')
  <2>1. /\ Stage(u) /\ u # NULL
        /\ neighbour[u] # NULL => neighbour[u] \in live \ abandoned /\ neighbour[neighbour[u]] = u
    BY PairedStream DEF TypeOK, Slot, NULL
  <2>2. CASE u \in {s, neighbour[s]}
    BY <2>1, <2>2 DEF Mutual
  <2>3. CASE u \notin {s, neighbour[s]}
    <3>1. neighbour[u] # NULL => neighbour[u] \notin {s, neighbour[s]}
      BY <1>1, <2>1, <2>3
    <3>2. SameFields(u) /\ (neighbour[u] # NULL => SameFields(neighbour[u]))
      BY <2>1, <2>3, <3>1 DEF SameFields
    <3>3. Stage(u)'
      BY <2>1, <3>2, StageKept DEF TypeOK
    <3> QED
      BY <2>1, <3>3 DEF Mutual
  <2> QED
    BY <2>2, <2>3
<1>3. ASSUME ~ reclaimed, NEW u \in live \cap abandoned, neighbour[u] # NULL
      PROVE  Mutual(u, neighbour[u])' /\ neighbour[u] \in abandoned
  BY <1>3 DEF Paired, Mutual
<1> QED
  BY <1>2, <1>3 DEF Paired

(* The new stream of an accepted connection is related to no one. *)
LEMMA AcceptPaired ==
  ASSUME TypeOK, Paired, NEW s \in live \ abandoned, Accept(s)
  PROVE  Paired'
<1>1. PICK n \in Slot :
        /\ InsertStream(n, NULL)
        /\ role' = [role EXCEPT ![n] = "A"]
        /\ level' = [level EXCEPT ![n] = "VER"]
        /\ neighbour' = [neighbour EXCEPT ![n] = NULL]
        /\ events' = [events EXCEPT ![n] = {"IN"}]
  BY DEF Accept
<1> SUFFICES ASSUME ~ overlap' PROVE Paired'
  BY DEF Paired
<1>2. /\ live' = live \cup {n} /\ n \notin abandoned' /\ n # NULL /\ ~ overlap
      /\ \A u \in live : u # n => SameFields(u)
  BY <1>1 DEF InsertStream, SameFields, TypeOK, history, Slot, NULL
<1>3. Stage(n)' /\ neighbour'[n] = NULL
  BY <1>1 DEF Stage, TypeOK
<1>4. ASSUME NEW u \in live' \ abandoned', u # n
      PROVE  Stage(u)' /\ (neighbour'[u] # NULL => Mutual(u, neighbour[u])')
  <2>1. u \in live \ abandoned /\ neighbour[u] # n /\ neighbour[u] \notin abandoned'
    BY <1>1, <1>2, <1>4, InsertPaired
  <2>2. /\ Stage(u)
        /\ neighbour[u] # NULL => neighbour[u] \in live \ abandoned /\ neighbour[neighbour[u]] = u
    BY <1>2, <2>1, PairedStream
  <2>3. Stage(u)'
    BY <1>2, <1>4, <2>1, <2>2, StageKept DEF TypeOK
  <2> QED
    BY <1>2, <1>4, <2>1, <2>2, <2>3 DEF Mutual, SameFields
<1>5. ASSUME ~ reclaimed', NEW u \in live' \cap abandoned', neighbour'[u] # NULL
      PROVE  Mutual(u, neighbour[u])' /\ neighbour'[u] \in abandoned'
  <2>1. n \notin live /\ abandoned' = abandoned \ {n} /\ ~ reclaimed /\ u # n
    BY <1>1, <1>2, <1>5 DEF InsertStream, history, IsFirstFree
  <2> QED
    BY <1>2, <1>5, <2>1 DEF Paired, Mutual, SameFields
<1> QED
  BY <1>2, <1>3, <1>4, <1>5 DEF Paired

(* The new stream of an endpoint is related to the client that asked for   *)
(* it, and the client, which had no neighbour, to it.                      *)
LEMMA ConnectPaired ==
  ASSUME TypeOK, Paired, NEW s \in live \ abandoned, Connect(s)
  PROVE  Paired'
<1>1. PICK n \in Slot :
        /\ InsertStream(n, s)
        /\ role' = [role EXCEPT ![n] = "B"]
        /\ level' = [level EXCEPT ![n] = "CONNECTING", ![s] = "PASS"]
        /\ neighbour' = [neighbour EXCEPT ![n] = s, ![s] = n]
        /\ events' = [events EXCEPT ![n] = Poll, ![s] = {"OUT"}]
  BY DEF Connect
<1> SUFFICES ASSUME ~ overlap' PROVE Paired'
  BY DEF Paired
<1>2. /\ live' = live \cup {n} /\ n \notin abandoned' /\ n # NULL /\ s # NULL /\ ~ overlap
      /\ role[s] = "A" /\ level[s] = "REQ"
  BY <1>1 DEF InsertStream, TypeOK, history, Slot, NULL, Connect, Receives, Dispatches
<1>3. n # s
  BY <1>1 DEF InsertStream, IsFirstFree, IsVictim, IsOldest
<1>4. neighbour[s] = NULL
  BY <1>2, PairedStream DEF Stage
<1>5. s \notin abandoned'
  <2>1. CASE n \notin live /\ abandoned' = abandoned \ {n}
    BY <2>1
  <2>2. CASE live = Slot /\ abandoned' = (abandoned \cup Relation(n)) \ {n} /\ ~ reclaimed
    <3>1. neighbour[n] # NULL => neighbour[neighbour[n]] = n
      BY <1>2, <2>2 DEF Paired, Mutual
    <3> QED
      BY <1>2, <1>3, <1>4, <2>2, <3>1 DEF Relation
  <2> QED
    BY <1>1, <2>1, <2>2 DEF InsertStream, IsFirstFree
<1>6. /\ neighbour'[n] = s /\ neighbour'[s] = n
      /\ role'[n] = "B" /\ role'[s] = "A" /\ level'[n] = "CONNECTING" /\ level'[s] = "PASS"
      /\ events'[n] = Poll
      /\ \A u \in live : u # n /\ u # s => SameFields(u)
  BY <1>1, <1>2, <1>3 DEF TypeOK, SameFields
<1>7. Stage(n)' /\ Stage(s)'
  BY <1>2, <1>5, <1>6 DEF Stage
<1>8. ASSUME NEW u \in live' \ abandoned', u # n, u # s
      PROVE  Stage(u)' /\ (neighbour'[u] # NULL => Mutual(u, neighbour[u])')
  <2>1. u \in live \ abandoned /\ neighbour[u] # n /\ neighbour[u] \notin abandoned'
    BY <1>1, <1>2, <1>8, InsertPaired
  <2>2. /\ Stage(u)
        /\ neighbour[u] # NULL => neighbour[u] \in live \ abandoned /\ neighbour[neighbour[u]] = u
    BY <1>2, <2>1, PairedStream
  <2>3. neighbour[u] # s
    BY <1>2, <1>4, <2>1, <2>2 DEF TypeOK, Slot, NULL
  <2>4. Stage(u)'
    BY <1>2, <1>6, <1>8, <2>1, <2>2, <2>3, StageKept DEF TypeOK
  <2> QED
    BY <1>2, <1>6, <1>8, <2>1, <2>2, <2>3, <2>4 DEF Mutual, SameFields
<1>9. ASSUME ~ reclaimed', NEW u \in live' \cap abandoned', neighbour'[u] # NULL
      PROVE  Mutual(u, neighbour[u])' /\ neighbour'[u] \in abandoned'
  <2>1. n \notin live /\ abandoned' = abandoned \ {n} /\ ~ reclaimed /\ u # n /\ u # s
    BY <1>1, <1>2, <1>5, <1>9 DEF InsertStream, history, IsFirstFree
  <2>2. SameFields(u) /\ neighbour[u] # NULL
    BY <1>2, <1>6, <1>9, <2>1 DEF SameFields
  <2>3. Mutual(u, neighbour[u]) /\ neighbour[u] \in abandoned
    BY <1>2, <1>9, <2>1, <2>2 DEF Paired
  <2> QED
    BY <1>2, <1>6, <2>1, <2>2, <2>3 DEF Mutual, SameFields
<1> QED
  BY <1>2, <1>3, <1>6, <1>7, <1>8, <1>9 DEF Paired, Mutual

(* Every step of one stream keeps the relations paired. *)
LEMMA HandlePaired ==
  ASSUME TypeOK, WalkIsListed, Paired, NEW s \in Slot, Handle(s)
  PROVE  Paired'
<1> USE DEF list, fields, history
<1>1. s \in live
  BY HandledStream
<1>2. s \in abandoned => PassOver(s)
  BY HandledStream
<1>3. ~ overlap /\ s \notin abandoned =>
        /\ Stage(s)
        /\ neighbour[s] # NULL =>
             /\ neighbour[s] \in live \ abandoned
             /\ neighbour[neighbour[s]] = s
             /\ Stage(neighbour[s])
  BY <1>1, PairedStream
<1>4. CASE PassOver(s) \/ FlushPart(s) \/ AwaitRequest(s)
  BY <1>4 DEF PassOver, FlushPart, AwaitRequest, Paired, Stage, Mutual
<1>5. ASSUME s \notin abandoned, Abandon(s) PROVE Paired'
  BY <1>1, <1>5, AbandonPaired
<1>6. CASE StreamError(s) \/ FlushFails(s) \/ RefuseClient(s) \/ DropEndpoint(s)
  BY <1>5, <1>6 DEF StreamError, FlushFails, RefuseClient, DropEndpoint,
                    NotForwarded, Dispatches, Handles
<1>7. CASE AcceptFails(s) \/ ConnectIsSevere(s)
  BY <1>7 DEF AcceptFails, ConnectIsSevere, Exit, RemoveStreams, Paired
<1>8. CASE ForwardChunk(s) \/ AwaitWritable(s)
  <2>1. /\ s \notin abandoned /\ level[s] = "FORWARDING" /\ neighbour[s] # NULL
        /\ UNCHANGED <<live, abandoned, role, level, neighbour, reclaimed, overlap>>
        /\ \A u \in live \ {s, neighbour[s]} : events'[u] = events[u]
    BY <1>8 DEF ForwardChunk, AwaitWritable, Forwarding, Handles, TypeOK
  <2>2. neighbour[s] \in Slot /\ s \in Slot => events'[neighbour[s]] # {} \/ events'[s] # {}
    BY <1>8, <2>1 DEF ForwardChunk, AwaitWritable, TypeOK
  <2>3. ~ overlap => Stage(s)' /\ Stage(neighbour[s])'
    BY <1>3, <2>1, <2>2 DEF Stage, TypeOK, Slot, NULL
  <2> QED
    BY <1>1, <2>1, <2>3, QuietPaired
<1>9. CASE FlushQueue(s)
  <2>1. /\ s \notin abandoned /\ role[s] = "A"
        /\ UNCHANGED <<live, abandoned, role, level, neighbour, reclaimed, overlap>>
        /\ \A u \in live \ {s} : events'[u] = events[u]
        /\ level[s] # "PASS" => events'[s] # {}
    BY <1>9 DEF FlushQueue, Flushes, NotForwarded, Handles, TypeOK
  <2>2. ~ overlap => Stage(s)' /\ (neighbour[s] # NULL => Stage(neighbour[s])')
    BY <1>1, <1>3, <2>1 DEF Stage, TypeOK, Slot, NULL
  <2> QED
    BY <1>1, <2>1, <2>2, QuietPaired
<1>10. CASE Greeting(s) \/ Credentials(s)
  <2>1. /\ s \notin abandoned /\ role[s] = "A" /\ level[s] \in {"VER", "AUTH"}
        /\ UNCHANGED <<live, abandoned, role, neighbour, reclaimed, overlap>>
        /\ \A u \in live \ {s} : events'[u] = events[u] /\ level'[u] = level[u]
        /\ level'[s] \in {"AUTH", "REQ"} /\ events'[s] # {}
    BY <1>1, <1>10 DEF Greeting, Credentials, Reply, Receives, Dispatches, NotForwarded,
                       Handles, TypeOK
  <2>2. ~ overlap => Stage(s)' /\ neighbour[s] = NULL
    BY <1>3, <2>1 DEF Stage
  <2> QED
    BY <1>1, <2>1, <2>2, QuietPaired
<1>11. CASE Accept(s)
  BY <1>1, <1>2, <1>11, AcceptPaired DEF Accept, Dispatches, NotForwarded, Handles
<1>12. CASE Connect(s)
  BY <1>1, <1>12, ConnectPaired DEF Connect, Receives, Dispatches, NotForwarded, Handles
<1>13. CASE ConnectCompleted(s)
  <2>1. /\ s \notin abandoned /\ role[s] = "B" /\ level[s] = "CONNECTING" /\ neighbour[s] # NULL
        /\ UNCHANGED <<live, abandoned, role, neighbour, reclaimed, overlap>>
        /\ \A u \in live \ {s, neighbour[s]} : events'[u] = events[u] /\ level'[u] = level[u]
    BY <1>13 DEF ConnectCompleted, Completes, Dispatches, NotForwarded, Handles, TypeOK
  <2>2. neighbour[s] \in Slot /\ level'[s] = "FORWARDING" /\ level'[neighbour[s]] = "FORWARDING"
          /\ events'[s] # {} /\ events'[neighbour[s]] # {}
    BY <1>13, <2>1 DEF ConnectCompleted, TypeOK
  <2>3. ~ overlap => Stage(s)' /\ Stage(neighbour[s])'
    BY <1>1, <1>3, <2>1, <2>2 DEF Stage
  <2> QED
    BY <1>1, <2>1, <2>3, QuietPaired
<1> QED
  BY <1>4, <1>6, <1>7, <1>8, <1>9, <1>10, <1>11, <1>12, <1>13 DEF Handle

-----------------------------------------------------------------------------
(* The frame of a cycle *)

(* Removing a set of streams that holds every abandoned stream, and the    *)
(* neighbour of each of its streams, keeps the invariant.                  *)
LEMMA RemoveKeeps ==
  ASSUME IInv, NEW gone \in SUBSET live, live \cap abandoned \subseteq gone,
         RemoveStreams(gone), overlap' = overlap,
         ~ overlap => \A u \in live \ (gone \cup abandoned) : neighbour[u] \notin gone
  PROVE  /\ ListOrdered' /\ ListenerApart' /\ Paired'
         /\ live' \cap abandoned' = {}
<1> USE DEF IInv
<1>1. ListOrdered'
  BY UnlinkOrdered DEF ListOrdered, RemoveStreams, TypeOK
<1>2. /\ live' = live \ gone /\ live' \cap abandoned' = {}
      /\ \A u \in live' : SameFields(u) /\ after'[u] \subseteq after[u] /\ u \notin abandoned
  BY DEF RemoveStreams, TypeOK, SameFields, Wipe, Unlink
<1>3. ListenerApart'
  BY <1>2 DEF ListenerApart, SameFields
<1>4. ASSUME ~ overlap, NEW u \in live'
      PROVE  Stage(u)' /\ (neighbour'[u] # NULL => Mutual(u, neighbour[u])')
  <2>1. /\ Stage(u)
        /\ neighbour[u] # NULL => neighbour[u] \in live \ abandoned /\ neighbour[neighbour[u]] = u
    BY <1>2, <1>4, PairedStream
  <2>2. neighbour[u] # NULL => neighbour[u] \in live' \ abandoned'
    BY <1>2, <1>4, <2>1
  <2>3. Stage(u)'
    BY <1>2, <2>1, <2>2, StageKept DEF TypeOK
  <2> QED
    BY <1>2, <2>1, <2>2, <2>3 DEF Mutual, SameFields
<1>5. Paired'
  BY <1>2, <1>4 DEF Paired
<1> QED
  BY <1>1, <1>2, <1>3, <1>5

(* No step of a stream begins the watching, where no stream is abandoned.  *)
LEMMA HandleKeeps ==
  ASSUME IInv, NEW s \in Slot, Handle(s)
  PROVE  IInv'
BY HandleType, HandleListed, HandleListener, HandlePaired DEF IInv

(* The steps of the cycle itself keep the invariant. *)
LEMMA CycleKeeps ==
  ASSUME IInv, CleanupStreams \/ Watch \/ Idle \/ WatchFails, TypeOK'
  PROVE  IInv'
<1> USE DEF IInv
<1>1. CASE CleanupStreams
  <2>1. /\ RemoveStreams(live \cap abandoned) /\ overlap' = overlap
        /\ pc' = "watch" /\ reclaimed' = FALSE
    BY <1>1 DEF CleanupStreams
  <2>2. ~ overlap => \A u \in live \ abandoned : neighbour[u] \notin live \cap abandoned
    BY PairedStream DEF Slot, NULL, TypeOK
  <2>3. ListOrdered' /\ ListenerApart' /\ Paired' /\ live' \cap abandoned' = {}
    BY <2>1, <2>2, RemoveKeeps
  <2> QED
    BY <2>1, <2>3 DEF WalkIsListed
<1>2. CASE Watch
  <2>1. /\ UNCHANGED <<live, after, abandoned, role, level, neighbour, events, reclaimed, overlap>>
        /\ iter' \in live /\ pc' = "walk"
    BY <1>2 DEF Watch, list, history, IsHead
  <2>2. ListOrdered' /\ ListenerApart'
    BY <2>1 DEF ListOrdered, ListenerApart
  <2>3. Paired'
    BY <2>1 DEF Paired, Stage, Mutual
  <2> QED
    BY <2>1, <2>2, <2>3 DEF WalkIsListed
<1>3. CASE Idle
  <2> DEFINE pending == {s \in live : role[s] \in {"A", "B"} /\ level[s] # "FORWARDING"}
             gone    == live \cap (abandoned \cup UNION {Relation(s) : s \in pending})
  <2>1. RemoveStreams(gone) /\ pc = "watch" /\ pc' = "cleanup" /\ UNCHANGED <<reclaimed, overlap>>
    BY <1>3 DEF Idle, history
  <2>2. live \cap abandoned = {}
    BY <2>1
  <2>3. ASSUME ~ overlap, NEW u \in live \ gone PROVE neighbour[u] \notin gone
    <3>1. /\ Stage(u) /\ u \notin pending
          /\ neighbour[u] # NULL => neighbour[u] \in live \ abandoned /\ neighbour[neighbour[u]] = u
      BY <2>2, <2>3, PairedStream DEF Relation
    <3>2. neighbour[u] # NULL => neighbour[u] \notin pending
      BY <3>1 DEF Stage
    <3>3. ASSUME NEW p \in pending, neighbour[u] \in Relation(p), neighbour[u] # NULL PROVE FALSE
      <4>1. neighbour[p] = neighbour[u]
        BY <3>2, <3>3 DEF Relation
      <4>2. neighbour[neighbour[p]] = p
        BY <2>2, <2>3, <3>3, <4>1, PairedStream
      <4> QED
        BY <3>1, <3>3, <4>1, <4>2
    <3>4. neighbour[u] \in gone => \E p \in pending : neighbour[u] \in Relation(p)
      BY <2>2
    <3>5. NULL \notin gone
      BY DEF Slot, NULL, TypeOK
    <3> QED
      BY <3>3, <3>4, <3>5
  <2> HIDE DEF gone
  <2>4. gone \in SUBSET live /\ live \cap abandoned \subseteq gone
    BY <2>2 DEF gone
  <2>5. ~ overlap => \A u \in live \ (gone \cup abandoned) : neighbour[u] \notin gone
    BY <2>3
  <2>6. ListOrdered' /\ ListenerApart' /\ Paired'
    BY <2>1, <2>4, <2>5, RemoveKeeps
  <2> QED
    BY <2>1, <2>6 DEF WalkIsListed
<1>4. CASE WatchFails
  <2>1. /\ RemoveStreams(live) /\ pc' = "done" /\ live' = {} /\ overlap' = overlap
    BY <1>4 DEF WatchFails, Exit, RemoveStreams, history
  <2> QED
    BY <2>1, RemoveKeeps DEF WalkIsListed
<1> QED
  BY <1>1, <1>2, <1>3, <1>4

(* The loop starts with the listener alone in the list. *)
LEMMA InitHolds ==
  ASSUME Init
  PROVE  IInv
<1>1. TypeOK
  BY InitType
<1>2. 1 \in Slot
  BY PoolSizeAssumption DEF Slot
<1>3. ListOrdered /\ WalkIsListed
  BY <1>2 DEF Init, ListOrdered, Ordered, WalkIsListed, EmptyList
<1>4. ListenerApart /\ Paired
  BY <1>2 DEF Init, ListenerApart, Paired, Stage, EmptyList, NULL
<1> QED
  BY <1>1, <1>3, <1>4 DEF IInv, Init

-----------------------------------------------------------------------------
(* The theorems *)

(* The inductive invariant: list, walk, listener and relations hold        *)
(* together, for every size of the pool.                                   *)
THEOREM Invariant == Spec => []IInv
<1>1. Init => IInv
  BY InitHolds
<1>2. IInv /\ [Next]_vars => IInv'
  <2> SUFFICES ASSUME IInv, [Next]_vars PROVE IInv'
    OBVIOUS
  <2>1. TypeOK'
    BY NextType DEF IInv
  <2>2. CASE UNCHANGED vars
    BY <2>1, <2>2 DEF vars, list, fields, history, IInv, ListOrdered, WalkIsListed,
                      ListenerApart, Paired, Stage, Mutual
  <2> QED
    BY <2>1, <2>2, CycleKeeps, HandleKeeps DEF Next, Ended
<1> QED
  BY <1>1, <1>2, PTL DEF Spec

(* The successor saved before a handler ran is a stream of the list when   *)
(* the walk comes to it, although the handler may have evicted it.         *)
THEOREM SuccessorListed == Spec => []WalkIsListed
BY Invariant, PTL DEF IInv

(* The list stays a strict total order through evictions and reuse. *)
THEOREM ListStaysOrdered == Spec => []ListOrdered
BY Invariant, PTL DEF IInv

(* The listener is always the last stream of the walk. *)
THEOREM ListenerStaysLast == Spec => []ListenerIsLast
<1>1. IInv => ListenerIsLast
  BY DEF IInv, ListenerApart, ListenerIsLast
<1> QED
  BY <1>1, Invariant, PTL

(* As long as no cycle evicts twice, streams live and die in pairs. *)
THEOREM RelationsStayPaired == Spec => []RelationsPaired
<1>1. IInv => RelationsPaired
  <2> SUFFICES ASSUME IInv, ~ overlap, NEW s \in live \ abandoned, neighbour[s] # NULL
               PROVE  LET t == neighbour[s] IN
                        /\ t \in live \ abandoned
                        /\ neighbour[t] = s
                        /\ {role[s], role[t]} = {"A", "B"}
                        /\ level[s] = "FORWARDING" <=> level[t] = "FORWARDING"
    BY DEF RelationsPaired
  <2>1. Stage(s) /\ neighbour[s] \in live \ abandoned /\ neighbour[neighbour[s]] = s
    BY PairedStream DEF IInv
  <2> QED
    BY <2>1 DEF Stage
<1> QED
  BY <1>1, Invariant, PTL

(* As long as no cycle evicts twice, one side of a relation is watched. *)
THEOREM NoRelationIsDeaf == Spec => []NoDeafRelation
<1>1. IInv => NoDeafRelation
  <2> SUFFICES ASSUME IInv, ~ overlap, NEW s \in live \ abandoned, events[s] = {}
               PROVE  neighbour[s] # NULL /\ events[neighbour[s]] # {}
    BY DEF NoDeafRelation
  <2>1. Stage(s) /\ (role[s] = "ACCEPT" => events[s] = {"IN"})
    BY PairedStream DEF IInv, ListenerApart
  <2>2. neighbour[s] # NULL =>
          Stage(neighbour[s]) /\ neighbour[s] \in live \ abandoned /\ neighbour[neighbour[s]] = s
    BY PairedStream DEF IInv
  <2> QED
    BY <2>1, <2>2 DEF Stage, Poll, Slot, NULL, IInv, TypeOK
<1> QED
  BY <1>1, Invariant, PTL

(* The listener survives every eviction and every stale neighbour pointer: *)
(* only an error of its own socket, or the end of the proxy, takes it.     *)
THEOREM ListenerStays == Spec => ListenerKept
<1> DEFINE Kept == \A s \in live \ abandoned :
                     role[s] = "ACCEPT" /\ pc' # "done" =>
                       /\ s \in live' /\ role'[s] = "ACCEPT" /\ events'[s] = {"IN"}
                       /\ s \in abandoned' => iter = s /\ "ERR" \in revents[s]
<1>1. IInv /\ IInv' /\ [Next]_vars => [Kept]_vars
  <2> SUFFICES ASSUME IInv, IInv', Next, pc' # "done",
                      NEW s \in live \ abandoned, role[s] = "ACCEPT"
               PROVE  /\ s \in live' /\ role'[s] = "ACCEPT" /\ events'[s] = {"IN"}
                      /\ s \in abandoned' => iter = s /\ "ERR" \in revents[s]
    OBVIOUS
  <2> USE DEF list, fields, history
  <2>1. TypeOK /\ \A t \in live : neighbour[t] # s
    BY DEF IInv, ListenerApart
  <2>2. SUFFICES /\ s \in live' /\ role'[s] = "ACCEPT"
                 /\ s \in abandoned' => iter = s /\ "ERR" \in revents[s]
    BY <2>2 DEF IInv, ListenerApart
  <2>3. ASSUME NEW gone, RemoveStreams(gone), s \notin gone
        PROVE  s \in live' /\ role'[s] = "ACCEPT" /\ s \notin abandoned'
    BY <2>1, <2>3 DEF RemoveStreams, Wipe, TypeOK
  <2>4. CASE CleanupStreams
    BY <2>3, <2>4 DEF CleanupStreams
  <2>5. CASE Watch
    BY <2>5 DEF Watch
  <2>6. CASE Idle
    <3> DEFINE gone == live \cap (abandoned \cup UNION {Relation(p) :
                         p \in {q \in live : role[q] \in {"A", "B"} /\ level[q] # "FORWARDING"}})
    <3>1. RemoveStreams(gone)
      BY <2>6 DEF Idle
    <3>2. s \notin gone
      BY <2>1 DEF Relation
    <3> QED
      BY <2>3, <3>1, <3>2
  <2>7. CASE WatchFails \/ Ended
    BY <2>7 DEF WatchFails, Exit, Ended, vars
  <2>8. ASSUME NEW h \in Slot, Handle(h)
        PROVE  /\ s \in live' /\ role'[s] = "ACCEPT"
               /\ s \in abandoned' => iter = s /\ "ERR" \in revents[s]
    <3>1. h \in live
      BY <2>8, HandledStream DEF IInv
    <3>2. CASE \/ PassOver(h) \/ ForwardChunk(h) \/ AwaitWritable(h) \/ FlushQueue(h)
               \/ FlushPart(h) \/ Greeting(h) \/ Credentials(h) \/ AwaitRequest(h)
               \/ ConnectCompleted(h)
      BY <3>2 DEF PassOver, ForwardChunk, AwaitWritable, FlushQueue, FlushPart, Greeting,
                  Credentials, Reply, AwaitRequest, ConnectCompleted
    <3>3. CASE StreamError(h)
      BY <2>1, <3>1, <3>3 DEF StreamError, AtStream, Abandon, Relation
    <3>4. CASE FlushFails(h) \/ RefuseClient(h) \/ DropEndpoint(h)
      BY <2>1, <3>1, <3>4 DEF FlushFails, Flushes, RefuseClient, DropEndpoint, Dispatches,
                              Abandon, Relation
    <3>5. CASE AcceptFails(h) \/ ConnectIsSevere(h)
      BY <3>5 DEF AcceptFails, ConnectIsSevere, Exit
    <3>6. CASE Accept(h) \/ Connect(h)
      <4>1. PICK n \in Slot, excl \in Slot \cup {NULL}, r \in Role :
              InsertStream(n, excl) /\ role' = [role EXCEPT ![n] = r]
        BY <3>6 DEF Accept, Connect, Role
      <4>2. n # s /\ (s \notin Relation(n) \/ abandoned' = abandoned \ {n})
        BY <2>1, <4>1 DEF InsertStream, IsFirstFree, IsVictim, IsOldest, Relation
      <4> QED
        BY <2>1, <4>1, <4>2 DEF InsertStream, TypeOK
    <3> QED
      BY <2>8, <3>2, <3>3, <3>4, <3>5, <3>6 DEF Handle
  <2> QED
    BY <2>4, <2>5, <2>6, <2>7, <2>8 DEF Next
<1> QED
  BY <1>1, Invariant, PTL DEF Spec, ListenerKept

(* As long as no cycle evicts twice, a relation starts to forward on both  *)
(* sides at once, when its endpoint connects and its client was granted.   *)
THEOREM ForwardingStartsGranted == Spec => ForwardingIsGranted
<1> DEFINE Granted ==
      ~ overlap' =>
        \A s \in Slot : level[s] # "FORWARDING" /\ level'[s] = "FORWARDING" =>
          LET t == neighbour[s] IN
            {<<role[s], level[s]>>, <<role[t], level[t]>>}
              = {<<"A", "PASS">>, <<"B", "CONNECTING">>} /\ level'[t] = "FORWARDING"
<1>1. IInv /\ [Next]_vars => [Granted]_vars
  <2> SUFFICES ASSUME IInv, Next, ~ overlap', NEW s \in Slot,
                      level[s] # "FORWARDING", level'[s] = "FORWARDING"
               PROVE  /\ {<<role[s], level[s]>>, <<role[neighbour[s]], level[neighbour[s]]>>}
                            = {<<"A", "PASS">>, <<"B", "CONNECTING">>}
                      /\ level'[neighbour[s]] = "FORWARDING"
    OBVIOUS
  <2> USE DEF list, fields, history
  <2>1. TypeOK /\ WalkIsListed /\ Paired
    BY DEF IInv
  <2>2. ASSUME NEW gone, RemoveStreams(gone) PROVE FALSE
    BY <2>1, <2>2 DEF RemoveStreams, Wipe, TypeOK
  <2>3. ~ (CleanupStreams \/ Watch \/ Idle \/ WatchFails \/ Ended)
    BY <2>2 DEF CleanupStreams, Watch, Idle, WatchFails, Exit, Ended, vars
  <2>4. PICK h \in Slot : Handle(h)
    BY <2>3 DEF Next
  <2>5. ConnectCompleted(h)
    <3>1. ~ (PassOver(h) \/ StreamError(h) \/ ForwardChunk(h) \/ AwaitWritable(h)
              \/ FlushQueue(h) \/ FlushPart(h) \/ FlushFails(h) \/ AwaitRequest(h)
              \/ RefuseClient(h) \/ DropEndpoint(h))
      BY DEF PassOver, StreamError, ForwardChunk, AwaitWritable, FlushQueue, FlushPart,
             FlushFails, AwaitRequest, RefuseClient, DropEndpoint, Abandon
    <3>2. ~ (AcceptFails(h) \/ ConnectIsSevere(h))
      BY <2>2 DEF AcceptFails, ConnectIsSevere, Exit
    <3>3. ~ (Greeting(h) \/ Credentials(h) \/ Accept(h) \/ Connect(h))
      BY <2>1 DEF Greeting, Credentials, Reply, Accept, Connect, TypeOK
    <3> QED
      BY <2>4, <3>1, <3>2, <3>3 DEF Handle
  <2>6. /\ h \in live \ abandoned /\ ~ overlap
        /\ role[h] = "B" /\ level[h] = "CONNECTING" /\ neighbour[h] # NULL
        /\ level' = [level EXCEPT ![h] = "FORWARDING", ![neighbour[h]] = "FORWARDING"]
    BY <2>1, <2>5 DEF ConnectCompleted, Completes, Dispatches, NotForwarded, Handles,
                      AtStream, WalkIsListed
  <2>7. /\ neighbour[h] \in Slot /\ neighbour[neighbour[h]] = h
        /\ role[neighbour[h]] = "A" /\ level[neighbour[h]] = "PASS"
    BY <2>1, <2>6, PairedStream DEF Stage, TypeOK
  <2>8. s = h \/ s = neighbour[h]
    BY <2>1, <2>6 DEF TypeOK
  <2> QED
    BY <2>1, <2>6, <2>7, <2>8 DEF TypeOK
<1> QED
  BY <1>1, Invariant, PTL DEF Spec, ForwardingIsGranted

=============================================================================
