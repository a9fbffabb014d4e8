-------------------------- MODULE EventWatchProofs --------------------------
(***************************************************************************)
(* What holds of EventWatch for every PoolSize, every number of            *)
(* descriptors, and whatever state these are found in: descriptors are     *)
(* owned, the kernel's interest agrees with the streams at every wait, and *)
(* reports reach the streams they are meant for.                           *)
(***************************************************************************)
EXTENDS EventWatch, FiniteSetTheorems, TLAPS

LEMMA NullIsNoSlot == NULL \notin Slot /\ NONE \notin Descriptor
BY DEF NULL, Slot, NONE, Descriptor

LEMMA NoEntryIsNone ==
  ASSUME NEW s \in Slot, NEW m \in Mask
  PROVE  [mask |-> m, stream |-> s] # NoEntry
BY NullIsNoSlot DEF NoEntry

LEMMA InitHolds == Init => IInv
<1> SUFFICES ASSUME Init PROVE IInv
  OBVIOUS
<1> USE DEF Init
<1>1. 1 \in Slot /\ 1 \in Descriptor /\ NONE # 1
  BY PoolSizeAssumption, MaxDescriptorAssumption DEF Slot, Descriptor, NONE
<1>2. TypeOK
  BY <1>1 DEF TypeOK, Mask, Poll, Unwatched, Idle, NoEntry
<1>3. Owned
  BY <1>1 DEF Owned
<1>4. Cached /\ ListIsFresh /\ NoStranger /\ BuiltSoFar /\ ReportsAreTrue
  BY <1>1 DEF Cached, ListIsFresh, NoStranger, BuiltSoFar, ReportsAreTrue, Unwatched
<1> QED
  BY <1>2, <1>3, <1>4 DEF IInv

-----------------------------------------------------------------------------
(* Steps between two watches *)

(* A removal closes the descriptor of the stream and of no other one.      *)
LEMMA RemoveKeeps ==
  ASSUME IInv, NEW s \in live, RemoveStream(s),
         UNCHANGED <<pc, backend, events, levents, pollref, revents, todo, sock, ready>>,
         pc \in {"work", "exit"}
  PROVE  IInv'
<1> USE DEF IInv
<1>1. /\ s \in Slot /\ fd[s] \in Descriptor /\ live' \subseteq live /\ live' \subseteq Slot
      /\ \A t \in live' : t # s /\ t \in Slot /\ fd'[t] = fd[t] /\ fd[t] # fd[s]
                          /\ fd[t] \in Descriptor
  BY DEF TypeOK, Owned, RemoveStream
<1>2. interest'[fd[s]] = NoEntry /\ \A d \in Descriptor \ {fd[s]} : interest'[d] = interest[d]
  BY <1>1 DEF RemoveStream, TypeOK
<1>3. TypeOK'
  BY <1>1 DEF TypeOK, RemoveStream, NoEntry, Mask
<1>4. Owned'
  BY <1>1 DEF Owned, RemoveStream
<1>5. Cached'
  BY <1>1, <1>2 DEF Cached
<1>6. ListIsFresh'
  <2>1. CASE backend = "poll"
    BY <2>1, <1>1 DEF ListIsFresh, RemoveStream, Unwatched
  <2>2. CASE backend # "poll"
    BY <2>2 DEF ListIsFresh
  <2> QED
    BY <2>1, <2>2
<1>7. NoStranger'
  <2> SUFFICES ASSUME NEW d \in Descriptor, \A t \in live' : fd'[t] # d
               PROVE  interest'[d] = NoEntry
    BY DEF NoStranger
  <2>1. CASE d = fd[s]
    BY <1>2, <2>1
  <2>2. CASE d # fd[s]
    <3>1. \A t \in live : fd[t] # d
      BY <1>1, <2>2 DEF RemoveStream
    <3> QED
      BY <1>2, <2>2, <3>1 DEF NoStranger
  <2> QED
    BY <2>1, <2>2
<1>8. BuiltSoFar' /\ ReportsAreTrue'
  BY DEF BuiltSoFar, ReportsAreTrue, RemoveStream
<1> QED
  BY <1>3, <1>4, <1>5, <1>6, <1>7, <1>8

(* A descriptor that is not of a stream is not watched, so it may be       *)
(* opened, closed again, or given to a new stream.                         *)
LEMMA OpenKeeps ==
  ASSUME IInv, SetEvents \/ Open \/ OpenFails \/ Reject
  PROVE  IInv'
<1> USE DEF IInv
<1>1. CASE SetEvents
  <2>1. TypeOK'
    BY <1>1 DEF SetEvents, TypeOK, kernel
  <2>2. Owned' /\ NoStranger' /\ BuiltSoFar' /\ ReportsAreTrue'
    BY <1>1 DEF SetEvents, Owned, NoStranger, BuiltSoFar, ReportsAreTrue, kernel
  <2>3. Cached' /\ ListIsFresh'
    BY <1>1 DEF SetEvents, Cached, ListIsFresh, kernel
  <2> QED
    BY <2>1, <2>2, <2>3
<1>2. CASE Open
  <2>1. TypeOK'
    BY <1>2 DEF Open, TypeOK, stream
  <2>2. Owned'
    <3>1. PICK d \in Descriptor \ open : sock' = d /\ open' = open \cup {d}
      BY <1>2 DEF Open
    <3>2. sock = NONE /\ live' = live /\ fd' = fd /\ \A e \in open : e # NONE
      BY <1>2, NullIsNoSlot DEF Open, stream, TypeOK
    <3> QED
      BY <3>1, <3>2, NullIsNoSlot DEF Owned
  <2>3. Cached' /\ ListIsFresh' /\ NoStranger' /\ BuiltSoFar' /\ ReportsAreTrue'
    BY <1>2 DEF Open, Cached, ListIsFresh, NoStranger, BuiltSoFar, ReportsAreTrue, stream
  <2> QED
    BY <2>1, <2>2, <2>3
<1>3. CASE OpenFails
  <2>1. TypeOK' /\ Owned'
    BY <1>3 DEF OpenFails, TypeOK, Owned, stream, kernel
  <2>2. Cached' /\ ListIsFresh' /\ NoStranger' /\ BuiltSoFar' /\ ReportsAreTrue'
    BY <1>3 DEF OpenFails, Cached, ListIsFresh, NoStranger, BuiltSoFar, ReportsAreTrue,
                stream, kernel
  <2> QED
    BY <2>1, <2>2
<1>4. CASE Reject
  <2>1. sock \in Descriptor /\ \A s \in live : fd[s] # sock
    BY <1>4, NullIsNoSlot DEF Reject, Owned, TypeOK
  <2>2. interest' = interest
    <3>1. interest[sock] = NoEntry
      BY <2>1 DEF NoStranger
    <3> QED
      BY <1>4, <2>1, <3>1 DEF Reject, TypeOK
  <2>3. TypeOK'
    BY <1>4, <2>2 DEF Reject, TypeOK, stream
  <2>4. Owned'
    BY <1>4, <2>1 DEF Reject, Owned, stream
  <2>5. Cached' /\ ListIsFresh' /\ NoStranger' /\ BuiltSoFar' /\ ReportsAreTrue'
    BY <1>4, <2>2 DEF Reject, Cached, ListIsFresh, NoStranger, BuiltSoFar, ReportsAreTrue,
                      stream
  <2> QED
    BY <2>3, <2>4, <2>5
<1> QED
  BY <1>1, <1>2, <1>3, <1>4

LEMMA InsertKeeps ==
  ASSUME IInv, Insert
  PROVE  IInv'
<1> USE DEF IInv
<1>1. PICK n \in Slot, e \in {{"IN"}, Poll} :
        /\ IsFirstFree(live, n)
        /\ live' = live \cup {n}
        /\ fd' = [fd EXCEPT ![n] = sock]
        /\ events' = [events EXCEPT ![n] = e]
        /\ levents' = [levents EXCEPT ![n] = {}]
        /\ pollref' = [pollref EXCEPT ![n] = FALSE]
        /\ revents' = [revents EXCEPT ![n] = {}]
  BY DEF Insert
<1>2. /\ n \notin live /\ sock \in Descriptor /\ \A s \in live : fd[s] # sock
      /\ pc = "work" /\ UNCHANGED <<pc, backend, interest, open, todo, ready>> /\ sock' = NONE
  BY <1>1, NullIsNoSlot DEF Insert, IsFirstFree, Owned, TypeOK, kernel
<1>3. interest[sock] = NoEntry
  BY <1>2 DEF NoStranger
<1>4. TypeOK'
  <2>1. events' \in [Slot -> Mask] /\ levents' \in [Slot -> Mask]
    BY <1>1 DEF TypeOK, Mask, Poll
  <2>2. /\ live' \subseteq Slot /\ fd' \in [Slot -> Descriptor \cup {NONE}]
        /\ pollref' \in [Slot -> BOOLEAN]
        /\ revents' \in [Slot -> SUBSET (Poll \cup {"ERR"})]
    BY <1>1, <1>2 DEF TypeOK
  <2> QED
    BY <1>2, <2>1, <2>2 DEF TypeOK
<1>5. /\ fd'[n] = sock /\ pollref'[n] = FALSE
      /\ \A s \in live : /\ s \in Slot /\ s # n
                         /\ fd'[s] = fd[s] /\ pollref'[s] = pollref[s] /\ levents'[s] = levents[s]
  BY <1>1, <1>2 DEF TypeOK
<1>6. Owned'
  BY <1>1, <1>2, <1>5, NullIsNoSlot DEF Owned
<1>7. Cached'
  BY <1>1, <1>2, <1>3, <1>5 DEF Cached
<1>8. ListIsFresh' /\ BuiltSoFar' /\ ReportsAreTrue'
  BY <1>2 DEF ListIsFresh, BuiltSoFar, ReportsAreTrue
<1>9. NoStranger'
  BY <1>1, <1>2, <1>5 DEF NoStranger
<1> QED
  BY <1>4, <1>6, <1>7, <1>8, <1>9

-----------------------------------------------------------------------------
(* Steps of a watch *)

LEMMA StartKeeps ==
  ASSUME IInv, StartBuild
  PROVE  IInv'
<1> USE DEF IInv
<1>1. TypeOK' /\ Owned'
  BY DEF StartBuild, TypeOK, Owned, kernel
<1>2. Cached'
  BY DEF StartBuild, Cached, kernel, TypeOK
<1>3. ListIsFresh'
  BY DEF StartBuild, ListIsFresh, kernel, Unwatched, TypeOK, Owned
<1>4. NoStranger' /\ BuiltSoFar' /\ ReportsAreTrue'
  BY DEF StartBuild, NoStranger, BuiltSoFar, ReportsAreTrue, kernel
<1> QED
  BY <1>1, <1>2, <1>3, <1>4

(* The loop passes a stream, and the entries of the others stay.           *)
LEMMA BuildKeeps ==
  ASSUME IInv, Build
  PROVE  IInv'
<1> USE DEF IInv
<1>1. PICK s \in todo : /\ Register(s) \/ Deregister(s) \/ UpToDate(s) \/ Append(s)
                        /\ todo' = todo \ {s}
  BY DEF Build
<1>2. /\ pc = "build" /\ s \in live /\ s \in Slot /\ fd[s] \in Descriptor
      /\ UNCHANGED <<pc, backend, live, fd, events, revents, sock, open, ready>>
      /\ \A t \in live : /\ t \in Slot /\ fd[t] \in Descriptor
                         /\ t # s => fd[t] # fd[s]
  BY <1>1 DEF Build, BuiltSoFar, TypeOK, Owned
<1>3. /\ interest'[fd[s]] = IF events[s] = {} THEN NoEntry ELSE Watched(s)
      /\ \A d \in Descriptor \ {fd[s]} : interest'[d] = interest[d]
      /\ interest' \in [Descriptor -> [mask : Mask, stream : Slot \cup {NULL}]]
  <2>0. interest \in [Descriptor -> [mask : Mask, stream : Slot \cup {NULL}]]
        /\ Watched(s) \in [mask : Mask, stream : Slot \cup {NULL}]
        /\ NoEntry \in [mask : Mask, stream : Slot \cup {NULL}]
    BY <1>2 DEF TypeOK, Watched, NoEntry, Mask
  <2>1. CASE Register(s)
    BY <1>2, <2>0, <2>1 DEF Register
  <2>2. CASE Deregister(s)
    BY <1>2, <2>0, <2>2 DEF Deregister
  <2>3. CASE UpToDate(s)
    <3>1. interest[fd[s]] = IF pollref[s] THEN [mask |-> levents[s], stream |-> s] ELSE NoEntry
      BY <1>2, <2>3 DEF UpToDate, Cached
    <3> QED
      BY <2>0, <2>3, <3>1 DEF UpToDate, Watched
  <2>4. CASE Append(s)
    <3>1. interest[fd[s]] = NoEntry
      BY <1>1, <1>2, <2>4 DEF Append, ListIsFresh
    <3> QED
      BY <1>2, <2>0, <2>4, <3>1 DEF Append
  <2> QED
    BY <1>1, <2>1, <2>2, <2>3, <2>4
<1>4. /\ pollref' \in [Slot -> BOOLEAN] /\ levents' \in [Slot -> Mask]
      /\ \A t \in Slot : t # s => pollref'[t] = pollref[t] /\ levents'[t] = levents[t]
      /\ backend = "epoll" =>
           /\ pollref'[s] <=> events[s] # {}
           /\ pollref'[s] => levents'[s] = events[s]
  <2>1. CASE Register(s)
    BY <1>2, <2>1 DEF Register, TypeOK
  <2>2. CASE Deregister(s)
    BY <1>2, <2>2 DEF Deregister, TypeOK
  <2>3. CASE UpToDate(s)
    BY <1>2, <2>3 DEF UpToDate, TypeOK
  <2>4. CASE Append(s)
    BY <1>2, <2>4 DEF Append, TypeOK
  <2> QED
    BY <1>1, <2>1, <2>2, <2>3, <2>4
<1>5. TypeOK'
  BY <1>1, <1>2, <1>3, <1>4 DEF TypeOK
<1>6. Owned' /\ ReportsAreTrue'
  BY <1>2 DEF Owned, ReportsAreTrue
<1>7. Cached'
  <2> SUFFICES ASSUME backend = "epoll", NEW t \in live
               PROVE  /\ pollref'[t] => levents'[t] # {}
                      /\ interest'[fd[t]] = IF pollref'[t] THEN [mask |-> levents'[t], stream |-> t]
                                                           ELSE NoEntry
    BY <1>2 DEF Cached
  <2>1. CASE t = s
    BY <1>3, <1>4, <2>1 DEF Watched
  <2>2. CASE t # s
    BY <1>2, <1>3, <1>4, <2>2 DEF Cached
  <2> QED
    BY <2>1, <2>2
<1>8. ListIsFresh'
  BY <1>1, <1>2, <1>3 DEF ListIsFresh, BuiltSoFar
<1>9. NoStranger'
  BY <1>2, <1>3 DEF NoStranger
<1>10. BuiltSoFar'
  <2>1. \A t \in live \ todo' :
          interest'[fd[t]] = IF events[t] = {} THEN NoEntry ELSE Watched(t)
    BY <1>1, <1>2, <1>3 DEF BuiltSoFar
  <2>2. \A t \in live : Watched(t)' = Watched(t)
    BY <1>2 DEF Watched
  <2> QED
    BY <1>1, <1>2, <2>1, <2>2 DEF BuiltSoFar
<1> QED
  BY <1>5, <1>6, <1>7, <1>8, <1>9, <1>10

(* What a stream gets is the report of its own descriptor: an entry that   *)
(* designates the stream is the entry of its descriptor.                   *)
LEMMA WaitKeeps ==
  ASSUME IInv, Wait
  PROVE  IInv'
<1> USE DEF IInv
<1> DEFINE own(s) == {d \in Descriptor : Report(d) # {} /\ interest[d].stream = s}
<1>1. /\ pc = "build" /\ todo = {} /\ pc' = "reported"
      /\ UNCHANGED <<backend, live, fd, events, levents, pollref, todo, sock, open, interest>>
      /\ revents' = [s \in Slot |-> IF s \in live \/ own(s) # {}
                                      THEN UNION {Report(d) : d \in own(s)} ELSE revents[s]]
  BY DEF Wait
<1>2. PICK r \in [open -> Readiness] :
        ready' = [d \in Descriptor |-> IF d \in open THEN r[d] ELSE {}]
  BY DEF Wait
<1>3. ready' \in [Descriptor -> SUBSET (Poll \cup {"ERR"})]
  <2>1. Readiness \subseteq SUBSET (Poll \cup {"ERR"})
    BY ReadinessAssumption DEF Poll
  <2> QED
    BY <1>2, <2>1
<1>4. \A d \in Descriptor : Report(d) \subseteq Poll \cup {"ERR"}
  BY <1>3 DEF Report
<1>5. revents' \in [Slot -> SUBSET (Poll \cup {"ERR"})]
  <2>1. \A s \in Slot : UNION {Report(d) : d \in own(s)} \subseteq Poll \cup {"ERR"}
    BY <1>4
  <2>2. revents \in [Slot -> SUBSET (Poll \cup {"ERR"})]
    BY DEF TypeOK
  <2> HIDE DEF own
  <2> QED
    BY <1>1, <2>1, <2>2
<1>6. TypeOK'
  BY <1>1, <1>3, <1>5 DEF TypeOK
<1>7. Owned' /\ Cached' /\ NoStranger' /\ ListIsFresh'
  BY <1>1 DEF Owned, Cached, NoStranger, ListIsFresh
<1>8. BuiltSoFar'
  BY <1>1 DEF BuiltSoFar, Watched
<1>9. ASSUME NEW s \in live
      PROVE  revents'[s] = IF events[s] = {} THEN {}
                                             ELSE ready'[fd[s]] \cap (events[s] \cup {"ERR"})
  <2>1. s \in Slot /\ fd[s] \in Descriptor /\ events[s] \in Mask
    BY DEF TypeOK, Owned
  <2>2. interest[fd[s]] = IF events[s] = {} THEN NoEntry ELSE Watched(s)
    BY <1>1 DEF BuiltSoFar
  <2>3. Report(fd[s]) = IF events[s] = {} THEN {} ELSE ready'[fd[s]] \cap (events[s] \cup {"ERR"})
    BY <2>1, <2>2, NoEntryIsNone DEF Report, Watched
  <2>4. \A d \in own(s) : d = fd[s]
    <3> SUFFICES ASSUME NEW d \in Descriptor, Report(d) # {}, interest[d].stream = s
                 PROVE  d = fd[s]
      OBVIOUS
    <3>1. interest[d] # NoEntry
      BY DEF Report
    <3>2. PICK t \in live : fd[t] = d
      BY <3>1 DEF NoStranger
    <3>3. interest[d] = Watched(t)
      BY <1>1, <3>1, <3>2 DEF BuiltSoFar
    <3> QED
      BY <3>2, <3>3 DEF Watched
  <2>5. events[s] # {} => Watched(s).stream = s
    BY DEF Watched
  <2>6. UNION {Report(d) : d \in own(s)} = Report(fd[s])
    <3>1. CASE Report(fd[s]) = {}
      <4>1. own(s) = {}
        BY <2>4, <3>1
      <4> HIDE DEF own
      <4> QED
        BY <3>1, <4>1
    <3>2. CASE Report(fd[s]) # {}
      <4>1. events[s] # {} /\ interest[fd[s]].stream = s
        BY <2>2, <2>3, <2>5, <3>2
      <4>2. own(s) = {fd[s]}
        BY <2>1, <2>4, <3>2, <4>1
      <4> HIDE DEF own
      <4> QED
        BY <4>2
    <3> QED
      BY <3>1, <3>2
  <2> HIDE DEF own
  <2>7. revents'[s] = UNION {Report(d) : d \in own(s)}
    BY <1>1, <2>1
  <2> QED
    BY <2>3, <2>6, <2>7
<1>10. ReportsAreTrue'
  BY <1>1, <1>9 DEF ReportsAreTrue
<1> QED
  BY <1>6, <1>7, <1>8, <1>10

LEMMA ReturnKeeps ==
  ASSUME IInv, WatchFails \/ Return \/ End
  PROVE  IInv'
<1> USE DEF IInv
<1>1. /\ UNCHANGED <<backend, live, fd, events, levents, pollref, sock, open>>
      /\ interest' = interest \/ (backend = "poll" /\ interest' = Unwatched)
      /\ pc' \in {"work", "exit", "done"} /\ (pc' = "done" => live = {})
      /\ todo' \subseteq todo /\ revents' = revents /\ ready' \in {ready, Idle}
  BY DEF WatchFails, Return, End, stream, kernel
<1>2. TypeOK'
  <2>1. interest' \in [Descriptor -> [mask : Mask, stream : Slot \cup {NULL}]]
    BY <1>1 DEF TypeOK, Unwatched, NoEntry, Mask
  <2>2. ready' \in [Descriptor -> SUBSET (Poll \cup {"ERR"})]
    BY <1>1 DEF TypeOK, Idle
  <2> QED
    BY <1>1, <2>1, <2>2 DEF TypeOK
<1>3. Owned' /\ Cached' /\ ReportsAreTrue'
  BY <1>1 DEF Owned, Cached, ReportsAreTrue
<1>4. ListIsFresh'
  BY DEF ListIsFresh, WatchFails, Return, End, kernel
<1>5. NoStranger'
  BY <1>1 DEF NoStranger, Unwatched
<1>6. BuiltSoFar'
  BY DEF BuiltSoFar, WatchFails, Return, End, stream
<1> QED
  BY <1>2, <1>3, <1>4, <1>5, <1>6

LEMMA NextHolds == IInv /\ [Next]_vars => IInv'
<1> SUFFICES ASSUME IInv, [Next]_vars PROVE IInv'
  OBVIOUS
<1>1. CASE UNCHANGED vars
  <2>1. UNCHANGED <<pc, backend, live, fd, events, levents, pollref, revents, todo, sock, open,
                    interest, ready>>
    BY <1>1 DEF vars, stream, kernel
  <2> QED
    BY <2>1 DEF IInv, TypeOK, Owned, Cached, ListIsFresh, NoStranger, BuiltSoFar, Watched,
                ReportsAreTrue
<1>2. CASE Remove \/ Drain
  BY <1>2, RemoveKeeps DEF Remove, Drain
<1>3. CASE Next
  BY <1>1, <1>2, <1>3, OpenKeeps, InsertKeeps, StartKeeps, BuildKeeps, WaitKeeps, ReturnKeeps
     DEF Next, Ended
<1> QED
  BY <1>1, <1>3

-----------------------------------------------------------------------------
(* The theorems *)

(* The inductive invariant. *)
THEOREM Invariant == Spec => []IInv
BY InitHolds, NextHolds, PTL DEF Spec

(* Through every error path and every eviction, open descriptors belong to *)
(* exactly one stream, or to the handler that has just opened them.        *)
THEOREM DescriptorsOwned == Spec => []Owned
<1>1. IInv => Owned
  BY DEF IInv
<1> QED
  BY <1>1, Invariant, PTL

(* When the wait begins, the kernel watches what the streams wait for, and *)
(* nothing else, whatever was opened, closed and reused in between.        *)
THEOREM InterestIsRight == Spec => []InterestAgrees
<1>1. IInv => InterestAgrees
  <2> SUFFICES ASSUME IInv, pc = "build", todo = {}, NEW d \in Descriptor
               PROVE  interest[d] = IF \E s \in live : fd[s] = d /\ events[s] # {}
                                      THEN Watched(CHOOSE s \in live : fd[s] = d)
                                      ELSE NoEntry
    BY DEF InterestAgrees
  <2>1. CASE \E s \in live : fd[s] = d
    <3>1. PICK s \in live : fd[s] = d
      BY <2>1
    <3>2. (CHOOSE t \in live : fd[t] = d) = s
      BY <3>1 DEF IInv, Owned
    <3>3. interest[d] = IF events[s] = {} THEN NoEntry ELSE Watched(s)
      BY <3>1 DEF IInv, BuiltSoFar
    <3>4. (\E t \in live : fd[t] = d /\ events[t] # {}) <=> events[s] # {}
      BY <3>1 DEF IInv, Owned
    <3> QED
      BY <3>2, <3>3, <3>4
  <2>2. CASE ~ \E s \in live : fd[s] = d
    BY <2>2 DEF IInv, NoStranger
  <2> QED
    BY <2>1, <2>2
<1> QED
  BY <1>1, Invariant, PTL

(* poll_list has room for the stream that the loop reaches: each entry     *)
(* made so far is of another stream of the pool.                           *)
LEMMA PollListFits ==
  ASSUME IInv, pc = "build", backend = "poll", NEW s \in todo
  PROVE  Cardinality(Entries) \in Nat /\ Cardinality(Entries) < PoolSize
<1> USE DEF IInv
<1> DEFINE Others == Slot \ {s}
           f == [d \in Entries |-> interest[d].stream]
<1>1. s \in live /\ s \in Slot /\ interest[fd[s]] = NoEntry
  BY DEF BuiltSoFar, ListIsFresh, TypeOK
<1>2. \A d \in Entries : \E t \in live : /\ fd[t] = d /\ t \in Others
                                         /\ interest[d].stream = t
  <2> SUFFICES ASSUME NEW d \in Entries
               PROVE  \E t \in live : fd[t] = d /\ t \in Others /\ interest[d].stream = t
    OBVIOUS
  <2>1. d \in Descriptor /\ interest[d] # NoEntry
    BY DEF Entries
  <2>2. PICK t \in live : fd[t] = d
    BY <2>1 DEF NoStranger
  <2>3. t \notin todo
    BY <2>1, <2>2 DEF ListIsFresh
  <2>4. interest[d] = Watched(t)
    BY <2>1, <2>2, <2>3 DEF BuiltSoFar
  <2> QED
    BY <2>2, <2>3, <2>4 DEF Watched, TypeOK
<1>3. f \in Injection(Entries, Others)
  BY <1>2 DEF Injection, IsInjective
<1>4. IsFiniteSet(Slot) /\ Cardinality(Slot) = PoolSize
  BY PoolSizeAssumption, FS_Interval DEF Slot
<1>5. IsFiniteSet(Others) /\ Cardinality(Others) = PoolSize - 1
  BY <1>1, <1>4, FS_RemoveElement
<1> HIDE DEF Others, f
<1>6. IsFiniteSet(Entries) /\ Cardinality(Entries) <= Cardinality(Others)
  BY <1>3, <1>5, FS_Injection
<1>7. Cardinality(Entries) \in Nat
  BY <1>6, FS_CardinalityType
<1> QED
  BY <1>5, <1>6, <1>7, PoolSizeAssumption

(* The kernel is never asked for what it must refuse. *)
THEOREM NothingRefused == Spec => []NeverRefused
<1>1. IInv => NeverRefused
  <2> SUFFICES ASSUME IInv, pc = "build", NEW s \in todo PROVE ~ Refused(s)
    BY DEF NeverRefused
  <2>1. CASE backend = "poll"
    BY <2>1, PollListFits, PoolSizeAssumption DEF Refused
  <2>2. CASE backend = "epoll"
    <3>1. s \in live /\ s \in Slot /\ levents[s] \in Mask
      BY DEF IInv, BuiltSoFar, TypeOK
    <3>2. interest[fd[s]] = IF pollref[s] THEN [mask |-> levents[s], stream |-> s] ELSE NoEntry
      BY <2>2, <3>1 DEF IInv, Cached
    <3> QED
      BY <2>2, <3>1, <3>2, NoEntryIsNone DEF Refused
  <2> QED
    BY <2>1, <2>2 DEF IInv, TypeOK
<1> QED
  BY <1>1, Invariant, PTL

(* After a watch, each stream knows exactly what it waits for and is there.*)
THEOREM ReportsReachTheirStream == Spec => []ReportsAreTrue
<1>1. IInv => ReportsAreTrue
  BY DEF IInv
<1> QED
  BY <1>1, Invariant, PTL

(* When the proxy has ended, every descriptor was closed. *)
THEOREM ClosesAll == Spec => []AllClosed
<1>1. IInv => AllClosed
  BY NullIsNoSlot DEF IInv, AllClosed, BuiltSoFar, Owned, TypeOK
<1> QED
  BY <1>1, Invariant, PTL

=============================================================================
