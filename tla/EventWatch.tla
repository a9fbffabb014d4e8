----------------------------- MODULE EventWatch -----------------------------
(***************************************************************************)
(* Descriptors, and how watch_streams keeps the kernel informed of them.   *)
(*                                                                         *)
(* Streams cache what epoll knows of their descriptor: pollref says that   *)
(* it is registered, levents for which events.  Each watch compares this   *)
(* with events and corrects the kernel's interest set, one stream at a     *)
(* time; poll builds its list anew instead.  Between two watches handlers  *)
(* and cleanups run; here they make any sequence of the calls that matter: *)
(* they change events, open and close descriptors, insert and remove       *)
(* streams.  Numbers of closed descriptors are used again, as are slots.   *)
(***************************************************************************)
EXTENDS StreamPool, FiniteSets

CONSTANT MaxDescriptor   \* the process may have as many open

CONSTANT Readiness       \* the states that descriptors are found in

ASSUME MaxDescriptorAssumption == MaxDescriptor \in Nat \ {0}
ASSUME ReadinessAssumption == Readiness \subseteq SUBSET {"IN", "OUT", "ERR"}

Descriptor == 1 .. MaxDescriptor
NONE       == 0                                  \* -1 in the code
Poll       == {"IN", "OUT"}
Mask       == SUBSET Poll
NoEntry    == [mask |-> {}, stream |-> NULL]     \* nothing is watched

VARIABLES
  pc,        \* "work", "build", "reported", "exit" or "done"
  backend,   \* "epoll", or "poll" if there is no epoll descriptor
  live,      \* the slots with allocated set
  fd, events, levents, pollref, revents,   \* fields of the streams
  todo,      \* streams that the loop of build_epoll_list has not reached
  sock,      \* the local variable of the handler that opened a descriptor
  open,      \* the open descriptors
  interest,  \* what the kernel watches: epoll's interest set, or poll_list
  ready      \* the state of the descriptors when the last watch ended

stream  == <<live, fd, events, levents, pollref, revents>>
kernel  == <<open, interest, ready>>
vars    == <<pc, backend, stream, todo, sock, kernel>>

Unwatched == [d \in Descriptor |-> NoEntry]
Idle      == [d \in Descriptor |-> {}]

TypeOK ==
  /\ pc \in {"work", "build", "reported", "exit", "done"}
  /\ backend \in {"epoll", "poll"}
  /\ live \subseteq Slot /\ todo \subseteq Slot
  /\ fd \in [Slot -> Descriptor \cup {NONE}]
  /\ events \in [Slot -> Mask] /\ levents \in [Slot -> Mask]
  /\ pollref \in [Slot -> BOOLEAN]
  /\ revents \in [Slot -> SUBSET (Poll \cup {"ERR"})]
  /\ sock \in Descriptor \cup {NONE}
  /\ open \subseteq Descriptor
  /\ interest \in [Descriptor -> [mask : Mask, stream : Slot \cup {NULL}]]
  /\ ready \in [Descriptor -> SUBSET (Poll \cup {"ERR"})]

-----------------------------------------------------------------------------
(* proxy_task: the listen stream is the first one. *)
Init ==
  /\ pc = "work"
  /\ backend \in {"epoll", "poll"}
  /\ live = {1}
  /\ fd = [s \in Slot |-> IF s = 1 THEN 1 ELSE NONE]
  /\ events = [s \in Slot |-> IF s = 1 THEN {"IN"} ELSE {}]
  /\ levents = [s \in Slot |-> {}]
  /\ pollref = [s \in Slot |-> FALSE]
  /\ revents = [s \in Slot |-> {}]
  /\ todo = {}
  /\ sock = NONE
  /\ open = {1}
  /\ interest = Unwatched
  /\ ready = Idle

-----------------------------------------------------------------------------
(* Calls of the handlers and of the cleanups *)

(* A mistake: remove_stream leaves the descriptor open. *)
RemoveOpen(s) ==
  /\ live' = live \ {s}
  /\ fd' = [fd EXCEPT ![s] = NONE]
  /\ interest' = [interest EXCEPT ![fd[s]] = IF pollref[s] /\ backend = "epoll" THEN NoEntry ELSE @]
  /\ UNCHANGED open

(* remove_stream: the registration goes with the descriptor at the latest; *)
(* the fields of the stream stay what they were.                           *)
RemoveStream(s) ==
  /\ live' = live \ {s}
  /\ fd' = [fd EXCEPT ![s] = NONE]
  /\ interest' = [interest EXCEPT ![fd[s]] = NoEntry]
  /\ open' = open \ {fd[s]}

(* A handler changes the events of a stream, its own or the neighbour.     *)
SetEvents ==
  /\ pc = "work"
  /\ \E s \in live, e \in Mask : events' = [events EXCEPT ![s] = e]
  /\ UNCHANGED <<pc, backend, live, fd, levents, pollref, revents, todo, sock, kernel>>

(* accept or socket: the lowest free number. *)
Open ==
  /\ pc = "work" /\ sock = NONE
  /\ \E d \in Descriptor \ open :
       /\ \A e \in Descriptor \ open : d <= e
       /\ sock' = d /\ open' = open \cup {d}
  /\ UNCHANGED <<pc, backend, stream, todo, interest, ready>>

(* They fail, which ends the proxy. *)
OpenFails ==
  /\ pc = "work" /\ sock = NONE
  /\ pc' = "exit"
  /\ UNCHANGED <<backend, stream, todo, sock, kernel>>

(* A mistake: an error is returned before the descriptor is closed. *)
RejectLeaks ==
  /\ pc = "work" /\ sock # NONE
  /\ sock' = NONE
  /\ pc' \in {"work", "exit"}
  /\ UNCHANGED <<backend, stream, todo, kernel>>

(* The non-blocking mode, the connect or the insertion failed; some of     *)
(* these failures end the proxy.                                           *)
Reject ==
  /\ pc = "work" /\ sock # NONE
  /\ open' = open \ {sock}
  /\ interest' = [interest EXCEPT ![sock] = NoEntry]
  /\ sock' = NONE
  /\ pc' \in {"work", "exit"}
  /\ UNCHANGED <<backend, stream, todo, ready>>

(* A mistake: the slot is not cleared, so that it seems to be registered.  *)
InsertUncleared ==
  /\ pc = "work" /\ sock # NONE
  /\ \E n \in Slot, e \in {{"IN"}, Poll} :
       /\ IsFirstFree(live, n)
       /\ live' = live \cup {n}
       /\ fd' = [fd EXCEPT ![n] = sock]
       /\ events' = [events EXCEPT ![n] = e]
  /\ sock' = NONE
  /\ UNCHANGED <<pc, backend, levents, pollref, revents, todo, kernel>>

(* insert_stream, and the events that its caller sets. *)
Insert ==
  /\ pc = "work" /\ sock # NONE
  /\ \E n \in Slot, e \in {{"IN"}, Poll} :
       /\ IsFirstFree(live, n)
       /\ live' = live \cup {n}
       /\ fd' = [fd EXCEPT ![n] = sock]
       /\ events' = [events EXCEPT ![n] = e]
       /\ levents' = [levents EXCEPT ![n] = {}]
       /\ pollref' = [pollref EXCEPT ![n] = FALSE]
       /\ revents' = [revents EXCEPT ![n] = {}]
  /\ sock' = NONE
  /\ UNCHANGED <<pc, backend, todo, kernel>>

(* force_cleanup, while the handler holds a descriptor, or cleanup_streams *)
Remove ==
  /\ pc = "work"
  /\ sock # NONE => live = Slot
  /\ \E s \in live : RemoveStream(s)
  /\ UNCHANGED <<pc, backend, events, levents, pollref, revents, todo, sock, ready>>

-----------------------------------------------------------------------------
(* watch_streams *)

(* The list is built; poll starts from an empty one. *)
StartBuild ==
  /\ pc = "work" /\ sock = NONE
  /\ pc' = "build"
  /\ todo' = live
  /\ pollref' = [s \in Slot |-> IF backend = "poll" /\ s \in live THEN FALSE ELSE pollref[s]]
  /\ UNCHANGED <<backend, live, fd, events, levents, revents, sock, kernel>>

Watched(s) == [mask |-> events[s], stream |-> s]

Entries == {d \in Descriptor : interest[d] # NoEntry}

(* The entry cannot be made: the descriptor is registered already, or is   *)
(* not, or poll_list is full.                                              *)
Refused(s) ==
  IF backend = "poll"
    THEN Cardinality(Entries) >= PoolSize
    ELSE \/ events[s] # {} /\ pollref[s] /\ events[s] # levents[s] /\ interest[fd[s]] = NoEntry
         \/ events[s] # {} /\ ~ pollref[s] /\ interest[fd[s]] # NoEntry
         \/ events[s] = {} /\ pollref[s] /\ interest[fd[s]] = NoEntry

(* build_epoll_list: ADD or MOD *)
Register(s) ==
  /\ backend = "epoll"
  /\ events[s] # {}
  /\ ~ pollref[s] \/ events[s] # levents[s]
  /\ ~ Refused(s)
  /\ interest' = [interest EXCEPT ![fd[s]] = Watched(s)]
  /\ levents' = [levents EXCEPT ![s] = events[s]]
  /\ pollref' = [pollref EXCEPT ![s] = TRUE]

(* build_epoll_list: DEL *)
Deregister(s) ==
  /\ backend = "epoll"
  /\ events[s] = {} /\ pollref[s]
  /\ ~ Refused(s)
  /\ interest' = [interest EXCEPT ![fd[s]] = NoEntry]
  /\ pollref' = [pollref EXCEPT ![s] = FALSE]
  /\ UNCHANGED levents

(* A mistake: events that changed since are not compared. *)
UpToDateOnce(s) ==
  /\ backend = "epoll"
  /\ (events[s] # {}) <=> pollref[s]
  /\ UNCHANGED <<interest, pollref, levents>>

(* build_epoll_list: nothing to do for the stream. *)
UpToDate(s) ==
  /\ backend = "epoll"
  /\ IF events[s] # {} THEN pollref[s] /\ events[s] = levents[s] ELSE ~ pollref[s]
  /\ UNCHANGED <<interest, pollref, levents>>

(* build_poll_list: an entry, if the stream waits for something. *)
Append(s) ==
  /\ backend = "poll"
  /\ ~ Refused(s)
  /\ IF events[s] # {}
       THEN /\ interest' = [interest EXCEPT ![fd[s]] = Watched(s)]
            /\ pollref' = [pollref EXCEPT ![s] = TRUE]
       ELSE UNCHANGED <<interest, pollref>>
  /\ UNCHANGED levents

Build ==
  /\ pc = "build"
  /\ \E s \in todo :
       /\ Register(s) \/ Deregister(s) \/ UpToDate(s) \/ Append(s)
       /\ todo' = todo \ {s}
  /\ UNCHANGED <<pc, backend, live, fd, events, revents, sock, open, ready>>

(* An entry that cannot be made, for lack of kernel memory or because the  *)
(* call is refused, ends the proxy, and so does an interrupted wait.       *)
WatchFails ==
  /\ pc = "build"
  /\ pc' = "exit"
  /\ interest' = IF backend = "poll" THEN Unwatched ELSE interest
  /\ todo' = {}
  /\ UNCHANGED <<backend, stream, sock, open, ready>>

(* What an entry reports: errors and hangups always.                       *)
Report(d) == IF interest[d] = NoEntry THEN {} ELSE ready'[d] \cap (interest[d].mask \cup {"ERR"})

(* A mistake: the reports of the last watch are not cleared. *)
WaitUncleared ==
  /\ pc = "build" /\ todo = {}
  /\ \E r \in [open -> Readiness] :
       ready' = [d \in Descriptor |-> IF d \in open THEN r[d] ELSE {}]
  /\ revents' = [s \in Slot |->
       LET own == {d \in Descriptor : Report(d) # {} /\ interest[d].stream = s}
       IN  IF own = {} THEN revents[s] ELSE UNION {Report(d) : d \in own}]
  /\ pc' = "reported"
  /\ UNCHANGED <<backend, live, fd, events, levents, pollref, todo, sock, open, interest>>

(* epoll_wait and update_revents_epoll, or poll and update_revents_poll:   *)
(* streams are found by the pointer that was registered with the           *)
(* descriptor.  Both have room for PoolSize reports.                       *)
Wait ==
  /\ pc = "build" /\ todo = {}
  /\ \E r \in [open -> Readiness] :
       ready' = [d \in Descriptor |-> IF d \in open THEN r[d] ELSE {}]
  /\ revents' = [s \in Slot |->
       LET own == {d \in Descriptor : Report(d) # {} /\ interest[d].stream = s}
       IN  IF s \in live \/ own # {} THEN UNION {Report(d) : d \in own} ELSE revents[s]]
  /\ pc' = "reported"
  /\ UNCHANGED <<backend, live, fd, events, levents, pollref, todo, sock, open, interest>>

(* watch_streams returns, and poll_list is gone. *)
Return ==
  /\ pc = "reported"
  /\ pc' = "work"
  /\ interest' = IF backend = "poll" THEN Unwatched ELSE interest
  /\ ready' = Idle
  /\ UNCHANGED <<backend, stream, todo, sock, open>>

-----------------------------------------------------------------------------
(* remove_all_streams, and the end of proxy_task *)

Drain ==
  /\ pc = "exit"
  /\ \E s \in live : RemoveStream(s)
  /\ UNCHANGED <<pc, backend, events, levents, pollref, revents, todo, sock, ready>>

End ==
  /\ pc = "exit" /\ live = {}
  /\ pc' = "done"
  /\ UNCHANGED <<backend, stream, todo, sock, kernel>>

Ended == pc = "done" /\ UNCHANGED vars

Next ==
  \/ SetEvents \/ Open \/ OpenFails \/ Reject \/ Insert \/ Remove
  \/ StartBuild \/ Build \/ WatchFails \/ Wait \/ Return
  \/ Drain \/ End \/ Ended

Spec == Init /\ [][Next]_vars

-----------------------------------------------------------------------------
(* Correctness *)

(* Every open descriptor belongs to one stream, or to the handler that has *)
(* just opened it: no error path leaks one, closes one twice, or leaves a  *)
(* stream with a descriptor that is closed or serves another stream.       *)
Owned ==
  /\ \A s \in live : fd[s] \in open
  /\ \A s, t \in live : s # t => fd[s] # fd[t]
  /\ sock # NONE => sock \in open /\ \A s \in live : fd[s] # sock
  /\ \A d \in open : d = sock \/ \E s \in live : fd[s] = d

(* When the wait begins, the kernel watches exactly the streams that wait  *)
(* for something, for just that, and will report to them.                  *)
InterestAgrees ==
  pc = "build" /\ todo = {} =>
    \A d \in Descriptor :
      interest[d] = IF \E s \in live : fd[s] = d /\ events[s] # {}
                      THEN Watched(CHOOSE s \in live : fd[s] = d)
                      ELSE NoEntry

(* epoll_ctl is never called for a descriptor in the wrong state, and      *)
(* poll_list has room for every stream: each would end the proxy.          *)
NeverRefused == pc = "build" => \A s \in todo : ~ Refused(s)

(* After a watch, each stream knows what it waits for and is there, and    *)
(* errors if it waits for anything; the others know nothing old.           *)
ReportsAreTrue ==
  pc = "reported" =>
    \A s \in live :
      revents[s] = IF events[s] = {} THEN {} ELSE ready[fd[s]] \cap (events[s] \cup {"ERR"})

(* When the proxy has ended, every descriptor was closed. *)
AllClosed == pc = "done" => open = {}

-----------------------------------------------------------------------------
(* The inductive invariant *)

(* What a stream caches is what epoll has registered for its descriptor.   *)
Cached ==
  backend = "epoll" =>
    \A s \in live :
      /\ pollref[s] => levents[s] # {}
      /\ interest[fd[s]] = IF pollref[s] THEN [mask |-> levents[s], stream |-> s] ELSE NoEntry

(* poll_list holds nothing but what this watch has put there. *)
ListIsFresh ==
  backend = "poll" =>
    IF pc \in {"build", "reported"}
      THEN \A s \in todo : interest[fd[s]] = NoEntry
      ELSE interest = Unwatched

(* Nobody else's descriptor is watched. *)
NoStranger == \A d \in Descriptor : (\A s \in live : fd[s] # d) => interest[d] = NoEntry

(* The streams that the building loop has passed are watched as they wish. *)
BuiltSoFar ==
  /\ pc \in {"build", "reported"} =>
       /\ todo \subseteq live
       /\ \A s \in live \ todo :
            interest[fd[s]] = IF events[s] = {} THEN NoEntry ELSE Watched(s)
  /\ pc = "reported" => todo = {}
  /\ pc # "work" => sock = NONE
  /\ pc = "done" => live = {}

(* Together they are inductive. *)
IInv ==
  /\ TypeOK /\ Owned /\ Cached /\ ListIsFresh /\ NoStranger /\ BuiltSoFar
  /\ ReportsAreTrue

=============================================================================
