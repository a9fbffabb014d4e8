----------------------------- MODULE ProxyLoop ------------------------------
(***************************************************************************)
(* The single-threaded event loop of AxProxy: handle_streams_cycle and the *)
(* handlers it calls for every stream of the list.                         *)
(*                                                                         *)
(* One cycle frees the abandoned streams, waits for events, then walks the *)
(* list from stream_head and lets each ready stream handle its events.     *)
(* The successor in the walk is read BEFORE the stream is handled, and a   *)
(* handler may evict a stream and give its slot to a new one: that, and    *)
(* the neighbour pointers nobody clears, is what this module is about.     *)
(*                                                                         *)
(* The kernel is the nondeterminism: which streams are ready and with what *)
(* (Watch), and whether a system call of a handler succeeds.  Bytes are    *)
(* left out: queued says whether stream->queue holds any.                  *)
(***************************************************************************)
EXTENDS StreamPool, FiniteSets

CONSTANT MaxReady   \* bound: streams that one epoll_wait reports

ASSUME MaxReadyAssumption == MaxReady \in Nat \ {0}

VARIABLES
  pc,         \* the step of handle_streams_cycle that comes next
  iter,       \* the stream the walk handles next
  live,       \* the streams of the list, exactly the allocated slots
  after,      \* the list order, see StreamPool
  role,       \* stream->role
  level,      \* stream->level
  neighbour,  \* stream->neighbour
  abandoned,  \* the slots whose stream->abandoned is set
  events,     \* stream->events
  revents,    \* stream->revents
  queued,     \* stream->queue.len > 0
  reclaimed,  \* history: force_cleanup has evicted a stream in this cycle
  overlap     \* history: some cycle has evicted two streams

list    == <<live, after>>
fields  == <<role, level, neighbour, events, revents, queued>>
history == <<reclaimed, overlap>>
vars    == <<pc, iter, list, abandoned, fields, history>>

Role  == {"INVALID", "ACCEPT", "A", "B"}
Level == {"NONE", "VER", "AUTH", "REQ", "PASS", "CONNECTING", "FORWARDING"}
Poll  == {"IN", "OUT"}

TypeOK ==
  /\ pc \in {"cleanup", "watch", "walk", "done"}
  /\ iter \in Slot \cup {NULL}
  /\ live \subseteq Slot
  /\ after \in [Slot -> SUBSET Slot]
  /\ role \in [Slot -> Role]
  /\ level \in [Slot -> Level]
  /\ neighbour \in [Slot -> Slot \cup {NULL}]
  /\ abandoned \subseteq Slot
  /\ events \in [Slot -> SUBSET Poll]
  /\ revents \in [Slot -> SUBSET (Poll \cup {"ERR"})]
  /\ queued \in [Slot -> BOOLEAN]
  /\ reclaimed \in BOOLEAN
  /\ overlap \in BOOLEAN

-----------------------------------------------------------------------------
(* proxy_task has set up the listen stream, in the first slot. *)
Init ==
  /\ pc = "cleanup"
  /\ iter = NULL
  /\ live = {1}
  /\ after = EmptyList
  /\ role = [s \in Slot |-> IF s = 1 THEN "ACCEPT" ELSE "INVALID"]
  /\ level = [s \in Slot |-> "NONE"]
  /\ neighbour = [s \in Slot |-> NULL]
  /\ abandoned = {}
  /\ events = [s \in Slot |-> IF s = 1 THEN {"IN"} ELSE {}]
  /\ revents = [s \in Slot |-> {}]
  /\ queued = [s \in Slot |-> FALSE]
  /\ reclaimed = FALSE
  /\ overlap = FALSE

-----------------------------------------------------------------------------
(* Removing streams *)

(* remove_relation: s and the slot its neighbour pointer designates, be it *)
(* still the same stream or not.                                           *)
Relation(s) == {s} \cup ({neighbour[s]} \ {NULL})

Wipe(field, gone, blank) ==
  [s \in Slot |-> IF s \in gone THEN blank ELSE field[s]]

(* remove_stream for every stream of gone.  Nothing reads the fields of a  *)
(* free slot before insert_stream clears them, so they are cleared here.   *)
RemoveStreams(gone) ==
  /\ live' = live \ gone
  /\ after' = Unlink(after, gone)
  /\ abandoned' = abandoned \ gone
  /\ role' = Wipe(role, gone, "INVALID")
  /\ level' = Wipe(level, gone, "NONE")
  /\ neighbour' = Wipe(neighbour, gone, NULL)
  /\ events' = Wipe(events, gone, {})
  /\ revents' = Wipe(revents, gone, {})
  /\ queued' = Wipe(queued, gone, FALSE)

(* A mistake in eviction: any role will do. *)
IsAnyVictim(v, excl) ==
  LET leftover == (live \cap abandoned) \ {excl}
  IN  IsOldest(after, IF leftover # {} THEN leftover ELSE live \ {excl}, v)

(* The stream force_cleanup evicts: from the tail, the first abandoned     *)
(* stream, else the first one that is not the listener; never excl.        *)
IsVictim(v, excl) ==
  LET leftover == (live \cap abandoned) \ {excl}
      ports    == {s \in live \ {excl} : role[s] \in {"A", "B"}}
  IN  IsOldest(after, IF leftover # {} THEN leftover ELSE ports, v)

(* insert_stream, with force_cleanup before a second try when the pool is  *)
(* full.  Then the evicted stream's slot is the only free one, and the new *)
(* stream n takes it.                                                      *)
InsertStream(n, excl) ==
  /\ \/ /\ IsFirstFree(live, n)
        /\ abandoned' = abandoned \ {n}
        /\ UNCHANGED history
     \/ /\ live = Slot
        /\ IsVictim(n, excl)
        /\ abandoned' = (abandoned \cup Relation(n)) \ {n}
        /\ reclaimed' = TRUE
        /\ overlap' = (overlap \/ reclaimed)
  /\ live' = live \cup {n}
  /\ after' = LinkFirst(after, live, n)

-----------------------------------------------------------------------------
(* The frame of a cycle *)

(* A mistake: streams are freed on an idle timeout only. *)
CleanupOnlyWhenIdle ==
  /\ pc = "cleanup"
  /\ pc' = "watch"
  /\ reclaimed' = FALSE
  /\ UNCHANGED <<iter, list, abandoned, fields, overlap>>

(* cleanup_streams at the start of a cycle *)
CleanupStreams ==
  /\ pc = "cleanup"
  /\ RemoveStreams(live \cap abandoned)
  /\ pc' = "watch"
  /\ reclaimed' = FALSE
  /\ UNCHANGED <<iter, overlap>>

(* watch_streams reports events: revents of every stream is overwritten,   *)
(* and the walk starts at stream_head.  A ready stream reports some of the *)
(* events it asked for, or an error, which the walk tests first; a stream  *)
(* that asks for nothing is not watched and reports nothing.               *)
Watch ==
  /\ pc = "watch"
  /\ \E ready \in SUBSET {s \in live : events[s] # {}} :
       /\ Cardinality(ready) \in 1 .. MaxReady
       /\ \E report \in [ready -> (SUBSET Poll \ {{}}) \cup {{"ERR"}}] :
            /\ \A s \in ready : report[s] \subseteq events[s] \cup {"ERR"}
            /\ revents' = [s \in Slot |-> IF s \in ready THEN report[s] ELSE {}]
  /\ \E s \in live : IsHead(after, live, s) /\ iter' = s
  /\ pc' = "walk"
  /\ UNCHANGED <<list, abandoned, role, level, neighbour, events, queued, history>>

(* The timeout of POLL_TIMEOUT_MSEC: every stream that is not forwarding   *)
(* is removed together with its neighbour (remove_pending_streams, then    *)
(* cleanup_streams).                                                       *)
Idle ==
  /\ pc = "watch"
  /\ LET pending == {s \in live : role[s] \in {"A", "B"} /\ level[s] # "FORWARDING"}
     IN  RemoveStreams(live \cap (abandoned \cup UNION {Relation(s) : s \in pending}))
  /\ pc' = "cleanup"
  /\ UNCHANGED <<iter, history>>

(* A negative status ends proxy_task: remove_all_streams. *)
Exit ==
  /\ RemoveStreams(live)
  /\ pc' = "done"
  /\ iter' = NULL
  /\ UNCHANGED history

WatchFails == pc = "watch" /\ Exit

(* The walk goes on with the successor read before the stream was handled. *)
Proceed ==
  \E t \in Slot \cup {NULL} :
    /\ IsNext(after, iter, t)
    /\ iter' = t
    /\ pc' = IF t = NULL THEN "cleanup" ELSE "walk"

(* A mistake: both streams are freed at once. *)
AbandonAtOnce(s) == RemoveStreams(Relation(s)) /\ Proceed /\ UNCHANGED history

(* remove_relation, and the walk goes on. *)
Abandon(s) ==
  /\ abandoned' = abandoned \cup Relation(s)
  /\ Proceed
  /\ UNCHANGED <<list, fields, history>>

AtStream(s) == pc = "walk" /\ iter = s

(* handle_streams_cycle passes over a stream that is abandoned or not      *)
(* ready, and abandons one that reports an error.                          *)
PassOver(s) ==
  /\ AtStream(s)
  /\ s \in abandoned \/ revents[s] = {}
  /\ Proceed
  /\ UNCHANGED <<list, abandoned, fields, history>>

StreamError(s) ==
  /\ AtStream(s)
  /\ s \notin abandoned
  /\ "ERR" \in revents[s]
  /\ Abandon(s)

(* handle_stream_events is called for s. *)
Handles(s) ==
  /\ AtStream(s)
  /\ s \notin abandoned
  /\ revents[s] # {}
  /\ "ERR" \notin revents[s]

-----------------------------------------------------------------------------
(* handle_forward_data *)

Forwarding(s) == neighbour[s] # NULL /\ level[s] = "FORWARDING"

(* s can be written: a chunk of the neighbour's input goes to s.  This     *)
(* needs the neighbour's socket; the fd of a free slot is -1.              *)
ForwardChunk(s) ==
  /\ Handles(s)
  /\ Forwarding(s)
  /\ "OUT" \in revents[s]
  /\ neighbour[s] \in live
  /\ events' = [events EXCEPT ![s] = @ \ {"OUT"}, ![neighbour[s]] = @ \cup {"IN"}]
  /\ Proceed
  /\ UNCHANGED <<list, abandoned, role, level, neighbour, revents, queued, history>>

(* s can be read: wait until its neighbour can be written. *)
AwaitWritable(s) ==
  /\ Handles(s)
  /\ Forwarding(s)
  /\ "OUT" \notin revents[s]
  /\ events' = [events EXCEPT ![s] = @ \ {"IN"}, ![neighbour[s]] = @ \cup {"OUT"}]
  /\ Proceed
  /\ UNCHANGED <<list, abandoned, role, level, neighbour, revents, queued, history>>

(* handle_forward_data failed or did not apply: handle_stream_events goes  *)
(* on.                                                                     *)
NotForwarded(s) == Handles(s) /\ (Forwarding(s) => "OUT" \in revents[s])

-----------------------------------------------------------------------------
(* Sending what is queued for a client *)

Flushes(s) == role[s] = "A" /\ queued[s] /\ "OUT" \in revents[s]

(* Two mistakes after a queue was sent: the client forwards from then on,  *)
(* and no event is asked for at any level.                                 *)
FlushThenForward(s) ==
  /\ NotForwarded(s)
  /\ Flushes(s)
  /\ queued' = [queued EXCEPT ![s] = FALSE]
  /\ events' = [events EXCEPT ![s] = {"IN"}]
  /\ level' = [level EXCEPT ![s] = IF @ = "PASS" THEN "FORWARDING" ELSE @]
  /\ Proceed
  /\ UNCHANGED <<list, abandoned, role, neighbour, revents, history>>
FlushThenDeaf(s) ==
  /\ NotForwarded(s)
  /\ Flushes(s)
  /\ queued' = [queued EXCEPT ![s] = FALSE]
  /\ events' = [events EXCEPT ![s] = {}]
  /\ Proceed
  /\ UNCHANGED <<list, abandoned, role, level, neighbour, revents, history>>

(* queue_shift sends all of the queue. *)
FlushQueue(s) ==
  /\ NotForwarded(s)
  /\ Flushes(s)
  /\ queued' = [queued EXCEPT ![s] = FALSE]
  /\ events' = [events EXCEPT ![s] = IF level[s] = "PASS" THEN {} ELSE {"IN"}]
  /\ Proceed
  /\ UNCHANGED <<list, abandoned, role, level, neighbour, revents, history>>

(* queue_shift sends a part of it. *)
FlushPart(s) ==
  /\ NotForwarded(s)
  /\ Flushes(s)
  /\ Proceed
  /\ UNCHANGED <<list, abandoned, fields, history>>

(* send fails. *)
FlushFails(s) ==
  /\ NotForwarded(s)
  /\ Flushes(s)
  /\ Abandon(s)

-----------------------------------------------------------------------------
(* handle_new_stream *)

Dispatches(s, r) == NotForwarded(s) /\ ~ Flushes(s) /\ role[s] = r

(* A mistake: the listener accepts as long as connections come in. *)
AcceptAll(s) ==
  /\ Dispatches(s, "ACCEPT")
  /\ \E n \in Slot :
       /\ InsertStream(n, NULL)
       /\ role' = [role EXCEPT ![n] = "A"]
       /\ level' = [level EXCEPT ![n] = "VER"]
       /\ neighbour' = [neighbour EXCEPT ![n] = NULL]
       /\ events' = [events EXCEPT ![n] = {"IN"}]
       /\ revents' = [revents EXCEPT ![n] = {}]
       /\ queued' = [queued EXCEPT ![n] = FALSE]
  /\ UNCHANGED <<pc, iter>>

(* A connection is accepted, if need be after an eviction. *)
Accept(s) ==
  /\ Dispatches(s, "ACCEPT")
  /\ \E n \in Slot :
       /\ InsertStream(n, NULL)
       /\ role' = [role EXCEPT ![n] = "A"]
       /\ level' = [level EXCEPT ![n] = "VER"]
       /\ neighbour' = [neighbour EXCEPT ![n] = NULL]
       /\ events' = [events EXCEPT ![n] = {"IN"}]
       /\ revents' = [revents EXCEPT ![n] = {}]
       /\ queued' = [queued EXCEPT ![n] = FALSE]
  /\ Proceed

(* accept or fcntl fails, or no slot can be had: the proxy ends. *)
AcceptFails(s) == Dispatches(s, "ACCEPT") /\ Exit

-----------------------------------------------------------------------------
(* handle_stream_socks, for a client whose bytes were received *)

Receives(s) == Dispatches(s, "A") /\ "IN" \in revents[s]

(* A reply is put in the queue and the client goes on to level l. *)
Reply(s, l) ==
  /\ level' = [level EXCEPT ![s] = l]
  /\ queued' = [queued EXCEPT ![s] = TRUE]
  /\ events' = [events EXCEPT ![s] = {"OUT"}]
  /\ Proceed
  /\ UNCHANGED <<list, abandoned, role, neighbour, revents, history>>

Greeting(s) ==
  /\ Receives(s)
  /\ level[s] = "VER"
  /\ Reply(s, "AUTH") \/ Reply(s, "REQ")

Credentials(s) ==
  /\ Receives(s)
  /\ level[s] = "AUTH"
  /\ Reply(s, "REQ")

(* check_enough_data: the request is not complete yet. *)
AwaitRequest(s) ==
  /\ Receives(s)
  /\ level[s] = "REQ"
  /\ queued' = [queued EXCEPT ![s] = TRUE]
  /\ Proceed
  /\ UNCHANGED <<list, abandoned, role, level, neighbour, events, revents, history>>

(* setup_endpoint_stream succeeds: the endpoint's stream n is inserted,    *)
(* related to s, and the client is told that its request is granted.       *)
Connect(s) ==
  /\ Receives(s)
  /\ level[s] = "REQ"
  /\ \E n \in Slot :
       /\ InsertStream(n, s)
       /\ role' = [role EXCEPT ![n] = "B"]
       /\ level' = [level EXCEPT ![n] = "CONNECTING", ![s] = "PASS"]
       /\ neighbour' = [neighbour EXCEPT ![n] = s, ![s] = n]
       /\ events' = [events EXCEPT ![n] = Poll, ![s] = {"OUT"}]
       /\ revents' = [revents EXCEPT ![n] = {}]
       /\ queued' = [queued EXCEPT ![n] = FALSE, ![s] = TRUE]
  /\ Proceed

(* socket fails, or no slot can be had for the endpoint: the proxy ends. *)
ConnectIsSevere(s) == Receives(s) /\ level[s] = "REQ" /\ Exit

(* A client that cannot be read, whose bytes are refused, or whose         *)
(* endpoint cannot be resolved or reached.                                 *)
RefuseClient(s) == Dispatches(s, "A") /\ Abandon(s)

-----------------------------------------------------------------------------
(* handle_stream_events, for an endpoint *)

Completes(s) == level[s] = "CONNECTING" /\ neighbour[s] # NULL

(* A mistake: the client does not learn that its endpoint has connected. *)
ConnectCompletedAlone(s) ==
  /\ Dispatches(s, "B")
  /\ Completes(s)
  /\ level' = [level EXCEPT ![s] = "FORWARDING"]
  /\ events' = [events EXCEPT ![s] = {"IN"}, ![neighbour[s]] = {"IN"}]
  /\ Proceed
  /\ UNCHANGED <<list, abandoned, role, neighbour, revents, queued, history>>

ConnectCompleted(s) ==
  /\ Dispatches(s, "B")
  /\ Completes(s)
  /\ level' = [level EXCEPT ![s] = "FORWARDING", ![neighbour[s]] = "FORWARDING"]
  /\ events' = [events EXCEPT ![s] = {"IN"}, ![neighbour[s]] = {"IN"}]
  /\ Proceed
  /\ UNCHANGED <<list, abandoned, role, neighbour, revents, queued, history>>

DropEndpoint(s) == Dispatches(s, "B") /\ ~ Completes(s) /\ Abandon(s)

-----------------------------------------------------------------------------
Handle(s) ==
  \/ PassOver(s) \/ StreamError(s)
  \/ ForwardChunk(s) \/ AwaitWritable(s)
  \/ FlushQueue(s) \/ FlushPart(s) \/ FlushFails(s)
  \/ Accept(s) \/ AcceptFails(s)
  \/ Greeting(s) \/ Credentials(s) \/ AwaitRequest(s)
  \/ Connect(s) \/ ConnectIsSevere(s) \/ RefuseClient(s)
  \/ ConnectCompleted(s) \/ DropEndpoint(s)

(* proxy_task has returned. *)
Ended == pc = "done" /\ UNCHANGED vars

Next ==
  \/ CleanupStreams
  \/ Watch \/ Idle \/ WatchFails
  \/ \E s \in Slot : Handle(s)
  \/ Ended

(* One thread runs the loop, and every wait in it has a timeout.  A name   *)
(* lookup is assumed to return: one that has to read a name whose pointers *)
(* lead in a circle does not, and stops the loop (see Ends in DnsClient).  *)
Spec == Init /\ [][Next]_vars /\ WF_vars(Next)

-----------------------------------------------------------------------------
(* Correctness *)

(* The list stays a strict total order of the allocated slots, although a  *)
(* slot is evicted and linked again in one step.                           *)
ListOrdered == Ordered(after, live)

(* The successor that the walk saved is still a stream of the list when it *)
(* is used, although handlers evict streams and reuse their slots.         *)
WalkIsListed == pc = "walk" => iter \in live

(* Until a second stream is evicted in one cycle, streams live and die in  *)
(* pairs: the neighbour of a stream that is not abandoned is a stream that *)
(* is not abandoned, designates it in turn, has the other role, and is     *)
(* forwarding exactly if it is.                                            *)
RelationsPaired ==
  ~ overlap =>
    \A s \in live \ abandoned : neighbour[s] # NULL =>
      LET t == neighbour[s] IN
        /\ t \in live \ abandoned
        /\ neighbour[t] = s
        /\ {role[s], role[t]} = {"A", "B"}
        /\ level[s] = "FORWARDING" <=> level[t] = "FORWARDING"

(* Until then, no relation goes deaf: of a stream that asks for no event,  *)
(* not even for its own errors, the neighbour is watched.                  *)
NoDeafRelation ==
  ~ overlap =>
    \A s \in live \ abandoned : events[s] = {} =>
      neighbour[s] # NULL /\ events[neighbour[s]] # {}

(* The listener stays the last stream of the list, so that the walk comes  *)
(* to it after every stream that could send the walk back to the head.  A  *)
(* report of its blocking socket is therefore used for one accept only.    *)
ListenerIsLast == \A s \in live : role[s] = "ACCEPT" => after[s] = {}

(* No eviction and no stale neighbour pointer ever takes the listener      *)
(* away: it goes on listening until its own socket fails or the proxy ends.*)
ListenerKept ==
  [][\A s \in live \ abandoned :
       role[s] = "ACCEPT" /\ pc' # "done" =>
         /\ s \in live' /\ role'[s] = "ACCEPT" /\ events'[s] = {"IN"}
         /\ s \in abandoned' => iter = s /\ "ERR" \in revents[s]]_vars

(* Until then, a stream starts to forward only in the step in which the    *)
(* endpoint connects, on both sides at once, and only after the client's   *)
(* request was granted.                                                    *)
ForwardingIsGranted ==
  [][~ overlap' =>
       \A s \in Slot : level[s] # "FORWARDING" /\ level'[s] = "FORWARDING" =>
         LET t == neighbour[s] IN
           {<<role[s], level[s]>>, <<role[t], level[t]>>}
             = {<<"A", "PASS">>, <<"B", "CONNECTING">>} /\ level'[t] = "FORWARDING"]_vars

(* Every walk over the list ends, although evictions can send it back to   *)
(* the head.                                                               *)
WalkEnds == pc = "walk" ~> pc # "walk"

(* Every abandoned stream is freed. *)
AbandonedAreFreed ==
  \A s \in Slot : (s \in live /\ s \in abandoned) ~> (s \notin live \/ s \notin abandoned)

-----------------------------------------------------------------------------
(* What the comments of the code say, and the code does not do             *)

(* remove_relation: "Abandon associated pair of streams".  The stream that *)
(* a stream is associated with is abandoned with it, and no other is.      *)
PairsAbandonedTogether ==
  \A s \in live \ abandoned : neighbour[s] # NULL =>
    neighbour[s] \in live \ abandoned /\ neighbour[neighbour[s]] = s

(* handle_stream_socks: "Expect socket ready to be read".  A client whose  *)
(* request was received and granted waits to be written; in the same cycle *)
(* it is not read again on the report that its request came with.          *)
GrantedNotReadAgain ==
  \A s \in live \ abandoned :
    AtStream(s) /\ role[s] = "A" /\ level[s] = "PASS" => "IN" \notin revents[s]

-----------------------------------------------------------------------------
(* The inductive invariant behind these properties *)

(* The listener stays as proxy_task set it up, and no stream ever points   *)
(* at it.                                                                  *)
ListenerApart ==
  \A s \in live : role[s] = "ACCEPT" =>
    /\ level[s] = "NONE" /\ neighbour[s] = NULL /\ events[s] = {"IN"}
    /\ after[s] = {} /\ \A t \in live : neighbour[t] # s

(* t and s are related to each other, and to no one else. *)
Mutual(s, t) == t \in live /\ neighbour[t] = s /\ neighbour[s] = t

(* What each level means to a stream that is not abandoned. *)
Stage(s) ==
  \/ role[s] = "ACCEPT" /\ neighbour[s] = NULL
  \/ /\ role[s] = "A" /\ level[s] \in {"VER", "AUTH", "REQ"}
     /\ neighbour[s] = NULL /\ events[s] # {}
  \/ /\ neighbour[s] \in live \ abandoned
     /\ LET t == neighbour[s] IN
          \/ /\ role[s] = "A" /\ level[s] = "PASS"
             /\ role[t] = "B" /\ level[t] = "CONNECTING"
          \/ /\ role[s] = "B" /\ level[s] = "CONNECTING" /\ events[s] = Poll
             /\ role[t] = "A" /\ level[t] = "PASS"
          \/ /\ role[s] \in {"A", "B"} /\ role[t] \in {"A", "B"} \ {role[s]}
             /\ level[s] = "FORWARDING" /\ level[t] = "FORWARDING"
             /\ events[s] # {} \/ events[t] # {}

(* Before the first eviction of a cycle, neighbours are mutual and share   *)
(* the abandoned flag; after it, this holds of the streams not abandoned.  *)
Paired ==
  ~ overlap =>
    /\ \A s \in live \ abandoned :
         Stage(s) /\ (neighbour[s] # NULL => Mutual(s, neighbour[s]))
    /\ ~ reclaimed =>
         \A s \in live \cap abandoned : neighbour[s] # NULL =>
           Mutual(s, neighbour[s]) /\ neighbour[s] \in abandoned

IInv ==
  /\ TypeOK
  /\ ListOrdered
  /\ WalkIsListed
  /\ pc = "watch" => live \cap abandoned = {} /\ ~ reclaimed
  /\ ListenerApart
  /\ Paired

=============================================================================
