---------------------------- MODULE ForwardRelation ----------------------------
(***************************************************************************)
(* One relation: a client A and its endpoint B, from the moment a request  *)
(* is granted until the relation ends, with the bytes that pass through.   *)
(*                                                                         *)
(* The loop keeps no byte of its own but the reply to the request, which   *)
(* waits in the client's queue: a chunk is copied from the receive buffer  *)
(* of one socket to the send buffer of the other, when a handler knows the *)
(* first to be readable and the second writable.  It learns the two one    *)
(* after the other, by moving a request for an event from one to the other.*)
(*                                                                         *)
(* B was linked after A, at the head of the list, so that every walk comes *)
(* to B first.  Other streams are left out, but for two things they do: a  *)
(* walk may be sent back to the head, and the relation may be evicted.     *)
(***************************************************************************)
EXTENDS Naturals, Sequences

CONSTANTS
  Capacity,   \* SO_SNDBUF: bytes that a send buffer holds
  ReplyLen,   \* bytes of the reply to a request, 10 in the code
  MaxBytes    \* bound: bytes that each peer sends

ASSUME SizesAssumption ==
  Capacity \in Nat \ {0} /\ ReplyLen \in Nat \ {0} /\ MaxBytes \in Nat

Side == {"A", "B"}
Other(s) == IF s = "A" THEN "B" ELSE "A"
Poll == {"IN", "OUT"}

VARIABLES
  pc,       \* the stream that the walk comes to, or "rest": the other streams
  ended,    \* "no", or history: why the relation was abandoned or freed
  again,    \* history: a walk was sent back to the head
  level, events, revents,   \* fields of the two streams
  queue,    \* bytes of the reply that A's queue holds
  peer,     \* what is known at each socket of its peer
  inbuf,    \* the receive buffers; bytes are numbered as they were sent
  sent,     \* how many bytes each peer has sent
  got,      \* the bytes handed to each socket by socket_forward_data
  pending   \* TIOCOUTQ: bytes in each send buffer

streams == <<level, events, revents, queue>>
sockets == <<peer, inbuf, sent, got, pending>>
vars    == <<pc, ended, again, streams, sockets>>

TypeOK ==
  /\ pc \in {"A", "B", "rest"}
  /\ ended \in {"no", "lost", "failed", "idle", "evicted"}
  /\ again \in BOOLEAN
  /\ level \in [Side -> {"PASS", "CONNECTING", "FORWARDING"}]
  /\ events \in [Side -> SUBSET Poll]
  /\ revents \in [Side -> SUBSET (Poll \cup {"ERR"})]
  /\ queue \in 0 .. ReplyLen
  /\ peer \in [Side -> {"connecting", "open", "shut", "reset"}]
  /\ inbuf \in [Side -> Seq(Nat)]
  /\ sent \in [Side -> 0 .. MaxBytes]
  /\ got \in [Side -> Seq(Nat)]
  /\ pending \in [Side -> 0 .. Capacity]

-----------------------------------------------------------------------------
(* setup_endpoint_stream was called for A, and the reply is enqueued.  The *)
(* client may have sent bytes already.                                     *)
Init ==
  /\ pc = "rest" /\ ended = "no" /\ again = FALSE
  /\ level = [s \in Side |-> IF s = "A" THEN "PASS" ELSE "CONNECTING"]
  /\ events = [s \in Side |-> IF s = "A" THEN {"OUT"} ELSE Poll]
  /\ revents = [s \in Side |-> IF s = "A" THEN {"IN"} ELSE {}]
  /\ queue = ReplyLen
  /\ peer = [s \in Side |-> IF s = "A" THEN "open" ELSE "connecting"]
  /\ inbuf = [s \in Side |-> <<>>]
  /\ sent = [s \in Side |-> 0]
  /\ got = [s \in Side |-> <<>>]
  /\ pending = [s \in Side |-> 0]

-----------------------------------------------------------------------------
(* The peers and the network *)

On == ended = "no"

Loop == <<pc, ended, again, streams>>

(* The connection to the endpoint is made, or refused. *)
Connected ==
  /\ On /\ peer["B"] = "connecting"
  /\ \E p \in {"open", "reset"} : peer' = [peer EXCEPT !["B"] = p]
  /\ UNCHANGED <<Loop, inbuf, sent, got, pending>>

PeerSends(s) ==
  /\ On /\ peer[s] = "open" /\ sent[s] < MaxBytes
  /\ sent' = [sent EXCEPT ![s] = @ + 1]
  /\ inbuf' = [inbuf EXCEPT ![s] = Append(@, sent[s] + 1)]
  /\ UNCHANGED <<Loop, peer, got, pending>>

(* End of file, or an error, behind the bytes that were received. *)
PeerEnds(s) ==
  /\ On /\ peer[s] \in {"open", "shut"}
  /\ \E p \in {"shut", "reset"} : p # peer[s] /\ peer' = [peer EXCEPT ![s] = p]
  /\ UNCHANGED <<Loop, inbuf, sent, got, pending>>

(* Bytes leave the send buffer. *)
Drain(s) ==
  /\ On /\ pending[s] > 0
  /\ \E n \in 0 .. pending[s] - 1 : pending' = [pending EXCEPT ![s] = n]
  /\ UNCHANGED <<Loop, peer, inbuf, sent, got>>

-----------------------------------------------------------------------------
(* handle_streams_cycle *)

Room(s) == Capacity - pending[s]

(* The state of a socket, as epoll and poll report it. *)
Ready(s) ==
  {e \in Poll \cup {"ERR"} :
     \/ e = "IN"  /\ (inbuf[s] # <<>> \/ peer[s] \in {"shut", "reset"})
     \/ e = "OUT" /\ peer[s] # "connecting" /\ Room(s) > 0
     \/ e = "ERR" /\ peer[s] = "reset"}

(* What is reported to a stream: nothing if it waits for nothing.          *)
Reports(s) == IF events[s] = {} THEN {} ELSE Ready(s) \cap (events[s] \cup {"ERR"})

Watch ==
  /\ On /\ pc = "rest"
  /\ pc' = "B"
  /\ revents' = [s \in Side |-> Reports(s)]
  /\ UNCHANGED <<ended, again, level, events, queue, sockets>>

(* The wait has timed out: remove_pending_streams. *)
Idle ==
  /\ On /\ pc = "rest"
  /\ \A s \in Side : Reports(s) = {}
  /\ \E s \in Side : level[s] # "FORWARDING"
  /\ ended' = "idle"
  /\ UNCHANGED <<pc, again, streams, sockets>>

(* Elsewhere in the walk, the saved successor was evicted and its slot     *)
(* linked at the head: the walk comes to B and A once more.                *)
Restart ==
  /\ On /\ pc \in {"A", "rest"}
  /\ pc' = "B"
  /\ again' = TRUE
  /\ UNCHANGED <<ended, streams, sockets>>

(* force_cleanup for another stream, or the end of the proxy. *)
Evicted ==
  /\ On
  /\ ended' = "evicted"
  /\ UNCHANGED <<pc, again, streams, sockets>>

Proceed == pc' = (IF pc = "B" THEN "A" ELSE "rest") /\ UNCHANGED again

(* remove_relation *)
Abandon(why) ==
  /\ ended' = why
  /\ Proceed
  /\ UNCHANGED <<streams, sockets>>

PassOver(s) ==
  /\ On /\ pc = s
  /\ revents[s] = {}
  /\ Proceed
  /\ UNCHANGED <<ended, streams, sockets>>

StreamError(s) ==
  /\ On /\ pc = s
  /\ "ERR" \in revents[s]
  /\ Abandon("failed")

(* handle_stream_events is called for s. *)
Handles(s) == On /\ pc = s /\ revents[s] # {} /\ "ERR" \notin revents[s]

-----------------------------------------------------------------------------
(* handle_forward_data *)

(* socket_forward_data finds bytes at the neighbour, and room for them. *)
CanForward(s) == inbuf[Other(s)] # <<>> /\ Room(s) > 0

ForwardsTo(s) == Handles(s) /\ level[s] = "FORWARDING" /\ "OUT" \in revents[s]

(* n bytes are peeked at the neighbour, the first k of them are sent to s, *)
(* and skip of them are then removed from the neighbour's buffer.          *)
Transfer(s, k, skip) ==
  LET o == Other(s) IN
    /\ got' = [got EXCEPT ![s] = @ \o SubSeq(inbuf[o], 1, k)]
    /\ pending' = [pending EXCEPT ![s] = @ + k]
    /\ inbuf' = [inbuf EXCEPT ![o] = SubSeq(@, skip + 1, Len(@))]
    /\ UNCHANGED <<peer, sent>>

(* A mistake: all that was peeked is removed, although send took less. *)
ForwardSkipsPeeked(s) ==
  /\ ForwardsTo(s) /\ CanForward(s)
  /\ peer[s] # "reset"
  /\ \E n \in 1 .. Len(inbuf[Other(s)]) : n <= Room(s) /\ \E k \in 1 .. n : Transfer(s, k, n)
  /\ events' = [events EXCEPT ![s] = @ \ {"OUT"}, ![Other(s)] = @ \cup {"IN"}]
  /\ Proceed
  /\ UNCHANGED <<ended, level, revents, queue>>

(* A mistake: the neighbour is not asked for more. *)
ForwardOnce(s) ==
  /\ ForwardsTo(s) /\ CanForward(s)
  /\ peer[s] # "reset"
  /\ \E k \in 1 .. Len(inbuf[Other(s)]) : k <= Room(s) /\ Transfer(s, k, k)
  /\ events' = [events EXCEPT ![s] = @ \ {"OUT"}]
  /\ Proceed
  /\ UNCHANGED <<ended, level, revents, queue>>

(* A chunk is forwarded to s; send may take less than it was given. *)
ForwardChunk(s) ==
  /\ ForwardsTo(s) /\ CanForward(s)
  /\ peer[s] # "reset"
  /\ \E k \in 1 .. Len(inbuf[Other(s)]) : k <= Room(s) /\ Transfer(s, k, k)
  /\ events' = [events EXCEPT ![s] = @ \ {"OUT"}, ![Other(s)] = @ \cup {"IN"}]
  /\ Proceed
  /\ UNCHANGED <<ended, level, revents, queue>>

(* A mistake: the neighbour is not asked whether it is writable. *)
AwaitNothing(s) ==
  /\ Handles(s)
  /\ level[s] = "FORWARDING" /\ "OUT" \notin revents[s]
  /\ events' = [events EXCEPT ![s] = @ \ {"IN"}]
  /\ Proceed
  /\ UNCHANGED <<ended, level, revents, queue, sockets>>

(* s is readable: wait until its neighbour is writable. *)
AwaitWritable(s) ==
  /\ Handles(s)
  /\ level[s] = "FORWARDING" /\ "OUT" \notin revents[s]
  /\ events' = [events EXCEPT ![s] = @ \ {"IN"}, ![Other(s)] = @ \cup {"OUT"}]
  /\ Proceed
  /\ UNCHANGED <<ended, level, revents, queue, sockets>>

(* A call of socket_forward_data has failed although bytes and room were   *)
(* there: the socket refuses them, and refuses the queue a moment later.   *)
ForwardFails(s) == ForwardsTo(s) /\ CanForward(s) /\ Abandon("failed")

(* handle_forward_data did not apply, or found nothing to forward: the     *)
(* "lost connection on socket" of socket_forward_data.                     *)
NotForwarded(s) ==
  Handles(s) /\ (level[s] = "FORWARDING" => "OUT" \in revents[s] /\ ~ CanForward(s))

-----------------------------------------------------------------------------
(* The rest of handle_stream_events *)

Flushes(s) == NotForwarded(s) /\ s = "A" /\ queue > 0 /\ "OUT" \in revents[s]

(* queue_shift sends all of the queue, or a part. *)
Flush(s) ==
  /\ Flushes(s)
  /\ \E k \in 1 .. queue :
       /\ k <= Room(s)
       /\ queue' = queue - k
       /\ pending' = [pending EXCEPT ![s] = @ + k]
  /\ events' = IF queue' > 0 THEN events
               ELSE [events EXCEPT ![s] = IF level[s] = "PASS" THEN {} ELSE {"IN"}]
  /\ Proceed
  /\ UNCHANGED <<ended, level, revents, peer, inbuf, sent, got>>

FlushFails(s) == Flushes(s) /\ Abandon("failed")

Completes(s) == s = "B" /\ level[s] = "CONNECTING"

(* Two mistakes: the endpoint goes on waiting to be writable, and the      *)
(* client is not watched for input.                                        *)
CompletedStillWaiting(s) ==
  /\ NotForwarded(s) /\ Completes(s)
  /\ level' = [t \in Side |-> "FORWARDING"]
  /\ events' = [events EXCEPT !["A"] = {"IN"}]
  /\ Proceed
  /\ UNCHANGED <<ended, revents, queue, sockets>>
CompletedDeaf(s) ==
  /\ NotForwarded(s) /\ Completes(s)
  /\ level' = [t \in Side |-> "FORWARDING"]
  /\ events' = [events EXCEPT !["B"] = {"IN"}]
  /\ Proceed
  /\ UNCHANGED <<ended, revents, queue, sockets>>

(* The connection is made: both sides wait for input. *)
ConnectCompleted(s) ==
  /\ NotForwarded(s) /\ Completes(s)
  /\ level' = [t \in Side |-> "FORWARDING"]
  /\ events' = [t \in Side |-> {"IN"}]
  /\ Proceed
  /\ UNCHANGED <<ended, revents, queue, sockets>>

(* The endpoint has nothing else to do, and the client no request to make: *)
(* handle_stream_socks has no case for its level.                          *)
Lost(s) == NotForwarded(s) /\ ~ Flushes(s) /\ ~ Completes(s) /\ Abandon("lost")

-----------------------------------------------------------------------------
Handle(s) ==
  \/ PassOver(s) \/ StreamError(s)
  \/ ForwardChunk(s) \/ AwaitWritable(s) \/ ForwardFails(s)
  \/ Flush(s) \/ FlushFails(s) \/ ConnectCompleted(s) \/ Lost(s)

Over == ~ On /\ UNCHANGED vars

Next ==
  \/ Connected
  \/ \E s \in Side : PeerSends(s) \/ PeerEnds(s) \/ Drain(s)
  \/ Watch \/ Idle \/ Restart \/ Evicted
  \/ \E s \in Side : Handle(s)
  \/ Over

Spec == Init /\ [][Next]_vars

(* The loop goes on, and a walk is not sent back for ever (see WalkEnds in *)
(* ProxyLoop): it comes past A, and to the next watch, provided that the   *)
(* name lookups of other clients return (see Ends in DnsClient).  A        *)
(* connect ends one way or the other, and the peers read what they are     *)
(* sent.                                                                   *)
Fairness ==
  /\ SF_vars(Watch)
  /\ \A s \in Side : SF_vars(Handle(s)) /\ WF_vars(Drain(s))
  /\ WF_vars(Connected)

FairSpec == Spec /\ Fairness

-----------------------------------------------------------------------------
(* Correctness *)

(* The bytes that one peer was given, and those that still wait for it,    *)
(* are the bytes the other has sent: each once, in order, whatever part of *)
(* a chunk send accepts.                                                   *)
BytesKept ==
  \A s \in Side : got[Other(s)] \o inbuf[s] = [i \in 1 .. sent[s] |-> i]

(* A peer has ended, and all its bytes were passed on. *)
Cause == \E s \in Side : peer[s] \in {"shut", "reset"} /\ inbuf[s] = <<>>

(* If no call has failed and no walk was sent back, then a relation that   *)
(* the loop ended had a peer that had ended, all of whose bytes were       *)
(* passed on: readiness that was learnt at different times is never        *)
(* mistaken for the loss of a connection.                                  *)
EndsForCause == ended = "lost" /\ ~ again => Cause

(* Bytes that wait are passed on, unless the relation ends. *)
BytesArrive == \A s \in Side : inbuf[s] # <<>> ~> inbuf[s] = <<>> \/ ~ On

(* When the client has ended its side, the relation ends, once its bytes   *)
(* are passed on.                                                          *)
ClientEndNoticed == peer["A"] \in {"shut", "reset"} ~> ~ On

(* So it does when the endpoint has ended its side, provided that the      *)
(* reply was flushed before the relation came to forward.  A reply that is *)
(* flushed later drops the "OUT" that stood for the endpoint, which waits  *)
(* for nothing then.                                                       *)
EndpointEndNoticed ==
  [](level["A"] = "FORWARDING" => queue = 0) =>
    (peer["B"] \in {"shut", "reset"} ~> ~ On)

-----------------------------------------------------------------------------
(* The inductive invariant *)

Forwarding == \A s \in Side : level[s] = "FORWARDING"

(* Until the connection is made, the endpoint waits for it and the client  *)
(* for the rest of its reply.                                              *)
Connecting ==
  /\ level = [s \in Side |-> IF s = "A" THEN "PASS" ELSE "CONNECTING"]
  /\ events = [s \in Side |-> IF s = "B" THEN Poll
                              ELSE IF queue > 0 THEN {"OUT"} ELSE {}]

(* A stream waits to be writable only for bytes that are there, and then   *)
(* the other one does not wait to be readable.                             *)
HandedOver ==
  \A s \in Side : "OUT" \in events[s] =>
    "IN" \notin events[Other(s)] /\ inbuf[Other(s)] # <<>>

ToCome(s) == pc = s \/ (pc = "B" /\ s = "A")

(* What is reported to a stream that the walk has yet to come to still     *)
(* holds when it comes there.                                              *)
ReportsHold ==
  \A s \in Side : ToCome(s) =>
    /\ "OUT" \in revents[s] => Room(s) > 0
    /\ ~ Forwarding /\ s = "A" => revents[s] \subseteq {"OUT", "ERR"}
    /\ ~ Forwarding /\ s = "A" /\ "OUT" \in revents[s] => queue > 0
    /\ Forwarding /\ "IN" \in revents[s] =>
         inbuf[s] # <<>> /\ (ToCome(Other(s)) => "OUT" \notin revents[Other(s)])
    /\ Forwarding /\ "OUT" \in revents[s] =>
         \/ inbuf[Other(s)] # <<>>
         \/ s = "A" /\ queue > 0 /\ "OUT" \notin events["B"]

Undisturbed == On /\ ~ again /\ ~ Cause

IInv ==
  /\ TypeOK
  /\ BytesKept
  /\ EndsForCause
  /\ Undisturbed => (Connecting \/ (Forwarding /\ HandedOver)) /\ ReportsHold

-----------------------------------------------------------------------------
(* What is said of the program, and the code does not do *)

(* Readme: "A portable SOCKS-5 Server"; handle_stream_socks: "Prepare      *)
(* response", "Enqueue response".  The response to a request comes before  *)
(* any byte of the endpoint.                                               *)
ReplyFirst == got["A"] # <<>> => queue = 0

=============================================================================
