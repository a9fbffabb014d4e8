--------------------------- MODULE SocksHandshake ---------------------------
(***************************************************************************)
(* The handshake with one client, from its first bytes to the reply that   *)
(* grants its request: handle_stream_socks, and what handle_stream_events  *)
(* does of it, with the bytes, the pieces in which they arrive, and the    *)
(* one queue that holds the input first and then the reply to it.          *)
(*                                                                         *)
(* A walk visits the client once, or more often if it is sent back to the  *)
(* head of the list (see ProxyLoop), on one report of its readiness.       *)
(*                                                                         *)
(* From the grant on, the client has an endpoint.  Its connect may be      *)
(* completed before the reply is sent, and the queue then stays behind     *)
(* while the relation forwards.  Of the endpoint, only what its handlers   *)
(* do to the client is modelled, as steps that it may take at any time;    *)
(* the bytes that pass between the two are in ForwardRelation.             *)
(***************************************************************************)
EXTENDS Integers, Sequences

CONSTANTS
  Capacity,  \* DATA_QUEUE_CAPACITY
  Script     \* what a client may send: a sequence of messages

Byte == 0 .. 255

ASSUME CapacityAssumption == Capacity \in Nat /\ Capacity >= 10
ASSUME ScriptAssumption == \A s \in Script : s \in Seq(Seq(Byte)) /\ Len(s) > 0

VARIABLES
  script,   \* what the client sends,
  polite,   \*   and whether it awaits the reply to each message
  msg, off, \* the message that is on its way, and how much of it has arrived
  inbox,    \* the bytes that have arrived and were not received yet
  told,     \* history: the bytes of the queue that were sent to the client
  level, queue, events, revents,  \* the fields of its stream
  pc,       \* the walk is at the client, or elsewhere
  status,   \* the connection: open, dropped by a handler, or lost
  granted,  \* the destination that was connected for the client
  said,     \* history: all replies
  whole,    \* history: no message was cut where the code cannot tell
  again     \* history: a walk was sent back to the client

client == <<script, polite, msg, off>>
stream == <<level, queue, events, revents>>
history == <<said, whole, again>>
vars == <<client, inbox, told, stream, pc, status, granted, history>>

Level == {"VER", "AUTH", "REQ", "PASS", "FORWARDING"}
Poll == {"IN", "OUT"}
None == <<>>

TypeOK ==
  /\ script \in Script /\ polite \in BOOLEAN
  /\ msg \in DOMAIN script /\ off \in 0 .. Len(script[msg])
  /\ inbox \in Seq(Byte) /\ told \in Seq(Byte)
  /\ level \in Level /\ queue \in Seq(Byte) /\ Len(queue) <= Capacity
  /\ events \subseteq Poll /\ revents \subseteq Poll
  /\ level # "FORWARDING" => events # Poll
  /\ pc \in {"rest", "walk"} /\ status \in {"open", "dropped", "lost"}
  /\ granted \in Seq(Byte) /\ said \in Seq(Byte)
  /\ whole \in BOOLEAN /\ again \in BOOLEAN

(* handle_new_stream has accepted the client. *)
Init ==
  /\ script \in Script /\ polite \in BOOLEAN
  /\ msg = 1 /\ off = 0 /\ inbox = <<>> /\ told = <<>>
  /\ level = "VER" /\ queue = <<>> /\ events = {"IN"} /\ revents = {}
  /\ pc = "rest" /\ status = "open" /\ granted = None
  /\ said = <<>> /\ whole = TRUE /\ again = FALSE

-----------------------------------------------------------------------------
(* The client and the network *)

Arrive(n) ==
  /\ off + n <= Len(script[msg])
  /\ off' = off + n
  /\ inbox' = inbox \o SubSeq(script[msg], off + 1, off + n)
  /\ UNCHANGED <<script, polite, msg, told, stream, pc, status, granted, history>>

(* The replies to all messages but the last are of two bytes. *)
NextMessage ==
  /\ off = Len(script[msg]) /\ msg < Len(script)
  /\ polite => Len(told) = 2 * msg
  /\ msg' = msg + 1 /\ off' = 0
  /\ UNCHANGED <<script, polite, inbox, told, stream, pc, status, granted, history>>

(* The client or its endpoint ends or resets the connection, or the client *)
(* is evicted, or removed while the whole loop was idle.                   *)
Lose ==
  /\ status = "open"
  /\ status' = "lost"
  /\ UNCHANGED <<client, inbox, told, stream, pc, granted, history>>

-----------------------------------------------------------------------------
(* The loop *)

Ready == {"OUT"} \cup (IF inbox = <<>> THEN {} ELSE {"IN"})

Watch ==
  /\ status = "open" /\ pc = "rest"
  /\ events \cap Ready # {}
  /\ revents' = events \cap Ready
  /\ pc' = "walk"
  /\ UNCHANGED <<client, inbox, told, level, queue, events, status, granted, history>>

Restart ==
  /\ status = "open" /\ pc = "rest" /\ revents # {}
  /\ pc' = "walk"
  /\ again' = TRUE
  /\ UNCHANGED <<client, inbox, told, stream, status, granted, said, whole>>

AtClient == status = "open" /\ pc = "walk" /\ pc' = "rest"
Flushes == queue # <<>> /\ "OUT" \in revents

(* A mistake: nothing is asked for after a reply. *)
FlushThenDeaf(n) ==
  /\ AtClient /\ Flushes
  /\ told' = told \o SubSeq(queue, 1, n)
  /\ queue' = SubSeq(queue, n + 1, Len(queue))
  /\ events' = IF n < Len(queue) THEN events ELSE {}
  /\ UNCHANGED <<client, inbox, level, revents, status, granted, history>>

(* queue_shift sends n bytes of the queue. *)
Flush(n) ==
  /\ AtClient /\ Flushes
  /\ told' = told \o SubSeq(queue, 1, n)
  /\ queue' = SubSeq(queue, n + 1, Len(queue))
  /\ events' = IF n < Len(queue) THEN events ELSE IF level = "PASS" THEN {} ELSE {"IN"}
  /\ UNCHANGED <<client, inbox, level, revents, status, granted, history>>

FlushFails ==
  /\ AtClient /\ Flushes
  /\ status' = "lost"
  /\ UNCHANGED <<client, inbox, told, stream, granted, history>>

-----------------------------------------------------------------------------
(* handle_stream_socks *)

Chunk == SubSeq(inbox, 1, IF Len(inbox) <= Capacity THEN Len(inbox) ELSE Capacity)
Input == queue \o Chunk

(* A piece is cut where it may not be: a single byte, or anywhere in a     *)
(* greeting or in credentials.                                             *)
Uncut == Len(Chunk) >= 2 /\ (level # "REQ" => off = Len(script[msg]) /\ Len(inbox) <= Capacity)

Drop ==
  /\ status' = "dropped"
  /\ UNCHANGED <<client, inbox, told, stream, granted, said, again>>

Handshakes == AtClient /\ level # "FORWARDING" /\ ~ Flushes

(* There is nothing to read, or less than two bytes, or too many.          *)
CannotReceive ==
  /\ Handshakes
  /\ "IN" \notin revents \/ Len(Chunk) < 2 \/ Len(Input) > Capacity
  /\ whole' = (whole /\ Uncut)
  /\ Drop

Receives(l) ==
  /\ Handshakes
  /\ "IN" \in revents /\ Len(Chunk) >= 2 /\ Len(Input) <= Capacity
  /\ level = l
  /\ whole' = (whole /\ Uncut)

Received == inbox' = SubSeq(inbox, Len(Chunk) + 1, Len(inbox))

(* A mistake: the reply is put behind the input. *)
ReplyAppended(r, l) ==
  /\ Received
  /\ queue' = Input \o r /\ said' = said \o r
  /\ level' = l /\ events' = {"OUT"}
  /\ UNCHANGED <<client, told, revents, status, again>>

(* queue_set: the reply takes the place of the input. *)
Reply(r, l) ==
  /\ Received
  /\ queue' = r /\ said' = said \o r
  /\ level' = l /\ events' = {"OUT"}
  /\ UNCHANGED <<client, told, revents, status, again>>

(* The client offers one method, of user name and password. *)
OffersPassword(g) == Len(g) > 2 /\ g[2] = 1 /\ g[3] = 2

Greeting ==
  /\ Receives("VER")
  /\ \/ Input[1] # 5 /\ Drop
     \/ /\ Input[1] = 5
        /\ IF OffersPassword(Input) THEN Reply(<<5, 2>>, "AUTH") ELSE Reply(<<5, 0>>, "REQ")
        /\ UNCHANGED granted

(* A mistake: credentials are expected to be of version 5, too. *)
CredentialsOfVersion5 ==
  /\ Receives("AUTH")
  /\ \/ Input[1] # 5 /\ Drop
     \/ Input[1] = 5 /\ Reply(<<5, 0>>, "REQ") /\ UNCHANGED granted

Credentials ==
  /\ Receives("AUTH")
  /\ Reply(<<5, 0>>, "REQ")
  /\ UNCHANGED granted

(* A mistake: the second byte of the port is not awaited. *)
NeededShort(q) ==
  IF Len(q) < 4 THEN 4
  ELSE IF q[4] = 1 THEN 9
  ELSE IF q[4] # 3 THEN 21
  ELSE IF Len(q) < 5 THEN 5 ELSE q[5] + 6

(* check_enough_data: the bytes a request needs, as far as is known.       *)
Needed(q) ==
  IF Len(q) < 4 THEN 4
  ELSE IF q[4] = 1 THEN 10
  ELSE IF q[4] # 3 THEN 22
  ELSE IF Len(q) < 5 THEN 5 ELSE q[5] + 7

IsRequest(q) == q[1] = 5 /\ q[2] = 1 /\ q[3] = 0 /\ q[4] \in {1, 3, 4}

(* The zero bytes in the name of a request, the first of which ends it.    *)
Nul(q) == {i \in 1 .. q[5] : q[5 + i] = 0}
FirstNul(q) == CHOOSE i \in Nul(q) : \A j \in Nul(q) : i <= j
NameIsCut(q) == q[4] = 3 /\ Nul(q) # {}

Destination(q) ==
  IF NameIsCut(q)
    THEN <<3, FirstNul(q) - 1>> \o SubSeq(q, 6, 4 + FirstNul(q)) \o SubSeq(q, 6 + q[5], Needed(q))
    ELSE SubSeq(q, 4, Needed(q))

AwaitRequest ==
  /\ Receives("REQ")
  /\ Len(Input) < Needed(Input) /\ (Len(Input) >= 4 => IsRequest(Input))
  /\ Received
  /\ queue' = Input
  /\ UNCHANGED <<client, told, level, events, revents, status, granted, said, again>>

RefuseRequest ==
  /\ Receives("REQ")
  /\ Len(Input) >= 4 /\ ~ IsRequest(Input)
  /\ Drop

Complete == Len(Input) >= Needed(Input) /\ IsRequest(Input)

(* The name is resolved, and the endpoint's stream set up. *)
Grant ==
  /\ Receives("REQ") /\ Complete
  /\ granted' = Destination(Input)
  /\ Reply(<<5, 0, 0, 1, 0, 0, 0, 0, 0, 0>>, "PASS")

(* The name is not resolved, or there is no socket or slot for it. *)
NoEndpoint ==
  /\ Receives("REQ") /\ Complete
  /\ status' = "lost"
  /\ UNCHANGED <<client, inbox, told, stream, granted, said, again>>

(* No input is expected any more. *)
Unexpected == Receives("PASS") /\ Drop

-----------------------------------------------------------------------------
(* The endpoint, and the client while its relation forwards *)

(* The endpoint's connect is completed, whatever is left of the reply.     *)
Completed ==
  /\ status = "open" /\ level = "PASS"
  /\ level' = "FORWARDING" /\ events' = {"IN"}
  /\ UNCHANGED <<client, inbox, told, queue, revents, pc, status, granted, history>>

Forwarding == status = "open" /\ level = "FORWARDING"

(* The endpoint is readable. *)
EndpointReadable ==
  /\ Forwarding
  /\ events' = events \cup {"OUT"}
  /\ UNCHANGED <<client, inbox, told, level, queue, revents, pc, status, granted, history>>

(* The endpoint is writable, and is given n bytes of the client. *)
EndpointTakes(n) ==
  /\ Forwarding
  /\ inbox' = SubSeq(inbox, n + 1, Len(inbox))
  /\ events' = events \cup {"IN"}
  /\ UNCHANGED <<client, told, level, queue, revents, pc, status, granted, history>>

(* The client is given bytes of the endpoint; the queue is not looked at.  *)
ForwardToClient ==
  /\ AtClient /\ level = "FORWARDING" /\ "OUT" \in revents
  /\ events' = events \ {"OUT"}
  /\ UNCHANGED <<client, inbox, told, level, queue, revents, status, granted, history>>

(* The client is readable: wait until the endpoint is writable. *)
AwaitEndpoint ==
  /\ AtClient /\ level = "FORWARDING" /\ "OUT" \notin revents
  /\ events' = events \ {"IN"}
  /\ UNCHANGED <<client, inbox, told, level, queue, revents, status, granted, history>>

(* There is nothing to forward, nor in the queue. *)
NothingToForward ==
  /\ AtClient /\ level = "FORWARDING" /\ "OUT" \in revents /\ ~ Flushes
  /\ status' = "lost"
  /\ UNCHANGED <<client, inbox, told, stream, granted, history>>

-----------------------------------------------------------------------------
Over == status # "open" /\ UNCHANGED vars

Sends == status = "open" /\ (NextMessage \/ \E n \in 1 .. Len(script[msg]) : Arrive(n))

Visit ==
  \/ \E n \in 1 .. Len(queue) : Flush(n)
  \/ FlushFails \/ CannotReceive
  \/ Greeting \/ Credentials
  \/ AwaitRequest \/ RefuseRequest \/ Grant \/ NoEndpoint
  \/ Unexpected
  \/ ForwardToClient \/ AwaitEndpoint \/ NothingToForward

Endpoint ==
  Completed \/ EndpointReadable \/ \E n \in 1 .. Len(inbox) : EndpointTakes(n)

Next == Sends \/ Lose \/ Watch \/ Restart \/ Visit \/ Endpoint \/ Over

Spec == Init /\ [][Next]_vars

(* The client goes on to send, and the loop to watch and to visit: a walk  *)
(* is not sent back for ever, and no name lookup lasts for ever, of this   *)
(* client or of another (see Ends in DnsClient).  Nothing is asked of the  *)
(* endpoint.                                                               *)
FairSpec == Spec /\ WF_vars(Sends) /\ SF_vars(Watch) /\ WF_vars(Visit)

-----------------------------------------------------------------------------
(* Correctness *)

AddressLength(r) ==
  CASE r[4] = 1 -> 4
    [] r[4] = 3 -> 1 + r[5]
    [] r[4] = 4 -> 16

(* A client that keeps to the protocol: a greeting, credentials if that is *)
(* all that it offers, and a request, each of which the queue can hold.    *)
Conforms(s) ==
  /\ Len(s) = IF OffersPassword(s[1]) THEN 3 ELSE 2
  /\ \A i \in DOMAIN s : Len(s[i]) \in 2 .. Capacity
  /\ s[1][1] = 5
  /\ LET r == s[Len(s)]
     IN  Len(r) >= 5 /\ IsRequest(r) /\ Len(r) = 4 + AddressLength(r) + 2

(* Nothing went on that the code does not cope with. *)
Orderly == Conforms(script) /\ polite /\ whole /\ ~ again

(* Through partial sends and input of any shape, the client is sent the    *)
(* replies one after the other, and nothing of its own input, which shares *)
(* the queue with them.                                                    *)
HoldsReply == events = {"OUT"} \/ level \in {"PASS", "FORWARDING"}
RepliesKept ==
  ~ again => told \o (IF HoldsReply THEN queue ELSE <<>>) = said

(* The destination that is connected is the one the client asked for,      *)
(* however its request was cut; but a name with a zero byte in it is cut   *)
(* off there.                                                              *)
GrantsWhatWasAsked ==
  LET r == script[Len(script)]
  IN  Orderly /\ granted # None /\ ~ NameIsCut(r) => granted = SubSeq(r, 4, Len(r))

(* Such a client is never dropped but for a cause outside the handshake.   *)
DroppedForCause == Orderly => status # "dropped"

(* The relation forwards, and what is left of the reply is not about to be *)
(* sent on a report that was made before.  It stays in the queue until the *)
(* endpoint is readable with nothing to forward, if that ever happens.     *)
LeftBehind ==
  level = "FORWARDING" /\ queue # <<>> /\ ~ (pc = "walk" /\ "OUT" \in revents)

(* A client that awaits its replies is told an outcome, the last reply or  *)
(* the end of the connection, unless its relation came to forward before   *)
(* the last reply was sent, and left the reply behind.                     *)
Served ==
  Conforms(script) /\ polite =>
    <>((level \in {"PASS", "FORWARDING"} /\ queue = <<>>) \/ status # "open" \/ LeftBehind)

-----------------------------------------------------------------------------
(* The inductive invariant *)

(* The client is visited on what it was just reported ready for. *)
Fresh ==
  status = "open" /\ ~ again /\ pc = "walk" /\ level # "FORWARDING" =>
    revents = events /\ events # {}

Answered ==
  CASE level = "VER" -> 0
    [] level = "AUTH" -> 1
    [] level = "REQ" -> Len(script) - 1
    [] level = "PASS" -> Len(script)

(* Client and proxy take turns: while a reply is sent, all that the client *)
(* has sent is answered; then its next message arrives, and nothing else   *)
(* is in the queue and on the way.                                         *)
Replying ==
  /\ level # "VER" /\ msg = Answered /\ off = Len(script[msg]) /\ inbox = <<>>
  /\ queue # <<>>
  /\ level # "PASS" => Len(told) + Len(queue) = 2 * msg

Listening ==
  /\ level # "PASS" /\ Len(told) = 2 * Answered
  /\ \/ msg = Answered /\ off = Len(script[msg]) /\ queue = <<>> /\ inbox = <<>>
     \/ msg = Answered + 1 /\ queue \o inbox = SubSeq(script[msg], 1, off)
  /\ level # "REQ" => queue = <<>>

Turn ==
  /\ level = "AUTH" => Len(script) = 3
  /\ events = {"OUT"} => Replying
  /\ events = {"IN"} => Listening
  /\ events = {} => level = "PASS" /\ msg = Len(script)

TakesTurns == Orderly /\ status = "open" /\ level # "FORWARDING" => Turn

IInv ==
  TypeOK /\ Fresh /\ TakesTurns /\ RepliesKept /\ GrantsWhatWasAsked /\ DroppedForCause

-----------------------------------------------------------------------------
(* What is said of the program, and the code does not do *)

(* check_enough_data: "awaiting more bytes".  A client is not dropped for  *)
(* the pieces in which the bytes of its messages arrive.                   *)
PiecesAwaited ==
  Conforms(script) /\ polite /\ ~ again => status # "dropped"

=============================================================================
