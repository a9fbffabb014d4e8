------------------------ MODULE SocksHandshakeProofs ------------------------
(***************************************************************************)
(* What holds of a handshake for any queue, any client, and any pieces in  *)
(* which its messages arrive.                                              *)
(***************************************************************************)
EXTENDS SocksHandshake, WellFoundedInduction, SequenceTheorems, TLAPS

LEMMA Messages ==
  ASSUME TypeOK
  PROVE  /\ script \in Seq(Seq(Byte)) /\ Len(script) \in Nat \ {0}
         /\ msg \in 1 .. Len(script) /\ off \in Nat
         /\ script[msg] \in Seq(Byte) /\ Len(script[msg]) \in Nat
BY ScriptAssumption DEF TypeOK

(* What is received and what stays in the socket. *)
LEMMA Pieces ==
  ASSUME TypeOK
  PROVE  /\ Chunk \in Seq(Byte) /\ Input \in Seq(Byte)
         /\ Len(Chunk) <= Len(inbox) /\ Len(Input) = Len(queue) + Len(Chunk)
         /\ SubSeq(inbox, Len(Chunk) + 1, Len(inbox)) \in Seq(Byte)
         /\ Len(inbox) <= Capacity =>
              Chunk = inbox /\ SubSeq(inbox, Len(Chunk) + 1, Len(inbox)) = <<>>
<1>1. inbox \in Seq(Byte) /\ Len(inbox) \in Nat /\ queue \in Seq(Byte)
  BY DEF TypeOK
<1> DEFINE n == IF Len(inbox) <= Capacity THEN Len(inbox) ELSE Capacity
<1>2. n \in 0 .. Len(inbox)
  BY <1>1, CapacityAssumption
<1>3. Chunk = SubSeq(inbox, 1, n)
  BY DEF Chunk
<1> HIDE DEF n
<1>4. Chunk \in Seq(Byte) /\ Len(Chunk) = n
  BY <1>1, <1>2, <1>3
<1>5. SubSeq(inbox, Len(Chunk) + 1, Len(inbox)) \in Seq(Byte)
  BY <1>1, <1>2, <1>4
<1>6. ASSUME Len(inbox) <= Capacity
      PROVE  Chunk = inbox /\ SubSeq(inbox, Len(Chunk) + 1, Len(inbox)) = <<>>
  <2>1. n = Len(inbox)
    BY <1>6 DEF n
  <2>2. Chunk = inbox
    BY <1>1, <1>3, <2>1, SubSeqFull
  <2>3. SubSeq(inbox, Len(Chunk) + 1, Len(inbox)) = <<>>
    BY <1>1, <2>2
  <2> QED
    BY <2>2, <2>3
<1> QED
  BY <1>1, <1>2, <1>4, <1>5, <1>6 DEF Input

LEMMA LeastNumber ==
  ASSUME NEW S \in SUBSET Nat, S # {}
  PROVE  \E m \in S : \A n \in S : m <= n
<1>1. PICK m \in S : \A n \in S : ~ (<<n, m>> \in OpToRel(<, Nat))
  BY NatLessThanWellFounded, WFMin
<1>2. ASSUME NEW n \in S PROVE m <= n
  <2>1. ~ (<<n, m>> \in OpToRel(<, Nat))
    BY <1>1
  <2>2. ~ (n < m)
    BY <2>1 DEF OpToRel
  <2> QED
    BY <2>2
<1> QED
  BY <1>2

(* What is read of a request is there, and is made of its bytes. *)
LEMMA NeededTyped ==
  ASSUME NEW q \in Seq(Byte), Len(q) >= Needed(q)
  PROVE  Needed(q) \in 4 .. Len(q) /\ Destination(q) \in Seq(Byte)
<1>1. Len(q) \in Nat /\ \A i \in 1 .. Len(q) : q[i] \in Nat
  <2>1. \A i \in 1 .. Len(q) : q[i] \in Byte
    OBVIOUS
  <2>2. \A b \in Byte : b \in Nat
    BY DEF Byte
  <2> QED
    BY <2>1, <2>2
<1>2. Needed(q) \in 4 .. Len(q)
  <2>1. Len(q) >= 4
    BY <1>1 DEF Needed
  <2>2. CASE q[4] = 3
    <3>1. Len(q) >= 5
      BY <1>1, <2>1, <2>2 DEF Needed
    <3>2. Needed(q) = q[5] + 7 /\ q[5] \in Nat
      BY <1>1, <2>1, <2>2, <3>1 DEF Needed
    <3> QED
      BY <1>1, <3>2
  <2>3. CASE q[4] # 3
    BY <1>1, <2>1, <2>3 DEF Needed
  <2> QED
    BY <2>2, <2>3
<1>3. CASE NameIsCut(q)
  <2>. DEFINE k == FirstNul(q)
  <2>1. q[4] = 3 /\ Nul(q) # {} /\ Len(q) >= 5
    BY <1>1, <1>2, <1>3 DEF NameIsCut, Needed
  <2>2. q[5] \in Byte /\ q[5] \in Nat /\ q[5] + 7 <= Len(q)
    <3>1. 5 \in 1 .. Len(q)
      BY <1>1, <2>1
    <3>2. q[5] \in Byte /\ q[5] \in Nat
      BY <1>1, <3>1
    <3>3. Needed(q) = q[5] + 7
      BY <1>1, <2>1 DEF Needed
    <3> QED
      BY <1>1, <1>2, <3>2, <3>3
  <2>3. k \in 1 .. q[5]
    <3>1. Nul(q) \subseteq 1 .. q[5]
      BY DEF Nul
    <3>2. Nul(q) \in SUBSET Nat
      BY <2>2, <3>1
    <3>3. \E i \in Nul(q) : \A j \in Nul(q) : i <= j
      BY <2>1, <3>2, LeastNumber
    <3>4. k \in Nul(q)
      BY <3>3 DEF FirstNul
    <3> QED
      BY <3>1, <3>4
  <2>4. Destination(q) = <<3, k - 1>> \o SubSeq(q, 6, 4 + k) \o SubSeq(q, 6 + q[5], Needed(q))
    BY <1>3 DEF Destination
  <2> HIDE DEF k
  <2>5. <<3, k - 1>> \in Seq(Byte)
    <3>1. q[5] <= 255
      <4>1. \A b \in Byte : b <= 255
        BY DEF Byte
      <4> QED
        BY <2>2, <4>1
    <3>2. k - 1 \in 0 .. 255 /\ 3 \in 0 .. 255
      BY <2>2, <2>3, <3>1
    <3> QED
      BY <3>2 DEF Byte
  <2>6. SubSeq(q, 6, 4 + k) \in Seq(Byte) /\ SubSeq(q, 6 + q[5], Needed(q)) \in Seq(Byte)
    BY <1>1, <1>2, <2>2, <2>3
  <2> QED
    BY <1>2, <2>4, <2>5, <2>6, ConcatProperties
<1>4. CASE ~ NameIsCut(q)
  BY <1>1, <1>2, <1>4 DEF Destination
<1> QED
  BY <1>3, <1>4

-----------------------------------------------------------------------------
(* Types *)

LEMMA InitTyped == Init => TypeOK
<1> SUFFICES ASSUME Init PROVE TypeOK
  OBVIOUS
<1>1. script \in Seq(Seq(Byte)) /\ Len(script) > 0
  BY ScriptAssumption DEF Init
<1>2. msg \in DOMAIN script /\ script[msg] \in Seq(Byte)
  BY <1>1 DEF Init
<1>3. off \in 0 .. Len(script[msg])
  BY <1>2 DEF Init
<1>4. <<>> \in Seq(Byte) /\ Len(<<>>) = 0
  BY EmptySeq
<1>5. queue \in Seq(Byte) /\ Len(queue) <= Capacity
  BY <1>4, CapacityAssumption DEF Init
<1>6. inbox \in Seq(Byte) /\ told \in Seq(Byte) /\ granted \in Seq(Byte) /\ said \in Seq(Byte)
  BY <1>4 DEF Init, None
<1>7. events \subseteq Poll /\ events # Poll /\ revents \subseteq Poll /\ level \in Level
  BY DEF Init, Level, Poll
<1> QED
  BY <1>2, <1>3, <1>5, <1>6, <1>7 DEF Init, TypeOK

LEMMA ReplyTyped ==
  ASSUME TypeOK, NEW r \in Seq(Byte), Len(r) <= Capacity, NEW l \in Level, Reply(r, l)
  PROVE  /\ inbox' \in Seq(Byte) /\ queue' \in Seq(Byte) /\ Len(queue') <= Capacity
         /\ said' \in Seq(Byte) /\ level' \in Level /\ events' \subseteq Poll /\ events' # Poll
         /\ UNCHANGED <<client, told, revents, status, again>>
<1>1. inbox' \in Seq(Byte) /\ said' \in Seq(Byte)
  BY Pieces, ConcatProperties DEF TypeOK, Reply, Received
<1>2. events' \subseteq Poll /\ events' # Poll
  BY DEF Reply, Poll
<1> QED
  BY <1>1, <1>2 DEF Reply

LEMMA Replies ==
  /\ <<5, 0>> \in Seq(Byte) /\ <<5, 2>> \in Seq(Byte)
  /\ <<5, 0, 0, 1, 0, 0, 0, 0, 0, 0>> \in Seq(Byte)
  /\ Len(<<5, 0>>) = 2 /\ Len(<<5, 2>>) = 2 /\ Len(<<5, 0, 0, 1, 0, 0, 0, 0, 0, 0>>) = 10
BY DEF Byte

LEMMA TypeHolds == TypeOK /\ [Next]_vars => TypeOK'
<1> SUFFICES ASSUME TypeOK, [Next]_vars PROVE TypeOK'
  OBVIOUS
<1>1. ASSUME NEW n \in 1 .. Len(script[msg]), Arrive(n) PROVE TypeOK'
  <2>1. off' \in 0 .. Len(script'[msg'])
    BY <1>1, Messages DEF Arrive
  <2>2. SubSeq(script[msg], off + 1, off + n) \in Seq(Byte)
    BY <1>1, Messages DEF Arrive
  <2>3. inbox' \in Seq(Byte)
    BY <1>1, <2>2, ConcatProperties DEF Arrive, TypeOK
  <2> QED
    BY <1>1, <2>1, <2>3 DEF Arrive, TypeOK, stream, history
<1>2. CASE NextMessage
  <2>1. msg' \in DOMAIN script' /\ off' \in 0 .. Len(script'[msg'])
    BY <1>2, Messages, ScriptAssumption DEF NextMessage, TypeOK
  <2> QED
    BY <1>2, <2>1 DEF NextMessage, TypeOK, stream, history
<1>3. CASE Lose
  BY <1>3 DEF Lose, TypeOK, client, stream, history
<1>4. CASE Watch
  BY <1>4 DEF Watch, TypeOK, client, history
<1>5. CASE Restart
  BY <1>5 DEF Restart, TypeOK, client, stream
<1>6. ASSUME NEW n \in 1 .. Len(queue), Flush(n) PROVE TypeOK'
  <2>1. SubSeq(queue, 1, n) \in Seq(Byte) /\ SubSeq(queue, n + 1, Len(queue)) \in Seq(Byte)
        /\ Len(SubSeq(queue, n + 1, Len(queue))) <= Capacity
    BY <1>6, CapacityAssumption DEF TypeOK
  <2>2. told' \in Seq(Byte)
    BY <1>6, <2>1, ConcatProperties DEF Flush, TypeOK
  <2>3. queue' \in Seq(Byte) /\ Len(queue') <= Capacity
    BY <1>6, <2>1 DEF Flush
  <2>4. events' \subseteq Poll /\ (level # "FORWARDING" => events' # Poll)
    BY <1>6 DEF Flush, TypeOK, Poll
  <2> QED
    BY <1>6, <2>2, <2>3, <2>4 DEF Flush, TypeOK, client, history, AtClient
<1>7. CASE FlushFails
  BY <1>7 DEF FlushFails, TypeOK, AtClient, client, stream, history
<1>8. ASSUME AtClient, whole' = (whole /\ Uncut), Drop PROVE TypeOK'
  <2>1. whole' \in BOOLEAN
    BY <1>8 DEF TypeOK, Uncut
  <2> QED
    BY <1>8, <2>1 DEF Drop, TypeOK, AtClient, client, stream
<1>9. ASSUME AtClient, whole' = (whole /\ Uncut), granted' \in Seq(Byte),
             NEW r \in Seq(Byte), Len(r) <= Capacity, NEW l \in Level, Reply(r, l)
      PROVE  TypeOK'
  <2>1. whole' \in BOOLEAN
    BY <1>9 DEF TypeOK, Uncut
  <2> QED
    BY <1>9, <2>1, ReplyTyped DEF TypeOK, AtClient, client
<1>10. CASE Greeting
  <2>1. AtClient /\ whole' = (whole /\ Uncut) /\ "AUTH" \in Level /\ "REQ" \in Level
    BY <1>10 DEF Greeting, Receives, Handshakes, Level
  <2>5. granted \in Seq(Byte) /\ 2 <= Capacity
    BY CapacityAssumption DEF TypeOK
  <2>2. CASE Drop
    BY <1>8, <2>1, <2>2
  <2>3. CASE Reply(<<5, 2>>, "AUTH") /\ UNCHANGED granted
    BY <1>9, <2>1, <2>5, <2>3, Replies, Zenon
  <2>4. CASE Reply(<<5, 0>>, "REQ") /\ UNCHANGED granted
    BY <1>9, <2>1, <2>5, <2>4, Replies, Zenon
  <2> QED
    BY <1>10, <2>2, <2>3, <2>4 DEF Greeting
<1>11. CASE Credentials
  <2>1. AtClient /\ whole' = (whole /\ Uncut) /\ Reply(<<5, 0>>, "REQ") /\ UNCHANGED granted
    BY <1>11 DEF Credentials, Receives, Handshakes
  <2>2. granted \in Seq(Byte) /\ 2 <= Capacity /\ "REQ" \in Level
    BY CapacityAssumption DEF TypeOK, Level
  <2> QED
    BY <1>9, <2>1, <2>2, Replies, Zenon
<1>12. CASE AwaitRequest
  <2>1. whole' \in BOOLEAN
    BY <1>12 DEF AwaitRequest, Receives, Handshakes, TypeOK, Uncut
  <2> QED
    BY <1>12, <2>1, Pieces DEF AwaitRequest, Receives, Handshakes, Received, TypeOK, AtClient, client
<1>13. CASE RefuseRequest \/ Unexpected \/ CannotReceive
  BY <1>8, <1>13 DEF RefuseRequest, Unexpected, CannotReceive, Receives, Handshakes
<1>14. CASE Grant
  BY <1>9, <1>14, Replies, Pieces, NeededTyped, CapacityAssumption
     DEF Grant, Complete, Receives, Handshakes, Level
<1>15. CASE NoEndpoint
  <2>1. whole' \in BOOLEAN
    BY <1>15 DEF NoEndpoint, Receives, Handshakes, TypeOK, Uncut
  <2> QED
    BY <1>15, <2>1 DEF NoEndpoint, Receives, Handshakes, TypeOK, AtClient, client, stream
<1>16. CASE Completed
  BY <1>16 DEF Completed, TypeOK, Level, Poll, client, history
<1>17. CASE EndpointReadable \/ ForwardToClient \/ AwaitEndpoint
  BY <1>17 DEF EndpointReadable, ForwardToClient, AwaitEndpoint, Forwarding, AtClient, TypeOK, Poll,
               client, history
<1>18. ASSUME NEW n \in 1 .. Len(inbox), EndpointTakes(n) PROVE TypeOK'
  <2>1. SubSeq(inbox, n + 1, Len(inbox)) \in Seq(Byte)
    BY DEF TypeOK
  <2> QED
    BY <1>18, <2>1 DEF EndpointTakes, Forwarding, TypeOK, Poll, client, history
<1>19. CASE NothingToForward
  BY <1>19 DEF NothingToForward, TypeOK, AtClient, client, stream, history
<1>20. CASE UNCHANGED vars
  BY <1>20 DEF vars, TypeOK, client, stream, history
<1>21. Sends \/ Endpoint \/ Visit => TypeOK'
  BY <1>1, <1>2, <1>6, <1>7, <1>10, <1>11, <1>12, <1>13, <1>14, <1>15, <1>16, <1>17, <1>18, <1>19
     DEF Sends, Visit, Endpoint
<1> QED
  BY <1>3, <1>4, <1>5, <1>20, <1>21 DEF Next, Over

-----------------------------------------------------------------------------
(* Replies *)

LEMMA FreshHolds == TypeOK /\ Fresh /\ [Next]_vars => Fresh'
<1> SUFFICES ASSUME TypeOK, Fresh, [Next]_vars PROVE Fresh'
  OBVIOUS
<1>1. CASE Watch
  BY <1>1 DEF Watch, Fresh, TypeOK, Poll
<1>2. CASE Sends \/ Restart \/ Lose \/ UNCHANGED vars
  BY <1>2 DEF Sends, NextMessage, Arrive, Restart, Lose, vars, Fresh, stream, history
<1>3. CASE Visit
  <2>1. pc' = "rest"
    BY <1>3 DEF Visit, Flush, FlushFails, CannotReceive, Greeting, Credentials, AwaitRequest,
                RefuseRequest, Grant, NoEndpoint, Unexpected, Receives, Handshakes, AtClient,
                ForwardToClient, AwaitEndpoint, NothingToForward
  <2> QED
    BY <2>1 DEF Fresh
<1>4. CASE Endpoint
  <2>1. level' = "FORWARDING"
    BY <1>4 DEF Endpoint, Completed, EndpointReadable, EndpointTakes, Forwarding
  <2> QED
    BY <2>1 DEF Fresh
<1> QED
  BY <1>1, <1>2, <1>3, <1>4 DEF Next, Over

LEMMA Associative ==
  ASSUME NEW a \in Seq(Byte), NEW b \in Seq(Byte), NEW c \in Seq(Byte)
  PROVE  (a \o b) \o c = a \o (b \o c)
BY SMT

(* What is sent of a queue and what stays of it make the whole. *)
LEMMA SentInParts ==
  ASSUME NEW t \in Seq(Byte), NEW q \in Seq(Byte), NEW n \in 1 .. Len(q)
  PROVE  /\ SubSeq(q, 1, n) \in Seq(Byte) /\ SubSeq(q, n + 1, Len(q)) \in Seq(Byte)
         /\ (t \o SubSeq(q, 1, n)) \o SubSeq(q, n + 1, Len(q)) = t \o q
<1>. DEFINE a == SubSeq(q, 1, n)
            b == SubSeq(q, n + 1, Len(q))
<1>1. a \o b = SubSeq(q, 1, Len(q))
  BY ConcatAdjacentSubSeq
<1>2. a \o b = q /\ a \in Seq(Byte) /\ b \in Seq(Byte)
  BY <1>1, SubSeqFull
<1> HIDE DEF a, b
<1>3. (t \o a) \o b = t \o (a \o b)
  BY <1>2, Associative, Zenon
<1> QED
  BY <1>2, <1>3 DEF a, b

(* The client is read while it is listened to, and written while it is     *)
(* replied to.                                                             *)
LEMMA Watched ==
  ASSUME TypeOK, Fresh, AtClient, ~ again, level # "FORWARDING"
  PROVE  /\ "OUT" \in revents => events = {"OUT"}
         /\ "IN" \in revents => events = {"IN"}
         /\ events # {} /\ revents = events
BY DEF TypeOK, Fresh, AtClient, Poll

(* In its handshake, a client waits for one event at most. *)
LEMMA EventsTyped ==
  ASSUME TypeOK, level # "FORWARDING"
  PROVE  events \in {{}, {"IN"}, {"OUT"}}
BY DEF TypeOK, Poll

LEMMA KeptByReply ==
  ASSUME TypeOK, Fresh, RepliesKept, AtClient, "IN" \in revents,
         level \in {"VER", "AUTH", "REQ"},
         NEW r \in Seq(Byte), NEW l \in Level, Reply(r, l)
  PROVE  RepliesKept'
<1>1. said' = said \o r /\ queue' = r /\ events' = {"OUT"} /\ UNCHANGED <<told, again>>
  BY DEF Reply
<1>2. SUFFICES ASSUME ~ again PROVE told \o r = said \o r
  BY <1>1 DEF RepliesKept, HoldsReply
<1>3. events = {"IN"} /\ events # {"OUT"}
  BY <1>2, Watched
<1>4. told \o <<>> = said
  BY <1>2, <1>3 DEF RepliesKept, HoldsReply
<1> QED
  BY <1>4, ConcatEmptySeq DEF TypeOK

LEMMA KeptHolds == TypeOK /\ Fresh /\ RepliesKept /\ [Next]_vars => RepliesKept'
<1> SUFFICES ASSUME TypeOK, Fresh, RepliesKept, [Next]_vars PROVE RepliesKept'
  OBVIOUS
<1>1. ASSUME UNCHANGED <<told, level, events, queue, said, again>> PROVE RepliesKept'
  BY <1>1 DEF RepliesKept, HoldsReply
<1>2. CASE Sends \/ Lose \/ Watch \/ UNCHANGED vars
  BY <1>1, <1>2 DEF Sends, NextMessage, Arrive, Lose, Watch, vars, stream, history
<1>3. CASE Restart
  BY <1>3 DEF Restart, RepliesKept
<1>4. CASE FlushFails \/ CannotReceive \/ RefuseRequest \/ NoEndpoint \/ Unexpected
           \/ NothingToForward
  BY <1>1, <1>4 DEF NothingToForward, FlushFails, CannotReceive, RefuseRequest, NoEndpoint,
                    Unexpected, Drop,
                    stream, history
<1>5. ASSUME NEW n \in 1 .. Len(queue), Flush(n) PROVE RepliesKept'
  <2>1. SUFFICES ASSUME ~ again
                 PROVE  told' \o (IF HoldsReply' THEN queue' ELSE <<>>) = said
    BY <1>5 DEF RepliesKept, Flush, history
  <2>2. HoldsReply /\ told \o queue = said
    <3>1. HoldsReply
      BY <1>5, <2>1, Watched DEF Flush, Flushes, HoldsReply
    <3> QED
      BY <2>1, <3>1 DEF RepliesKept
  <2>3. queue \in Seq(Byte) /\ told \in Seq(Byte) /\ Len(queue) \in Nat
    BY DEF TypeOK
  <2>4. (told \o SubSeq(queue, 1, n)) \o SubSeq(queue, n + 1, Len(queue)) = told \o queue
        /\ SubSeq(queue, 1, n) \in Seq(Byte) /\ SubSeq(queue, n + 1, Len(queue)) \in Seq(Byte)
    BY <2>3, SentInParts
  <2>5. told' \o queue' = said
    BY <1>5, <2>2, <2>4, Zenon DEF Flush
  <2>6. CASE n < Len(queue)
    <3>1. HoldsReply'
      BY <1>5, <2>2, <2>6 DEF Flush, HoldsReply
    <3> QED
      BY <2>5, <3>1
  <2>7. CASE n = Len(queue)
    <3>1. queue' = <<>>
      BY <1>5, <2>3, <2>7 DEF Flush
    <3> QED
      BY <2>5, <3>1
  <2> QED
    BY <2>3, <2>6, <2>7
<1>6. CASE Greeting
  <2>1. AtClient /\ "IN" \in revents /\ {"AUTH", "REQ"} \subseteq Level /\ level = "VER"
    BY <1>6 DEF Greeting, Receives, Handshakes, Level
  <2>2. CASE Drop
    BY <1>1, <2>2 DEF Drop, stream
  <2>3. CASE Reply(<<5, 2>>, "AUTH") \/ Reply(<<5, 0>>, "REQ")
    BY <2>1, <2>3, Replies, KeptByReply
  <2> QED
    BY <1>6, <2>2, <2>3 DEF Greeting
<1>7. CASE Credentials
  BY <1>7, Replies, KeptByReply DEF Credentials, Receives, Handshakes, Level
<1>8. CASE AwaitRequest
  <2>1. SUFFICES ASSUME ~ again PROVE events # {"OUT"}
    BY <1>8 DEF AwaitRequest, RepliesKept, HoldsReply, Receives
  <2> QED
    BY <1>8, <2>1, Watched DEF AwaitRequest, Receives, Handshakes
<1>9. CASE Grant
  BY <1>9, Replies, KeptByReply DEF Grant, Receives, Handshakes, Level
<1>10. ASSUME level \in {"PASS", "FORWARDING"}, level' \in {"PASS", "FORWARDING"},
              UNCHANGED <<told, queue, said, again>>
       PROVE  RepliesKept'
  BY <1>10 DEF RepliesKept, HoldsReply
<1>11. CASE Endpoint \/ ForwardToClient \/ AwaitEndpoint
  BY <1>10, <1>11 DEF Endpoint, Completed, EndpointReadable, EndpointTakes, ForwardToClient,
                      AwaitEndpoint, Forwarding, history
<1> QED
  BY <1>2, <1>3, <1>4, <1>5, <1>6, <1>7, <1>8, <1>9, <1>11 DEF Next, Visit, Over

-----------------------------------------------------------------------------
(* Turns *)

LEMMA OrderlyBefore ==
  ASSUME TypeOK, [Next]_vars, Orderly'
  PROVE  Orderly /\ UNCHANGED <<script, polite>>
<1>1. UNCHANGED <<script, polite>> /\ (whole' => whole) /\ (again => again')
  <2>1. CASE Sends \/ Lose \/ Watch \/ Restart \/ UNCHANGED vars
    BY <2>1 DEF Sends, NextMessage, Arrive, Lose, Watch, Restart, vars, client, history
  <2>2. CASE (\E n \in 1 .. Len(queue) : Flush(n)) \/ FlushFails
    BY <2>2 DEF Flush, FlushFails, client, history
  <2>3. ASSUME whole' = (whole /\ Uncut), UNCHANGED <<client, again>>
        PROVE  UNCHANGED <<script, polite>> /\ (whole' => whole) /\ (again => again')
    BY <2>3 DEF client
  <2>4. CASE CannotReceive \/ RefuseRequest \/ Unexpected \/ NoEndpoint
    BY <2>3, <2>4 DEF CannotReceive, RefuseRequest, Unexpected, NoEndpoint, Receives, Handshakes, Drop
  <2>5. CASE Greeting \/ Credentials \/ AwaitRequest \/ Grant
    BY <2>3, <2>5 DEF Greeting, Credentials, AwaitRequest, Grant, Receives, Handshakes, Reply, Drop
  <2>6. CASE Endpoint \/ ForwardToClient \/ AwaitEndpoint \/ NothingToForward
    BY <2>6 DEF Endpoint, Completed, EndpointReadable, EndpointTakes, ForwardToClient,
                AwaitEndpoint, NothingToForward, client, history
  <2> QED
    BY <2>1, <2>2, <2>4, <2>5, <2>6 DEF Next, Visit, Over
<1> QED
  BY <1>1 DEF Orderly

(* A client that conforms. *)
LEMMA Conforming ==
  ASSUME TypeOK, Conforms(script)
  PROVE  /\ Len(script) \in {2, 3} /\ (Len(script) = 3 <=> OffersPassword(script[1]))
         /\ \A i \in 1 .. Len(script) :
              script[i] \in Seq(Byte) /\ Len(script[i]) \in 2 .. Capacity
         /\ script[1][1] = 5
BY Messages DEF Conforms

(* All that has arrived is received at once, and is the beginning of the   *)
(* one message that the client has not been answered.                      *)
LEMMA InputIsMessage ==
  ASSUME TypeOK, Listening, Conforms(script), Len(Chunk) >= 2
  PROVE  /\ msg = Answered + 1 /\ Input = SubSeq(script[msg], 1, off)
         /\ Len(Input) = off /\ off <= Len(script[msg]) /\ Len(Input) <= Capacity
         /\ Chunk = inbox /\ SubSeq(inbox, Len(Chunk) + 1, Len(inbox)) = <<>>
         /\ Input \in Seq(Byte) /\ (level # "REQ" => Input = inbox)
<1>1. inbox \in Seq(Byte) /\ queue \in Seq(Byte) /\ inbox # <<>>
  BY Pieces DEF TypeOK
<1>2. msg = Answered + 1 /\ queue \o inbox = SubSeq(script[msg], 1, off)
  BY <1>1 DEF Listening
<1>3. off \in 0 .. Len(script[msg]) /\ Len(script[msg]) <= Capacity /\ script[msg] \in Seq(Byte)
  BY Conforming, Messages DEF TypeOK
<1>4. Len(SubSeq(script[msg], 1, off)) = off
  BY <1>3
<1>5. Len(queue) + Len(inbox) = off /\ Len(queue) \in Nat /\ Len(inbox) \in Nat
  <2>1. Len(queue \o inbox) = Len(queue) + Len(inbox)
    BY <1>1
  <2>2. Len(queue) \in Nat /\ Len(inbox) \in Nat
    BY <1>1
  <2> QED
    BY <1>2, <1>4, <2>1, <2>2, Zenon
<1>6. Len(inbox) <= Capacity
  BY <1>3, <1>5, CapacityAssumption
<1>7. Chunk = inbox /\ SubSeq(inbox, Len(Chunk) + 1, Len(inbox)) = <<>>
  BY <1>6, Pieces
<1>8. Input = SubSeq(script[msg], 1, off)
  BY <1>2, <1>7 DEF Input
<1>9. level # "REQ" => Input = inbox
  BY <1>1, <1>7, ConcatEmptySeq DEF Input, Listening
<1> QED
  BY <1>2, <1>3, <1>4, <1>7, <1>8, <1>9, Pieces, CapacityAssumption

(* A greeting, or credentials, is received as a whole. *)
LEMMA WholeMessage ==
  ASSUME TypeOK, Listening, Conforms(script), Uncut, level # "REQ"
  PROVE  off = Len(script[msg]) /\ Input = script[msg]
<1>1. off = Len(script[msg]) /\ script[msg] \in Seq(Byte) /\ Len(Chunk) >= 2
  BY Messages DEF Uncut
<1> QED
  BY <1>1, InputIsMessage, SubSeqFull

(* How long a request is shows as soon as the code tests it. *)
LEMMA NeededIsLength ==
  ASSUME NEW r \in Seq(Byte), Len(r) >= 5, IsRequest(r), Len(r) = 4 + AddressLength(r) + 2,
         NEW n \in 0 .. Len(r), NEW q, q = SubSeq(r, 1, n)
  PROVE  /\ n >= 4 => IsRequest(q)
         /\ n >= Needed(q) => 
              n = Len(r) /\ q = r /\ (~ NameIsCut(r) => Destination(q) = SubSeq(r, 4, Len(r)))
<1>1. Len(q) = n /\ \A i \in 1 .. n : q[i] = r[i]
  OBVIOUS
<1>2. ASSUME n >= 4 PROVE IsRequest(q)
  BY <1>1, <1>2 DEF IsRequest
<1>3. ASSUME n >= Needed(q) PROVE n = Len(r) /\ Needed(q) = Len(r)
  <2>1. n >= 4
    BY <1>1, <1>3 DEF Needed
  <2>2. q[4] = r[4]
    BY <1>1, <2>1
  <2>3. CASE r[4] = 1
    BY <1>1, <1>3, <2>1, <2>2, <2>3 DEF Needed, AddressLength
  <2>4. CASE r[4] = 4
    BY <1>1, <1>3, <2>1, <2>2, <2>4 DEF Needed, AddressLength
  <2>5. CASE r[4] = 3
    <3>1. n >= 5
      BY <1>1, <1>3, <2>1, <2>2, <2>5 DEF Needed
    <3>2. q[5] = r[5]
      BY <1>1, <3>1
    <3>3. r[5] \in Nat
      <4>1. r[5] \in Byte
        BY <1>1, <3>1
      <4>2. \A b \in Byte : b \in Nat
        BY DEF Byte
      <4> QED
        BY <4>1, <4>2
    <3>4. Needed(q) = r[5] + 7
      BY <1>1, <2>1, <2>2, <2>5, <3>1, <3>2 DEF Needed
    <3>5. AddressLength(r) = 1 + r[5]
      BY <2>5 DEF AddressLength
    <3>6. Len(r) = r[5] + 7
      BY <3>3, <3>5
    <3> QED
      BY <1>3, <3>4, <3>6
  <2> QED
    BY <2>3, <2>4, <2>5 DEF IsRequest
<1>4. ASSUME n = Len(r) PROVE q = r
  BY <1>4, SubSeqFull
<1> QED
  BY <1>2, <1>3, <1>4 DEF Destination

LEMMA Different == {"IN"} # {"OUT"} /\ {"IN"} # {} /\ {"OUT"} # {}
<1>1. "IN" \in {"IN"} /\ "IN" \notin {"OUT"} /\ "IN" \notin {} /\ "OUT" \in {"OUT"} /\ "OUT" \notin {}
  OBVIOUS
<1> QED
  BY <1>1

LEMMA ArriveKeepsTurn ==
  ASSUME TypeOK, Turn, level # "FORWARDING", NEW n \in 1 .. Len(script[msg]), Arrive(n)
  PROVE  Turn'
<1>1. /\ off + n <= Len(script[msg]) /\ off' = off + n
      /\ inbox' = inbox \o SubSeq(script[msg], off + 1, off + n)
      /\ UNCHANGED <<script, msg, told, level, queue, events>>
  BY DEF Arrive, stream
<1>2. Answered' = Answered
  BY <1>1 DEF Answered
<1>3. off # Len(script[msg]) /\ off \in 0 .. Len(script[msg]) /\ script[msg] \in Seq(Byte)
      /\ Len(script[msg]) \in Nat
  BY <1>1, Messages DEF TypeOK
<1>4. CASE events = {"OUT"}
  BY <1>3, <1>4 DEF Turn, Replying
<1>5. CASE events = {"IN"}
  <2>1. msg = Answered + 1 /\ queue \o inbox = SubSeq(script[msg], 1, off)
    BY <1>3, <1>5 DEF Turn, Listening
  <2>. DEFINE m == script[msg]
              new == SubSeq(m, off + 1, off + n)
  <2>2. SubSeq(m, 1, off) \o new = SubSeq(m, 1, off + n) /\ new \in Seq(Byte)
    <3>1. 1 \in 1 .. Len(m) + 1 /\ off \in 1 - 1 .. Len(m) /\ off + n \in off .. Len(m)
      BY <1>1, <1>3
    <3>2. SubSeq(m, 1, off) \o SubSeq(m, off + 1, off + n) = SubSeq(m, 1, off + n)
      BY <1>3, <3>1, ConcatAdjacentSubSeq
    <3>3. new \in Seq(Byte)
      BY <1>1, <1>3
    <3> QED
      BY <3>2, <3>3
  <2>3. (queue \o inbox) \o new = queue \o (inbox \o new)
    BY <2>2, Associative, Zenon DEF TypeOK
  <2>4. queue' \o inbox' = SubSeq(script[msg], 1, off')
    BY <1>1, <2>1, <2>2, <2>3, Zenon
  <2>5. Listening'
    BY <1>1, <1>2, <1>5, <2>1, <2>4 DEF Turn, Listening
  <2> QED
    BY <1>1, <1>5, <2>5, Different DEF Turn
<1>6. CASE events = {}
  BY <1>1, <1>6, Different DEF Turn
<1> QED
  BY <1>4, <1>5, <1>6, EventsTyped

LEMMA NextMessageKeepsTurn ==
  ASSUME TypeOK, Turn, level # "FORWARDING", Conforms(script), polite, NextMessage
  PROVE  Turn'
<1>1. /\ off = Len(script[msg]) /\ msg < Len(script) /\ Len(told) = 2 * msg
      /\ msg' = msg + 1 /\ off' = 0
      /\ UNCHANGED <<script, inbox, told, level, queue, events>>
  BY DEF NextMessage, stream
<1>2. Answered' = Answered /\ Answered \in Nat
  BY <1>1, Messages DEF Answered, TypeOK, Level
<1>3. msg \in Nat /\ Len(queue) \in Nat /\ (queue # <<>> => Len(queue) > 0)
  BY Messages DEF TypeOK
<1>4. CASE events = {"OUT"}
  <2>1. Replying
    BY <1>4 DEF Turn
  <2>2. level # "PASS"
    BY <1>1, <1>3, <2>1 DEF Replying, Answered
  <2>3. Len(told) + Len(queue) = 2 * msg /\ Len(queue) > 0
    BY <1>3, <2>1, <2>2 DEF Replying
  <2> QED
    BY <1>1, <1>3, <2>3
<1>5. CASE events = {"IN"}
  <2>1. Listening
    BY <1>5 DEF Turn
  <2>2. msg = Answered
    BY <1>1, <1>2, <1>3, <2>1 DEF Listening
  <2>3. queue = <<>> /\ inbox = <<>>
    BY <1>2, <1>3, <2>1, <2>2 DEF Listening
  <2>4. queue' \o inbox' = SubSeq(script'[msg'], 1, off')
    <3>1. SubSeq(script'[msg'], 1, 0) = <<>>
      BY SubSeqEmpty
    <3>2. <<>> \o <<>> = <<>>
      BY EmptySeq, ConcatEmptySeq
    <3> QED
      BY <1>1, <2>3, <3>1, <3>2
  <2>5. Listening'
    BY <1>1, <1>2, <2>1, <2>2, <2>3, <2>4 DEF Listening
  <2> QED
    BY <1>1, <1>5, <2>5, Different DEF Turn
<1>6. CASE events = {}
  BY <1>1, <1>3, <1>6, Messages DEF Turn
<1> QED
  BY <1>4, <1>5, <1>6, EventsTyped

LEMMA FlushKeepsTurn ==
  ASSUME TypeOK, Turn, Fresh, ~ again, level # "FORWARDING", Conforms(script),
         NEW n \in 1 .. Len(queue), Flush(n)
  PROVE  Turn'
<1>1. /\ told' = told \o SubSeq(queue, 1, n) /\ queue' = SubSeq(queue, n + 1, Len(queue))
      /\ UNCHANGED <<script, msg, off, inbox, level>>
  BY DEF Flush, client
<1>2. events = {"OUT"}
  BY Watched DEF Flush, Flushes
<1>3. Replying /\ Answered' = Answered
  BY <1>1, <1>2 DEF Turn, Answered
<1>4. queue \in Seq(Byte) /\ told \in Seq(Byte) /\ Len(queue) \in Nat /\ Len(told) \in Nat
  BY DEF TypeOK
<1>5. Len(told') = Len(told) + n /\ Len(queue') = Len(queue) - n /\ queue' \in Seq(Byte)
  BY <1>1, <1>4
<1>6. CASE n < Len(queue)
  <2>1. events' = {"OUT"}
    BY <1>2, <1>6 DEF Flush
  <2>2. queue' # <<>>
    <3>1. Len(queue') # 0
      BY <1>4, <1>5, <1>6
    <3> QED
      BY <3>1, EmptySeq
  <2>3. level # "PASS" => Len(told') + Len(queue') = 2 * msg
    BY <1>3, <1>4, <1>5 DEF Replying
  <2>4. Replying'
    BY <1>1, <1>3, <2>2, <2>3 DEF Replying
  <2> QED
    BY <1>1, <1>2, <2>1, <2>4, Different DEF Turn
<1>7. CASE n = Len(queue) /\ level = "PASS"
  <2>1. events' = {} /\ level' = "PASS" /\ msg' = Len(script')
    BY <1>1, <1>3, <1>7 DEF Flush, Replying, Answered
  <2> QED
    BY <2>1, Different DEF Turn
<1>8. CASE n = Len(queue) /\ level # "PASS"
  <2>1. events' = {"IN"}
    BY <1>8 DEF Flush
  <2>2. queue' = <<>>
    BY <1>4, <1>5, <1>8, EmptySeq
  <2>3. Len(told') = 2 * Answered'
    BY <1>3, <1>4, <1>5, <1>8 DEF Replying
  <2>4. Listening'
    BY <1>1, <1>3, <1>8, <2>2, <2>3 DEF Listening, Replying
  <2>5. level' = "AUTH" => Len(script') = 3
    BY <1>1 DEF Turn
  <2> QED
    BY <2>1, <2>4, <2>5, Different DEF Turn
<1> QED
  BY <1>4, <1>6, <1>7, <1>8

(* A handler has read an orderly client: it was its turn. *)
LEMMA ReadInTurn ==
  ASSUME TypeOK, Turn, Fresh, ~ again, AtClient, level # "FORWARDING", "IN" \in revents
  PROVE  events = {"IN"} /\ Listening /\ (level = "AUTH" => Len(script) = 3)
BY Watched DEF Turn

LEMMA ReplyKeepsTurn ==
  ASSUME TypeOK, Conforms(script), NEW r \in Seq(Byte), r # <<>>, NEW l \in Level, Reply(r, l),
         l # "VER", l = "AUTH" => Len(script) = 3,
         inbox' = <<>>, off = Len(script[msg]), msg = Answered',
         l # "PASS" => Len(told) + Len(r) = 2 * msg
  PROVE  Turn'
<1>1. /\ queue' = r /\ level' = l /\ events' = {"OUT"}
      /\ UNCHANGED <<script, msg, off, told>>
  BY DEF Reply, client
<1>2. Replying'
  BY <1>1 DEF Replying
<1> QED
  BY <1>1, <1>2, Different DEF Turn

LEMMA GreetingInTurn ==
  ASSUME TypeOK, Turn, Fresh, ~ again, Conforms(script), Uncut, Greeting
  PROVE  Turn' /\ ~ Drop /\ UNCHANGED granted
<1>1. AtClient /\ "IN" \in revents /\ Len(Chunk) >= 2 /\ level = "VER"
  BY DEF Greeting, Receives, Handshakes
<1>2. Listening
  BY <1>1, ReadInTurn
<1>3. Answered = 0
  BY <1>1 DEF Answered
<1>4. msg = 1 /\ SubSeq(inbox, Len(Chunk) + 1, Len(inbox)) = <<>>
  BY <1>1, <1>2, <1>3, InputIsMessage
<1>5. off = Len(script[1]) /\ Input = script[1]
  BY <1>1, <1>2, <1>4, WholeMessage
<1>6. Input[1] = 5
  BY <1>5, Conforming
<1>7. Len(told) = 0
  BY <1>2, <1>3 DEF Listening
<1>8. UNCHANGED granted /\ status' = "open"
  BY <1>1, <1>6 DEF Greeting, Reply, AtClient
<1>9. CASE OffersPassword(script[1])
  <2>1. Reply(<<5, 2>>, "AUTH") /\ Len(script) = 3
    BY <1>5, <1>6, <1>9, Conforming DEF Greeting
  <2>2. inbox' = <<>> /\ Answered' = 1
    BY <1>4, <2>1 DEF Reply, Received, Answered
  <2>3. <<5, 2>> # <<>> /\ Len(told) + Len(<<5, 2>>) = 2 * msg
    BY <1>4, <1>7, Replies
  <2> QED
    BY <1>4, <1>5, <1>8, <2>1, <2>2, <2>3, Replies, ReplyKeepsTurn DEF Level, Drop
<1>10. CASE ~ OffersPassword(script[1])
  <2>1. Reply(<<5, 0>>, "REQ") /\ Len(script) = 2
    BY <1>5, <1>6, <1>10, Conforming DEF Greeting
  <2>2. inbox' = <<>> /\ Answered' = 1
    BY <1>4, <2>1 DEF Reply, Received, Answered, client
  <2>3. <<5, 0>> # <<>> /\ Len(told) + Len(<<5, 0>>) = 2 * msg
    BY <1>4, <1>7, Replies
  <2> QED
    BY <1>4, <1>5, <1>8, <2>1, <2>2, <2>3, Replies, ReplyKeepsTurn DEF Level, Drop
<1> QED
  BY <1>9, <1>10

LEMMA CredentialsInTurn ==
  ASSUME TypeOK, Turn, Fresh, ~ again, Conforms(script), Uncut, Credentials
  PROVE  Turn'
<1>1. AtClient /\ "IN" \in revents /\ Len(Chunk) >= 2 /\ level = "AUTH" /\ Reply(<<5, 0>>, "REQ")
  BY DEF Credentials, Receives, Handshakes
<1>2. Listening /\ Len(script) = 3
  BY <1>1, ReadInTurn
<1>3. Answered = 1
  BY <1>1 DEF Answered
<1>4. msg = 2 /\ SubSeq(inbox, Len(Chunk) + 1, Len(inbox)) = <<>>
  BY <1>1, <1>2, <1>3, InputIsMessage
<1>5. off = Len(script[msg])
  BY <1>1, <1>2, <1>4, WholeMessage
<1>6. Len(told) = 2
  BY <1>2, <1>3 DEF Listening
<1>7. inbox' = <<>> /\ Answered' = 2
  BY <1>1, <1>2, <1>4 DEF Reply, Received, Answered, client
<1>8. <<5, 0>> # <<>> /\ Len(told) + Len(<<5, 0>>) = 2 * msg
  BY <1>4, <1>6, Replies
<1> QED
  BY <1>1, <1>2, <1>4, <1>5, <1>7, <1>8, Replies, ReplyKeepsTurn DEF Level

(* The request, as far as it has come. *)
LEMMA RequestInTurn ==
  ASSUME TypeOK, Turn, Fresh, ~ again, Conforms(script), Receives("REQ")
  PROVE  LET r == script[Len(script)]
         IN  /\ Listening /\ msg = Len(script) /\ off \in 0 .. Len(r)
             /\ Input = SubSeq(r, 1, off) /\ Len(Input) = off /\ Input \in Seq(Byte)
             /\ SubSeq(inbox, Len(Chunk) + 1, Len(inbox)) = <<>>
             /\ off >= 4 => IsRequest(Input)
             /\ off >= Needed(Input) =>
                  off = Len(r) /\ (~ NameIsCut(r) => Destination(Input) = SubSeq(r, 4, Len(r)))
<1>1. AtClient /\ "IN" \in revents /\ Len(Chunk) >= 2 /\ level = "REQ"
  BY DEF Receives, Handshakes
<1>2. Listening
  BY <1>1, ReadInTurn
<1>3. Answered = Len(script) - 1 /\ Len(script) \in Nat
  BY <1>1, Messages DEF Answered
<1>4. /\ msg = Len(script) /\ Input = SubSeq(script[msg], 1, off) /\ Len(Input) = off
      /\ SubSeq(inbox, Len(Chunk) + 1, Len(inbox)) = <<>> /\ Input \in Seq(Byte)
  BY <1>1, <1>2, <1>3, InputIsMessage
<1>. PICK r : r = script[Len(script)]
  OBVIOUS
<1>5. r \in Seq(Byte) /\ Len(r) >= 5 /\ IsRequest(r) /\ Len(r) = 4 + AddressLength(r) + 2
  BY <1>4, Messages DEF Conforms
<1>6. off \in 0 .. Len(r)
  BY <1>4 DEF TypeOK
<1>7. Input = SubSeq(r, 1, off)
  BY <1>4
<1>8. /\ off >= 4 => IsRequest(Input)
      /\ off >= Needed(Input) =>
           off = Len(r) /\ (~ NameIsCut(r) => Destination(Input) = SubSeq(r, 4, Len(r)))
  BY <1>5, <1>6, <1>7, NeededIsLength
<1> QED
  BY <1>2, <1>4, <1>6, <1>7, <1>8

LEMMA AwaitInTurn ==
  ASSUME TypeOK, Turn, Fresh, ~ again, Conforms(script), AwaitRequest
  PROVE  Turn'
<1>1. Receives("REQ") /\ level = "REQ" /\ queue' = Input
      /\ inbox' = SubSeq(inbox, Len(Chunk) + 1, Len(inbox))
      /\ UNCHANGED <<script, msg, off, told, level, events>>
  BY DEF AwaitRequest, Received, client, Receives, Handshakes
<1>2. Listening /\ msg = Len(script) /\ Input = SubSeq(script[msg], 1, off) /\ inbox' = <<>>
      /\ Input \in Seq(Byte)
  BY <1>1, RequestInTurn
<1>3. Answered' = Answered /\ msg = Answered + 1
  BY <1>1, <1>2, Messages DEF Answered
<1>4. queue' \o inbox' = SubSeq(script[msg], 1, off)
  BY <1>1, <1>2, ConcatEmptySeq
<1>5. Listening'
  BY <1>1, <1>2, <1>3, <1>4 DEF Listening
<1> QED
  BY <1>1, <1>5, <1>2, ReadInTurn, Different DEF Turn, Receives, Handshakes

LEMMA GrantInTurn ==
  ASSUME TypeOK, Turn, Fresh, ~ again, Conforms(script), Grant
  PROVE  /\ Turn'
         /\ LET r == script[Len(script)] IN ~ NameIsCut(r) => granted' = SubSeq(r, 4, Len(r))
<1>. DEFINE reply == <<5, 0, 0, 1, 0, 0, 0, 0, 0, 0>>
<1>1. Receives("REQ") /\ Complete /\ Reply(reply, "PASS") /\ granted' = Destination(Input)
  BY DEF Grant
<1>. PICK r : r = script[Len(script)]
  OBVIOUS
<1>2. /\ msg = Len(script) /\ Len(Input) = off
      /\ SubSeq(inbox, Len(Chunk) + 1, Len(inbox)) = <<>>
      /\ off >= Needed(Input) =>
           off = Len(r) /\ (~ NameIsCut(r) => Destination(Input) = SubSeq(r, 4, Len(r)))
  BY <1>1, RequestInTurn
<1>3. off = Len(script[msg]) /\ (~ NameIsCut(r) => granted' = SubSeq(r, 4, Len(r)))
  BY <1>1, <1>2 DEF Complete
<1>4. inbox' = <<>> /\ Answered' = msg
  BY <1>1, <1>2 DEF Reply, Received, Answered, client
<1>5. reply \in Seq(Byte) /\ reply # <<>>
  BY Replies
<1> HIDE DEF reply
<1>6. Turn'
  BY <1>1, <1>3, <1>4, <1>5, ReplyKeepsTurn DEF Level
<1> QED
  BY <1>3, <1>6

(* What would drop an orderly client does not happen. *)
LEMMA NotDropped ==
  ASSUME TypeOK, Turn, Fresh, ~ again, Conforms(script), Uncut,
         CannotReceive \/ RefuseRequest \/ Unexpected
  PROVE  FALSE
<1>1. AtClient /\ ~ Flushes /\ level # "FORWARDING"
  BY DEF CannotReceive, RefuseRequest, Unexpected, Receives, Handshakes
<1>2. ~ (events = {"OUT"})
  BY <1>1, Watched DEF Turn, Replying, Flushes
<1>3. events = {"IN"} /\ "IN" \in revents
  BY <1>1, <1>2, Watched, EventsTyped
<1>4. Listening
  BY <1>1, <1>3, ReadInTurn
<1>5. CASE CannotReceive
  BY <1>3, <1>4, <1>5, InputIsMessage, Pieces, CapacityAssumption DEF CannotReceive, Handshakes, Uncut, TypeOK
<1>6. CASE Unexpected
  BY <1>4, <1>6 DEF Unexpected, Receives, Handshakes, Listening
<1>7. CASE RefuseRequest
  BY <1>7, RequestInTurn DEF RefuseRequest
<1> QED
  BY <1>5, <1>6, <1>7

-----------------------------------------------------------------------------
(* The invariant *)

LEMMA InitHolds == Init => IInv
<1> SUFFICES ASSUME Init PROVE IInv
  OBVIOUS
<1>1. TypeOK
  BY InitTyped
<1>2. events = {"IN"} /\ status = "open" /\ granted = None /\ pc = "rest"
  BY DEF Init
<1>3. RepliesKept
  <2>1. <<>> \o <<>> = <<>>
    BY EmptySeq, ConcatEmptySeq
  <2> QED
    BY <1>2, <2>1, Different DEF Init, RepliesKept
<1>4. Listening
  <2>1. Answered = 0 /\ Len(told) = 0 /\ msg = 1
    BY DEF Init, Answered
  <2>2. queue \o inbox = SubSeq(script[msg], 1, off)
    <3>1. SubSeq(script[msg], 1, 0) = <<>>
      BY SubSeqEmpty
    <3>2. <<>> \o <<>> = <<>>
      BY EmptySeq, ConcatEmptySeq
    <3> QED
      BY <3>1, <3>2 DEF Init
  <2> QED
    BY <2>1, <2>2 DEF Init, Listening
<1>5. Turn
  BY <1>2, <1>4, Different DEF Turn, Init
<1>6. Fresh /\ TakesTurns /\ GrantsWhatWasAsked /\ DroppedForCause
  BY <1>2, <1>5 DEF Fresh, TakesTurns, GrantsWhatWasAsked, DroppedForCause
<1> QED
  BY <1>1, <1>3, <1>6 DEF IInv

(* Only what a client asked for is granted. *)
LEMMA GrantedHolds ==
  ASSUME IInv, [Next]_vars
  PROVE  GrantsWhatWasAsked'
<1>1. SUFFICES ASSUME Orderly', granted' # None, ~ NameIsCut(script'[Len(script')])
               PROVE  LET r == script'[Len(script')] IN granted' = SubSeq(r, 4, Len(r))
  BY DEF GrantsWhatWasAsked
<1>2. TypeOK /\ Fresh /\ Orderly /\ UNCHANGED script
  BY <1>1, OrderlyBefore DEF IInv
<1>3. CASE UNCHANGED granted
  BY <1>1, <1>2, <1>3 DEF IInv, GrantsWhatWasAsked
<1>4. CASE Grant
  <2>1. status = "open" /\ level = "REQ" /\ Turn
    BY <1>2, <1>4 DEF IInv, TakesTurns, Grant, Receives, Handshakes, AtClient
  <2>2. script' = script /\ ~ NameIsCut(script[Len(script)])
    BY <1>1, <1>2
  <2>3. LET r == script[Len(script)] IN ~ NameIsCut(r) => granted' = SubSeq(r, 4, Len(r))
    BY <1>2, <1>4, <2>1, GrantInTurn DEF Orderly
  <2> QED
    BY <2>2, <2>3
<1> QED
  <2>1. CASE Sends \/ Lose \/ Watch \/ Restart \/ UNCHANGED vars
    BY <1>3, <2>1 DEF Sends, NextMessage, Arrive, Lose, Watch, Restart, vars
  <2>2. CASE (\E n \in 1 .. Len(queue) : Flush(n)) \/ FlushFails \/ AwaitRequest \/ NoEndpoint
    BY <1>3, <2>2 DEF Flush, FlushFails, AwaitRequest, NoEndpoint
  <2>3. CASE CannotReceive \/ RefuseRequest \/ Unexpected \/ Greeting \/ Credentials
    BY <1>3, <2>3 DEF CannotReceive, RefuseRequest, Unexpected, Greeting, Credentials, Drop
  <2>4. CASE Endpoint \/ ForwardToClient \/ AwaitEndpoint \/ NothingToForward
    BY <1>3, <2>4 DEF Endpoint, Completed, EndpointReadable, EndpointTakes, ForwardToClient,
                      AwaitEndpoint, NothingToForward
  <2> QED
    BY <1>4, <2>1, <2>2, <2>3, <2>4 DEF Next, Visit, Over

(* Once the relation forwards, the handshake does nothing any more. *)
LEMMA ForwardingStays ==
  ASSUME [Next]_vars, level = "FORWARDING", status # "dropped"
  PROVE  level' = "FORWARDING" /\ status' # "dropped"
<1>1. CASE Sends \/ Lose \/ Watch \/ Restart \/ UNCHANGED vars
  BY <1>1 DEF Sends, NextMessage, Arrive, Lose, Watch, Restart, vars, stream
<1>2. CASE (\E n \in 1 .. Len(queue) : Flush(n)) \/ FlushFails
  BY <1>2 DEF Flush, FlushFails, AtClient, stream
<1>3. CASE Endpoint \/ ForwardToClient \/ AwaitEndpoint \/ NothingToForward
  BY <1>3 DEF Endpoint, Completed, EndpointReadable, EndpointTakes, ForwardToClient,
              AwaitEndpoint, NothingToForward, AtClient, stream
<1>4. ~ Handshakes
  BY DEF Handshakes
<1>5. CASE CannotReceive \/ Greeting \/ Credentials \/ AwaitRequest \/ RefuseRequest \/ Grant
           \/ NoEndpoint \/ Unexpected
  BY <1>4, <1>5 DEF CannotReceive, Greeting, Credentials, AwaitRequest, RefuseRequest, Grant,
                    NoEndpoint, Unexpected, Receives
<1> QED
  BY <1>1, <1>2, <1>3, <1>5 DEF Next, Visit, Over

(* An orderly client keeps its turn, and is not dropped. *)
LEMMA TurnHolds ==
  ASSUME IInv, [Next]_vars
  PROVE  TakesTurns' /\ DroppedForCause'
<1>1. SUFFICES ASSUME Orderly'
               PROVE  (status' = "open" /\ level' # "FORWARDING" => Turn') /\ status' # "dropped"
  BY DEF TakesTurns, DroppedForCause
<1>2. /\ TypeOK /\ Fresh /\ Orderly /\ status # "dropped"
      /\ status = "open" /\ level # "FORWARDING" => Turn
  BY <1>1, OrderlyBefore DEF IInv, TakesTurns, DroppedForCause
<1>3. Conforms(script) /\ polite /\ ~ again /\ ~ again' /\ whole'
  BY <1>1, <1>2 DEF Orderly
<1>4. CASE status # "open"
  <2>1. status' = status
    BY <1>4 DEF Next, Sends, Visit, Lose, Watch, Restart, Flush, FlushFails, CannotReceive,
                Greeting, Credentials, AwaitRequest, RefuseRequest, Grant, NoEndpoint,
                Unexpected, Receives, Handshakes, AtClient, Over, vars, Endpoint, Completed,
                EndpointReadable, EndpointTakes, ForwardToClient, AwaitEndpoint, NothingToForward,
                Forwarding
  <2> QED
    BY <1>2, <1>4, <2>1
<1>5. CASE level = "FORWARDING"
  <2>1. level' = "FORWARDING" /\ status' # "dropped"
    BY <1>2, <1>5, ForwardingStays
  <2> QED
    BY <2>1
<1>6. CASE status = "open" /\ level # "FORWARDING"
  <2>1. Turn
    BY <1>2, <1>6
  <2>2. ASSUME NEW n \in 1 .. Len(script[msg]), Arrive(n) PROVE Turn' /\ status' = "open"
    BY <1>2, <1>6, <2>1, <2>2, ArriveKeepsTurn DEF Arrive
  <2>3. CASE NextMessage
    BY <1>2, <1>3, <1>6, <2>1, <2>3, NextMessageKeepsTurn DEF NextMessage
  <2>4. CASE Lose \/ FlushFails \/ NoEndpoint
    BY <2>4 DEF Lose, FlushFails, NoEndpoint
  <2>5. CASE Watch \/ UNCHANGED vars
    <3>1. UNCHANGED <<script, msg, off, inbox, told, level, queue, events, status>>
      BY <2>5 DEF Watch, vars, client, stream
    <3> QED
      BY <1>6, <2>1, <3>1 DEF Turn, Replying, Listening, Answered
  <2>6. CASE Restart
    BY <1>3, <2>6 DEF Restart
  <2>7. ASSUME NEW n \in 1 .. Len(queue), Flush(n) PROVE Turn' /\ status' = "open"
    BY <1>2, <1>3, <1>6, <2>1, <2>7, FlushKeepsTurn DEF Flush
  <2>8. ASSUME whole' = (whole /\ Uncut) PROVE Uncut
    BY <1>3, <2>8
  <2>9. CASE Greeting
    <3>1. Uncut /\ AtClient
      BY <2>8, <2>9 DEF Greeting, Receives, Handshakes
    <3>2. Turn' /\ ~ Drop
      BY <1>2, <1>3, <2>1, <2>9, <3>1, GreetingInTurn
    <3> QED
      BY <1>6, <2>9, <3>2 DEF Greeting, Reply
  <2>10. CASE Credentials
    BY <1>2, <1>3, <1>6, <2>1, <2>8, <2>10, CredentialsInTurn DEF Credentials, Receives, Handshakes, Reply
  <2>11. CASE AwaitRequest
    BY <1>2, <1>3, <1>6, <2>1, <2>11, AwaitInTurn DEF AwaitRequest
  <2>12. CASE Grant
    BY <1>2, <1>3, <1>6, <2>1, <2>12, GrantInTurn DEF Grant, Reply
  <2>13. CASE CannotReceive \/ RefuseRequest \/ Unexpected
    <3>1. Uncut
      BY <2>8, <2>13 DEF CannotReceive, RefuseRequest, Unexpected, Receives, Handshakes
    <3> QED
      BY <1>2, <1>3, <2>1, <2>13, <3>1, NotDropped
  <2>14. CASE Endpoint
    BY <1>6, <2>14 DEF Endpoint, Completed, EndpointReadable, EndpointTakes, Forwarding
  <2>15. CASE ForwardToClient \/ AwaitEndpoint \/ NothingToForward
    BY <1>6, <2>15 DEF ForwardToClient, AwaitEndpoint, NothingToForward
  <2>16. CASE Visit
    BY <1>6, <2>4, <2>7, <2>9, <2>10, <2>11, <2>12, <2>13, <2>15, <2>16 DEF Visit
  <2> QED
    BY <1>6, <2>2, <2>3, <2>4, <2>5, <2>6, <2>14, <2>16 DEF Next, Sends, Over
<1> QED
  BY <1>4, <1>5, <1>6

LEMMA NextHolds == IInv /\ [Next]_vars => IInv'
<1> SUFFICES ASSUME IInv, [Next]_vars PROVE IInv'
  OBVIOUS
<1>1. TypeOK' /\ Fresh' /\ RepliesKept'
  BY TypeHolds, FreshHolds, KeptHolds DEF IInv
<1>2. GrantsWhatWasAsked' /\ TakesTurns' /\ DroppedForCause'
  BY GrantedHolds, TurnHolds
<1> QED
  BY <1>1, <1>2 DEF IInv

-----------------------------------------------------------------------------
(* Theorems *)

(* The invariant behind the others holds of every handshake.               *)
THEOREM Invariant == Spec => []IInv
<1>1. Init => IInv
  BY InitHolds
<1>2. IInv /\ [Next]_vars => IInv'
  BY NextHolds
<1> QED
  BY <1>1, <1>2, PTL DEF Spec

(* No client is sent anything but the replies, whole and in order, for any *)
(* input and any partial sends.                                            *)
THEOREM RepliesStayWhole == Spec => []RepliesKept
<1>1. IInv => RepliesKept
  BY DEF IInv
<1> QED
  BY <1>1, Invariant, PTL

(* A client that keeps to the protocol is connected where it asked to, in  *)
(* whatever pieces its request arrives.                                    *)
THEOREM ConnectsWhereAsked == Spec => []GrantsWhatWasAsked
<1>1. IInv => GrantsWhatWasAsked
  BY DEF IInv
<1> QED
  BY <1>1, Invariant, PTL

(* Such a client is not dropped by the handshake.                          *)
THEOREM NeverDropped == Spec => []DroppedForCause
<1>1. IInv => DroppedForCause
  BY DEF IInv
<1> QED
  BY <1>1, Invariant, PTL

=============================================================================
