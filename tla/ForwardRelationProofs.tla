----------------------- MODULE ForwardRelationProofs -----------------------
(***************************************************************************)
(* What holds of ForwardRelation for every size of the send buffers and    *)
(* of the reply, and however many bytes the peers send: bytes are passed   *)
(* on in order, and the loop ends a relation for a cause only.             *)
(***************************************************************************)
EXTENDS ForwardRelation, SequenceTheorems, TLAPS

LEMMA TwoSides ==
  ASSUME NEW s \in Side
  PROVE  Other(s) \in Side /\ Other(s) # s /\ Other(Other(s)) = s /\ s \in {"A", "B"}
         /\ \A t \in Side : t = s \/ t = Other(s)
BY DEF Side, Other

LEMMA InitHolds == Init => IInv
<1> SUFFICES ASSUME Init PROVE IInv
  OBVIOUS
<1> USE DEF Init
<1>1. TypeOK
  <2>1. <<>> \in Seq(Nat) /\ 0 \in 0 .. Capacity /\ 0 \in 0 .. MaxBytes /\ ReplyLen \in 0 .. ReplyLen
    BY SizesAssumption
  <2>2. level \in [Side -> {"PASS", "CONNECTING", "FORWARDING"}]
    OBVIOUS
  <2>3. events \in [Side -> SUBSET Poll] /\ revents \in [Side -> SUBSET (Poll \cup {"ERR"})]
    BY DEF Poll
  <2>4. peer \in [Side -> {"connecting", "open", "shut", "reset"}]
    OBVIOUS
  <2> QED
    BY <2>1, <2>2, <2>3, <2>4 DEF TypeOK
<1>2. BytesKept
  <2>1. <<>> \o <<>> = [i \in 1 .. 0 |-> i]
    OBVIOUS
  <2>2. \A s \in Side : got[Other(s)] = <<>> /\ inbuf[s] = <<>> /\ sent[s] = 0
    BY TwoSides
  <2> QED
    BY <2>1, <2>2 DEF BytesKept
<1>3. Connecting
  BY SizesAssumption DEF Connecting, Side
<1>4. ReportsHold
  BY TwoSides DEF ReportsHold, ToCome, Side
<1> QED
  BY <1>1, <1>2, <1>3, <1>4 DEF IInv, EndsForCause

-----------------------------------------------------------------------------
(* Bytes *)

(* A part of one sequence moves to the end of the other.                   *)
LEMMA MovedBytes ==
  ASSUME NEW g \in Seq(Nat), NEW b \in Seq(Nat), NEW k \in 1 .. Len(b)
  PROVE  /\ g \o SubSeq(b, 1, k) \in Seq(Nat) /\ SubSeq(b, k + 1, Len(b)) \in Seq(Nat)
         /\ (g \o SubSeq(b, 1, k)) \o SubSeq(b, k + 1, Len(b)) = g \o b
<1>1. SubSeq(b, 1, k) \in Seq(Nat) /\ SubSeq(b, k + 1, Len(b)) \in Seq(Nat)
  BY SubSeqProperties
<1>2. SubSeq(b, 1, k) \o SubSeq(b, k + 1, Len(b)) = SubSeq(b, 1, Len(b))
  BY ConcatAdjacentSubSeq
<1>3. SubSeq(b, 1, Len(b)) = b
  BY SubSeqFull
<1>4. (g \o SubSeq(b, 1, k)) \o SubSeq(b, k + 1, Len(b))
        = g \o (SubSeq(b, 1, k) \o SubSeq(b, k + 1, Len(b)))
  <2> DEFINE x == SubSeq(b, 1, k)
             y == SubSeq(b, k + 1, Len(b))
  <2>1. x \in Seq(Nat) /\ y \in Seq(Nat)
    BY <1>1
  <2> HIDE DEF x, y
  <2>2. (g \o x) \o y = g \o (x \o y)
    BY <2>1, SMT
  <2> QED
    BY <2>2 DEF x, y
<1>5. g \o SubSeq(b, 1, k) \in Seq(Nat)
  BY <1>1, ConcatProperties
<1> QED
  BY <1>1, <1>2, <1>3, <1>4, <1>5

(* A byte that arrives after two sequences arrives after the second one.   *)
LEMMA AppendedBytes ==
  ASSUME NEW g \in Seq(Nat), NEW b \in Seq(Nat), NEW n \in Nat
  PROVE  g \o Append(b, n) = Append(g \o b, n)
<1>1. <<n>> \in Seq(Nat) /\ g \o b \in Seq(Nat)
  BY ConcatProperties
<1>2. Append(b, n) = b \o <<n>>
  BY AppendIsConcat
<1>3. Append(g \o b, n) = (g \o b) \o <<n>>
  BY <1>1, AppendIsConcat
<1> QED
  BY <1>1, <1>2, <1>3, ConcatAssociative

LEMMA TransferKeeps ==
  ASSUME TypeOK, BytesKept, NEW s \in Side, NEW k \in 1 .. Len(inbuf[Other(s)]), k <= Room(s),
         Transfer(s, k, k)
  PROVE  /\ inbuf' \in [Side -> Seq(Nat)] /\ got' \in [Side -> Seq(Nat)]
         /\ pending' \in [Side -> 0 .. Capacity]
         /\ BytesKept'
<1> DEFINE o == Other(s)
<1>1. /\ o \in Side /\ o # s /\ inbuf[o] \in Seq(Nat) /\ got[s] \in Seq(Nat)
      /\ pending[s] \in 0 .. Capacity /\ Capacity \in Nat
  BY TwoSides, SizesAssumption DEF TypeOK
<1>2. /\ got' = [got EXCEPT ![s] = got[s] \o SubSeq(inbuf[o], 1, k)]
      /\ inbuf' = [inbuf EXCEPT ![o] = SubSeq(inbuf[o], k + 1, Len(inbuf[o]))]
      /\ pending' = [pending EXCEPT ![s] = pending[s] + k]
      /\ sent' = sent
  BY <1>1 DEF Transfer, TypeOK
<1>3. /\ inbuf'[o] \in Seq(Nat) /\ got'[s] \in Seq(Nat)
      /\ got'[s] \o inbuf'[o] = got[s] \o inbuf[o]
  BY <1>1, <1>2, MovedBytes DEF TypeOK
<1>4. inbuf' \in [Side -> Seq(Nat)] /\ got' \in [Side -> Seq(Nat)]
  BY <1>1, <1>2, <1>3 DEF TypeOK
<1>5. pending' \in [Side -> 0 .. Capacity]
  BY <1>1, <1>2 DEF TypeOK, Room
<1>6. BytesKept'
  <2> SUFFICES ASSUME NEW t \in Side
               PROVE  got'[Other(t)] \o inbuf'[t] = [i \in 1 .. sent[t] |-> i]
    BY <1>2 DEF BytesKept
  <2>1. CASE t = o
    BY <2>1, <1>1, <1>3, TwoSides DEF BytesKept
  <2>2. CASE t = s
    <3>1. got'[o] = got[o] /\ inbuf'[s] = inbuf[s]
      BY <1>1, <1>2 DEF TypeOK
    <3> QED
      BY <2>2, <3>1, <1>1, TwoSides DEF BytesKept
  <2> QED
    BY <2>1, <2>2, TwoSides
<1> QED
  BY <1>4, <1>5, <1>6

LEMMA ArrivalKeeps ==
  ASSUME TypeOK, BytesKept, NEW s \in Side, PeerSends(s)
  PROVE  TypeOK' /\ BytesKept'
<1>1. /\ inbuf[s] \in Seq(Nat) /\ got[Other(s)] \in Seq(Nat) /\ sent[s] \in Nat
      /\ sent[s] + 1 \in 0 .. MaxBytes /\ sent[s] + 1 \in Nat
  BY TwoSides, SizesAssumption DEF TypeOK, PeerSends
<1>2. /\ inbuf' = [inbuf EXCEPT ![s] = Append(inbuf[s], sent[s] + 1)]
      /\ sent' = [sent EXCEPT ![s] = sent[s] + 1]
      /\ got' = got
  BY DEF PeerSends
<1>3. Append(inbuf[s], sent[s] + 1) \in Seq(Nat)
  BY <1>1, AppendProperties
<1>4. TypeOK'
  BY <1>1, <1>2, <1>3 DEF TypeOK, PeerSends, Loop, streams
<1>5. BytesKept'
  <2> SUFFICES ASSUME NEW t \in Side
               PROVE  got[Other(t)] \o inbuf'[t] = [i \in 1 .. sent'[t] |-> i]
    BY <1>2 DEF BytesKept
  <2>1. CASE t = s
    <3> DEFINE g == got[Other(s)]
               b == inbuf[s]
               n == sent[s]
    <3>1. inbuf'[s] = Append(b, n + 1) /\ sent'[s] = n + 1
      BY <1>1, <1>2 DEF TypeOK
    <3>2. g \o b = [i \in 1 .. n |-> i]
      BY DEF BytesKept
    <3>3. g \o Append(b, n + 1) = Append(g \o b, n + 1)
      BY <1>1, AppendedBytes
    <3>4. Append([i \in 1 .. n |-> i], n + 1) = [i \in 1 .. n + 1 |-> i]
      <4> DEFINE q == [i \in 1 .. n |-> i]
                 r == [i \in 1 .. n + 1 |-> i]
      <4>1. q \in Seq(Nat) /\ r \in Seq(Nat) /\ Len(q) = n /\ Len(r) = n + 1
        BY <1>1
      <4>2. Append(q, n + 1) \in Seq(Nat) /\ Len(Append(q, n + 1)) = n + 1
        BY <4>1, <1>1, AppendProperties
      <4>3. \A i \in 1 .. n + 1 : Append(q, n + 1)[i] = r[i]
        BY <4>1, <1>1, AppendProperties
      <4> QED
        BY <4>1, <4>2, <4>3, SeqEqual
    <3> QED
      BY <2>1, <3>1, <3>2, <3>3, <3>4
  <2>2. CASE t # s
    BY <2>2, <1>2 DEF BytesKept, TypeOK
  <2> QED
    BY <2>1, <2>2
<1> QED
  BY <1>4, <1>5

-----------------------------------------------------------------------------
(* The peers and the network *)

(* What gives the loop cause to end a relation lasts. *)
LEMMA CauseStays == TypeOK /\ Next /\ Cause => Cause'
<1> SUFFICES ASSUME TypeOK, Next, NEW t \in Side, peer[t] \in {"shut", "reset"}, inbuf[t] = <<>>
             PROVE  peer'[t] \in {"shut", "reset"} /\ inbuf'[t] = <<>>
  BY DEF Cause
<1>1. CASE Connected \/ Watch \/ Idle \/ Restart \/ Evicted \/ Over
  BY <1>1 DEF Connected, Watch, Idle, Restart, Evicted, Over, TypeOK, sockets, vars
<1>2. ASSUME NEW s \in Side, PeerSends(s) \/ PeerEnds(s) \/ Drain(s)
      PROVE  peer'[t] \in {"shut", "reset"} /\ inbuf'[t] = <<>>
  BY <1>2 DEF PeerSends, PeerEnds, Drain, TypeOK
<1>3. ASSUME NEW s \in Side, Handle(s)
      PROVE  peer'[t] \in {"shut", "reset"} /\ inbuf'[t] = <<>>
  <2>1. CASE ForwardChunk(s)
    <3>1. inbuf[Other(s)] # <<>> /\ t # Other(s)
      BY <2>1 DEF ForwardChunk, CanForward
    <3> QED
      BY <3>1, <2>1 DEF ForwardChunk, Transfer, TypeOK
  <2>2. CASE ~ ForwardChunk(s)
    BY <1>3, <2>2 DEF Handle, PassOver, StreamError, AwaitWritable, ForwardFails, Flush,
              FlushFails, ConnectCompleted, Lost, Abandon, sockets
  <2> QED
    BY <2>1, <2>2
<1> QED
  BY <1>1, <1>2, <1>3 DEF Next

LEMMA DrainRoom ==
  ASSUME TypeOK, NEW s \in Side, Connected \/ PeerSends(s) \/ PeerEnds(s) \/ Drain(s)
  PROVE  /\ pending' \in [Side -> 0 .. Capacity]
         /\ \A t \in Side : Room(t) > 0 => Room(t)' > 0
<1>1. pending \in [Side -> 0 .. Capacity] /\ Capacity \in Nat
  BY SizesAssumption DEF TypeOK
<1>2. CASE Drain(s)
  <2>1. PICK n \in 0 .. pending[s] - 1 : pending' = [pending EXCEPT ![s] = n]
    BY <1>2 DEF Drain
  <2>2. pending[s] \in 0 .. Capacity /\ n \in 0 .. Capacity /\ n < pending[s]
    BY <1>1, <2>1
  <2>3. \A t \in Side : pending'[t] \in 0 .. Capacity /\ pending[t] \in 0 .. Capacity
                         /\ pending'[t] <= pending[t]
    BY <1>1, <2>1, <2>2
  <2>4. pending' \in [Side -> 0 .. Capacity]
    BY <1>1, <2>1, <2>2
  <2> QED
    BY <1>1, <2>3, <2>4 DEF Room
<1>3. CASE ~ Drain(s)
  <2>1. pending' = pending
    BY <1>3 DEF Connected, PeerSends, PeerEnds
  <2> QED
    BY <2>1, <1>1 DEF Room
<1> QED
  BY <1>2, <1>3

(* What the peers do leaves the streams alone, and takes no readiness away *)
(* that the loop relies on.                                                *)
LEMMA PeersKeep ==
  ASSUME IInv, NEW s \in Side, Connected \/ PeerSends(s) \/ PeerEnds(s) \/ Drain(s)
  PROVE  IInv'
<1>1. TypeOK /\ BytesKept /\ On /\ On' /\ UNCHANGED <<pc, ended, again, level, events, revents, queue>>
  BY DEF IInv, Connected, PeerSends, PeerEnds, Drain, Loop, streams, On
<1>2. TypeOK' /\ BytesKept'
  <2>1. CASE PeerSends(s)
    BY <2>1, <1>1, ArrivalKeeps
  <2>2. CASE Connected \/ PeerEnds(s) \/ Drain(s)
    <3>1. peer' \in [Side -> {"connecting", "open", "shut", "reset"}]
      BY <2>2, <1>1 DEF Connected, PeerEnds, Drain, TypeOK
    <3>2. pending' \in [Side -> 0 .. Capacity]
      BY <1>1, DrainRoom DEF TypeOK
    <3>3. UNCHANGED <<inbuf, sent, got>>
      BY <2>2 DEF Connected, PeerEnds, Drain
    <3> QED
      BY <3>1, <3>2, <3>3, <1>1 DEF TypeOK, BytesKept
  <2> QED
    BY <2>1, <2>2
<1>3. EndsForCause'
  BY <1>1 DEF EndsForCause, On
<1>4. \A t \in Side : (inbuf[t] # <<>> => inbuf'[t] # <<>>) /\ (Room(t) > 0 => Room(t)' > 0)
  <2> TAKE t \in Side
  <2>1. inbuf[t] # <<>> => inbuf'[t] # <<>>
    <3>1. CASE PeerSends(s) /\ t = s
      <4>1. inbuf'[s] = Append(inbuf[s], sent[s] + 1) /\ inbuf[s] \in Seq(Nat) /\ sent[s] + 1 \in Nat
        BY <3>1, <1>1, SizesAssumption DEF PeerSends, TypeOK
      <4> QED
        BY <4>1, <3>1, AppendProperties
    <3>2. CASE ~ (PeerSends(s) /\ t = s)
      BY <3>2, <1>1 DEF PeerSends, Connected, PeerEnds, Drain, TypeOK
    <3> QED
      BY <3>1, <3>2
  <2> QED
    BY <2>1, <1>1, DrainRoom
<1>5. Undisturbed' => Undisturbed
  BY <1>1, CauseStays DEF Undisturbed, Next, On
<1>6. Undisturbed' => (Connecting' \/ (Forwarding' /\ HandedOver')) /\ ReportsHold'
  <2> SUFFICES ASSUME Undisturbed
               PROVE  (Connecting' \/ (Forwarding' /\ HandedOver')) /\ ReportsHold'
    BY <1>5
  <2>1. (Connecting => Connecting') /\ (Forwarding <=> Forwarding')
    BY <1>1 DEF Connecting, Forwarding
  <2>2. HandedOver => HandedOver'
    BY <1>1, <1>4, TwoSides DEF HandedOver
  <2>3. ReportsHold => ReportsHold'
    BY <1>1, <1>4, <2>1, TwoSides DEF ReportsHold, ToCome
  <2> QED
    BY <2>1, <2>2, <2>3 DEF IInv
<1> QED
  BY <1>2, <1>3, <1>6 DEF IInv

-----------------------------------------------------------------------------
(* The loop between two streams *)

LEMMA LoopKeeps ==
  ASSUME IInv, Watch \/ Idle \/ Restart \/ Evicted \/ Over
  PROVE  IInv'
<1>1. TypeOK /\ BytesKept /\ EndsForCause
  BY DEF IInv
<1>2. UNCHANGED <<sockets, level, events, queue>>
  BY DEF Watch, Idle, Restart, Evicted, Over, streams, vars
<1>3. BytesKept' /\ (Cause <=> Cause')
  BY <1>1, <1>2 DEF BytesKept, Cause, sockets
<1>4. CASE Watch
  <2>1. /\ pc' = "B" /\ On /\ UNCHANGED <<ended, again>>
        /\ revents' = [s \in Side |-> Reports(s)]
    BY <1>4 DEF Watch
  <2>2. TypeOK'
    BY <1>1, <1>2, <2>1 DEF TypeOK, sockets, Reports, Ready
  <2>3. EndsForCause'
    BY <2>1 DEF EndsForCause, On
  <2>4. ASSUME Undisturbed'
        PROVE  (Connecting' \/ (Forwarding' /\ HandedOver')) /\ ReportsHold'
    <3>1. Undisturbed /\ ~ Cause
      BY <2>1, <2>4, <1>3 DEF Undisturbed, On
    <3>2. /\ Connecting \/ (Forwarding /\ HandedOver)
          /\ Connecting' \/ (Forwarding' /\ HandedOver')
          /\ Forwarding <=> Forwarding'
      BY <3>1, <1>2 DEF IInv, Connecting, Forwarding, HandedOver, sockets
    <3>3. \A s \in Side : /\ revents'[s] \subseteq events[s] \cup {"ERR"}
                          /\ "OUT" \in revents'[s] => Room(s) > 0
                          /\ "IN" \in revents'[s] => inbuf[s] # <<>>
      BY <2>1, <3>1 DEF Reports, Ready, Cause
    <3>4. \A s \in Side : Room(s)' = Room(s) /\ inbuf'[s] = inbuf[s]
      BY <1>2 DEF Room, sockets
    <3>5. CASE Connecting
      <4>1. ~ Forwarding' /\ events["A"] \subseteq {"OUT"} /\ ("OUT" \in events["A"] => queue > 0)
        BY <3>5, <3>2 DEF Connecting, Forwarding, Side
      <4> QED
        BY <4>1, <3>2, <3>3, <3>4, <1>2 DEF ReportsHold, Side
    <3>6. CASE Forwarding /\ HandedOver
      <4> SUFFICES ASSUME NEW s \in Side
                   PROVE  /\ "IN" \in revents'[s] => "OUT" \notin revents'[Other(s)]
                          /\ "OUT" \in revents'[s] => inbuf[Other(s)] # <<>>
        BY <3>2, <3>3, <3>4, <3>6, TwoSides DEF ReportsHold
      <4> QED
        BY <3>3, <3>6, TwoSides DEF HandedOver
    <3> QED
      BY <3>2, <3>5, <3>6
  <2> QED
    BY <1>3, <2>2, <2>3, <2>4 DEF IInv
<1>5. CASE Idle \/ Restart \/ Evicted
  <2>1. TypeOK'
    BY <1>1, <1>2, <1>5 DEF TypeOK, Idle, Restart, Evicted, streams, sockets
  <2>2. EndsForCause' /\ ~ Undisturbed'
    BY <1>5 DEF EndsForCause, Undisturbed, On, Idle, Restart, Evicted
  <2> QED
    BY <1>3, <2>1, <2>2 DEF IInv
<1>6. CASE Over
  <2>1. UNCHANGED <<pc, ended, again, revents>>
    BY <1>6 DEF Over, vars, streams
  <2>2. TypeOK'
    BY <1>1, <1>2, <2>1 DEF TypeOK, sockets
  <2>3. EndsForCause' /\ ~ Undisturbed'
    BY <1>1, <1>3, <1>6, <2>1 DEF EndsForCause, Undisturbed, On, Over
  <2> QED
    BY <1>3, <2>2, <2>3 DEF IInv
<1> QED
  BY <1>4, <1>5, <1>6

-----------------------------------------------------------------------------
(* The handlers *)

(* The walk goes on to a stream that was to come.                          *)
LEMMA WalkGoesOn ==
  ASSUME TypeOK, NEW s \in Side, pc = s, Proceed
  PROVE  /\ pc' \in {"A", "rest"} /\ again' = again
         /\ \A t \in Side : ToCome(t)' => ToCome(t) /\ t = Other(s)
BY TwoSides DEF Proceed, ToCome, Side, Other

LEMMA PassOverKeeps ==
  ASSUME IInv, NEW s \in Side, PassOver(s)
  PROVE  IInv'
<1>1. pc = s /\ On /\ Proceed /\ UNCHANGED <<ended, streams, sockets>>
  BY DEF PassOver
<1>2. UNCHANGED <<ended, again, level, events, revents, queue, peer, inbuf, sent, got, pending>>
  BY <1>1, WalkGoesOn DEF IInv, streams, sockets
<1>3. TypeOK' /\ BytesKept' /\ EndsForCause'
  BY <1>1, <1>2, WalkGoesOn DEF IInv, TypeOK, BytesKept, EndsForCause, Cause
<1>4. ASSUME Undisturbed'
      PROVE  (Connecting' \/ (Forwarding' /\ HandedOver')) /\ ReportsHold'
  <2>1. Undisturbed
    BY <1>2, <1>4 DEF Undisturbed, On, Cause
  <2>2. Connecting' \/ (Forwarding' /\ HandedOver')
    BY <1>2, <2>1 DEF IInv, Connecting, Forwarding, HandedOver
  <2>3. ReportsHold /\ \A t \in Side : ToCome(t)' => ToCome(t)
    BY <1>1, <2>1, WalkGoesOn DEF IInv
  <2>4. ReportsHold'
    BY <1>2, <2>3, TwoSides DEF ReportsHold, Forwarding, Room
  <2> QED
    BY <2>2, <2>4
<1> QED
  BY <1>3, <1>4 DEF IInv

(* What a handler finds, if nothing has disturbed the relation: room, and  *)
(* bytes or the reply to send, whenever it was told that it may send.      *)
LEMMA Found ==
  ASSUME IInv, Undisturbed, NEW s \in Side, Handles(s), "OUT" \in revents[s]
  PROVE  /\ Room(s) > 0
         /\ Forwarding => \/ inbuf[Other(s)] # <<>>
                          \/ s = "A" /\ queue > 0 /\ "OUT" \notin events["B"]
         /\ ~ Forwarding /\ s = "A" => queue > 0
BY TwoSides DEF IInv, ReportsHold, ToCome, Handles

(* No relation is lost without a cause.                                    *)
LEMMA LostForCause ==
  ASSUME IInv, NEW s \in Side, Lost(s), ~ again
  PROVE  Cause
<1> SUFFICES ASSUME ~ Cause PROVE FALSE
  OBVIOUS
<1>1. Undisturbed /\ Handles(s) /\ On /\ pc = s /\ revents[s] # {} /\ "ERR" \notin revents[s]
  BY DEF Undisturbed, Lost, NotForwarded, Handles
<1>2. revents[s] \subseteq {"IN", "OUT", "ERR"}
  BY DEF IInv, TypeOK, Poll
<1>3. Connecting \/ (Forwarding /\ HandedOver)
  BY <1>1 DEF IInv
<1>4. CASE Forwarding
  <2>1. "OUT" \in revents[s] /\ ~ CanForward(s)
    BY <1>4 DEF Lost, NotForwarded, Forwarding
  <2>2. inbuf[Other(s)] = <<>> /\ s = "A" /\ queue > 0
    BY <1>1, <1>4, <2>1, Found DEF CanForward
  <2> QED
    BY <2>1, <2>2 DEF Lost, Flushes
<1>5. CASE Connecting /\ ~ Forwarding
  <2>1. s = "A"
    BY <1>5, TwoSides DEF Lost, Completes, Connecting
  <2>2. revents[s] \subseteq {"OUT", "ERR"}
    BY <1>1, <1>5, <2>1 DEF IInv, ReportsHold, ToCome
  <2>3. "OUT" \in revents[s] /\ queue > 0
    BY <1>1, <1>5, <2>1, <2>2, Found
  <2> QED
    BY <2>1, <2>3 DEF Lost, Flushes
<1> QED
  BY <1>3, <1>4, <1>5

LEMMA AbandonKeeps ==
  ASSUME IInv, NEW s \in Side,
         StreamError(s) \/ ForwardFails(s) \/ FlushFails(s) \/ Lost(s)
  PROVE  IInv'
<1>1. pc = s /\ On /\ \E why \in {"failed", "lost"} : Abandon(why)
  BY DEF StreamError, ForwardFails, FlushFails, Lost, ForwardsTo, NotForwarded, Flushes, Handles
<1>2. /\ ended' \in {"failed", "lost"} /\ again' = again /\ pc' \in {"A", "rest"}
      /\ UNCHANGED <<level, events, revents, queue, peer, inbuf, sent, got, pending>>
  BY <1>1, WalkGoesOn DEF IInv, Abandon, streams, sockets
<1>3. TypeOK' /\ BytesKept' /\ ~ Undisturbed'
  BY <1>2 DEF IInv, TypeOK, BytesKept, Undisturbed, On
<1>4. EndsForCause'
  <2>1. CASE Lost(s)
    BY <2>1, <1>2, LostForCause DEF EndsForCause, Cause
  <2>2. CASE ~ Lost(s)
    BY <2>2 DEF StreamError, ForwardFails, FlushFails, Abandon, EndsForCause
  <2> QED
    BY <2>1, <2>2
<1> QED
  BY <1>3, <1>4 DEF IInv

(* A chunk is taken where no one else relies on it: the stream it is taken *)
(* from was not told that it may read.                                     *)
LEMMA ForwardKeeps ==
  ASSUME IInv, NEW s \in Side, ForwardChunk(s)
  PROVE  IInv'
<1> DEFINE o == Other(s)
<1>1. /\ pc = s /\ On /\ level[s] = "FORWARDING" /\ "OUT" \in revents[s] /\ Handles(s)
      /\ TypeOK /\ BytesKept /\ o \in Side /\ o # s /\ Other(o) = s
      /\ \A t \in Side : t = s \/ t = o
  BY TwoSides DEF ForwardChunk, ForwardsTo, Handles, IInv
<1>2. PICK k \in 1 .. Len(inbuf[o]) : k <= Room(s) /\ Transfer(s, k, k)
  BY DEF ForwardChunk
<1>3. /\ pc' \in {"A", "rest"} /\ again' = again
      /\ \A t \in Side : ToCome(t)' => ToCome(t) /\ t = o
  BY <1>1, WalkGoesOn DEF ForwardChunk
<1>4. /\ events' = [events EXCEPT ![s] = @ \ {"OUT"}, ![o] = @ \cup {"IN"}]
      /\ UNCHANGED <<ended, level, revents, queue, peer, sent>>
  BY <1>2 DEF ForwardChunk, Transfer
<1>5. events' \in [Side -> SUBSET Poll]
  BY <1>1, <1>4 DEF TypeOK, Poll
<1>6. TypeOK' /\ BytesKept'
  <2>1. inbuf' \in [Side -> Seq(Nat)] /\ got' \in [Side -> Seq(Nat)]
        /\ pending' \in [Side -> 0 .. Capacity] /\ BytesKept'
    BY <1>1, <1>2, TransferKeeps
  <2> QED
    BY <2>1, <1>1, <1>3, <1>4, <1>5 DEF TypeOK
<1>7. EndsForCause'
  BY <1>1, <1>4 DEF EndsForCause, On
<1>8. ASSUME Undisturbed'
      PROVE  (Connecting' \/ (Forwarding' /\ HandedOver')) /\ ReportsHold'
  <2>1. Undisturbed
    <3>1. Next
      BY DEF Next, Handle
    <3> QED
      BY <1>1, <1>3, <1>8, <3>1, CauseStays DEF Undisturbed
  <2>2. Forwarding /\ HandedOver /\ ReportsHold
    BY <2>1, <1>1, TwoSides DEF IInv, Connecting, Side
  <2>3. Forwarding' /\ inbuf'[s] = inbuf[s] /\ pending'[o] = pending[o]
    BY <2>2, <1>1, <1>2, <1>4 DEF Forwarding, Transfer, TypeOK
  <2>4. HandedOver'
    <3>1. "OUT" \notin events'[s] /\ ("OUT" \in events'[o] => "OUT" \in events[o])
          /\ ("IN" \in events'[s] => "IN" \in events[s])
      BY <1>1, <1>4 DEF TypeOK
    <3> QED
      BY <3>1, <2>2, <2>3, <1>1 DEF HandedOver
  <2>5. ReportsHold'
    <3> SUFFICES ASSUME ToCome(o)'
                 PROVE  /\ "OUT" \in revents[o] => Room(o)' > 0
                        /\ "OUT" \in revents[o] => \/ inbuf'[s] # <<>>
                                                   \/ o = "A" /\ queue > 0 /\ "OUT" \notin events'["B"]
                        /\ "IN" \in revents[o] => inbuf'[o] # <<>>
      BY <1>1, <1>3, <1>4, <2>3 DEF ReportsHold
    <3>1. ToCome(o) /\ ToCome(s) /\ o = "A"
      BY <1>1, <1>3, TwoSides DEF ToCome
    <3>2. "IN" \notin revents[o]
      BY <3>1, <2>2, <1>1 DEF ReportsHold
    <3>3. /\ "OUT" \in revents[o] => Room(o) > 0
          /\ "OUT" \in revents[o] => \/ inbuf[s] # <<>>
                                     \/ o = "A" /\ queue > 0 /\ "OUT" \notin events["B"]
      BY <3>1, <2>2, <1>1 DEF ReportsHold
    <3>4. s = "B" /\ "OUT" \notin events'["B"]
      BY <3>1, <1>1, <1>4, TwoSides DEF TypeOK
    <3> QED
      BY <3>2, <3>3, <3>4, <2>3 DEF Room
  <2> QED
    BY <2>3, <2>4, <2>5
<1> QED
  BY <1>6, <1>7, <1>8 DEF IInv

(* The wish to read becomes the neighbour's wish to write.                 *)
LEMMA AwaitKeeps ==
  ASSUME IInv, NEW s \in Side, AwaitWritable(s)
  PROVE  IInv'
<1> DEFINE o == Other(s)
<1>1. /\ pc = s /\ On /\ level[s] = "FORWARDING" /\ "OUT" \notin revents[s] /\ revents[s] # {}
      /\ "ERR" \notin revents[s]
      /\ TypeOK /\ o \in Side /\ o # s /\ Other(o) = s
      /\ \A t \in Side : t = s \/ t = o
  BY TwoSides DEF AwaitWritable, Handles, IInv
<1>2. /\ pc' \in {"A", "rest"} /\ again' = again
      /\ \A t \in Side : ToCome(t)' => ToCome(t) /\ t = o
  BY <1>1, WalkGoesOn DEF AwaitWritable
<1>3. /\ events' = [events EXCEPT ![s] = @ \ {"IN"}, ![o] = @ \cup {"OUT"}]
      /\ UNCHANGED <<ended, level, revents, queue, peer, inbuf, sent, got, pending>>
  BY DEF AwaitWritable, sockets
<1>4. TypeOK' /\ BytesKept' /\ EndsForCause'
  <2>1. events' \in [Side -> SUBSET Poll]
    BY <1>1, <1>3 DEF TypeOK, Poll
  <2> QED
    BY <2>1, <1>1, <1>2, <1>3 DEF IInv, TypeOK, BytesKept, EndsForCause, Cause
<1>5. ASSUME Undisturbed'
      PROVE  (Connecting' \/ (Forwarding' /\ HandedOver')) /\ ReportsHold'
  <2>1. Undisturbed
    BY <1>2, <1>3, <1>5 DEF Undisturbed, On, Cause
  <2>2. Forwarding /\ HandedOver /\ ReportsHold
    BY <2>1, <1>1, TwoSides DEF IInv, Connecting, Side
  <2>3. "IN" \in revents[s] /\ inbuf[s] # <<>>
    <3>1. revents[s] \subseteq {"IN", "OUT", "ERR"}
      BY <1>1 DEF TypeOK, Poll
    <3> QED
      BY <3>1, <2>2, <1>1 DEF ReportsHold, ToCome
  <2>4. HandedOver'
    <3>1. "IN" \notin events'[s] /\ ("OUT" \in events'[s] => "OUT" \in events[s])
          /\ ("IN" \in events'[o] => "IN" \in events[o])
      BY <1>1, <1>3 DEF TypeOK
    <3> QED
      BY <3>1, <2>2, <2>3, <1>1, <1>3 DEF HandedOver
  <2>5. ReportsHold'
    <3> SUFFICES ASSUME ToCome(o)'
                 PROVE  /\ "OUT" \in revents[o] => Room(o) > 0 /\ inbuf[s] # <<>>
                        /\ "IN" \in revents[o] => inbuf[o] # <<>>
      BY <1>1, <1>2, <1>3, <2>2 DEF ReportsHold, Forwarding, Room
    <3> QED
      BY <1>1, <1>2, <2>2, <2>3 DEF ReportsHold
  <2> QED
    BY <1>3, <2>2, <2>4, <2>5 DEF Forwarding
<1> QED
  BY <1>4, <1>5 DEF IInv

(* The reply is sent late only while the neighbour does not wait to write. *)
LEMMA FlushKeeps ==
  ASSUME IInv, NEW s \in Side, Flush(s)
  PROVE  IInv'
<1>1. /\ pc = s /\ s = "A" /\ On /\ queue > 0 /\ "OUT" \in revents[s] /\ Handles(s)
      /\ (level[s] = "FORWARDING" => ~ CanForward(s))
      /\ TypeOK /\ Other(s) = "B" /\ Other("B") = "A"
  BY DEF Flush, Flushes, NotForwarded, Handles, IInv, Other
<1>2. PICK k \in 1 .. queue : k <= Room(s) /\ queue' = queue - k
                              /\ pending' = [pending EXCEPT ![s] = @ + k]
  BY DEF Flush
<1>3. /\ queue \in 0 .. ReplyLen /\ ReplyLen \in Nat /\ Capacity \in Nat
      /\ pending \in [Side -> 0 .. Capacity]
  BY <1>1, SizesAssumption DEF TypeOK
<1>4. queue' \in 0 .. ReplyLen /\ pending' \in [Side -> 0 .. Capacity]
  BY <1>2, <1>3 DEF Room
<1>5. /\ events' = IF queue' > 0 THEN events
                   ELSE [events EXCEPT !["A"] = IF level["A"] = "PASS" THEN {} ELSE {"IN"}]
      /\ UNCHANGED <<ended, level, revents, peer, inbuf, sent, got>>
      /\ pc' = "rest" /\ again' = again
  BY <1>1 DEF Flush, Proceed
<1>6. TypeOK' /\ BytesKept' /\ EndsForCause'
  <2>1. events' \in [Side -> SUBSET Poll]
    BY <1>1, <1>5 DEF TypeOK, Poll
  <2> QED
    BY <2>1, <1>1, <1>4, <1>5 DEF IInv, TypeOK, BytesKept, EndsForCause, Cause
<1>7. ASSUME Undisturbed'
      PROVE  (Connecting' \/ (Forwarding' /\ HandedOver')) /\ ReportsHold'
  <2>1. Undisturbed
    BY <1>5, <1>7 DEF Undisturbed, On, Cause
  <2>2. ReportsHold'
    BY <1>5 DEF ReportsHold, ToCome, Side
  <2>3. CASE Connecting
    <3>1. queue' \in Nat /\ level["A"] = "PASS" /\ events["A"] = {"OUT"} /\ events \in [Side -> SUBSET Poll]
      BY <2>3, <1>1, <1>4 DEF Connecting, Side, TypeOK
    <3>2. Connecting'
      BY <2>3, <3>1, <1>5, <1>1 DEF Connecting, Side
    <3> QED
      BY <2>2, <3>2
  <2>4. CASE Forwarding /\ HandedOver
    <3>1. inbuf["B"] = <<>> /\ "OUT" \notin events["B"]
      BY <1>1, <2>1, <2>4, Found DEF CanForward, Forwarding
    <3>2. "OUT" \notin events["A"]
      BY <3>1, <2>4, <1>1 DEF HandedOver
    <3>3. HandedOver'
      BY <3>1, <3>2, <1>5, <1>1 DEF HandedOver, TypeOK, Side
    <3> QED
      BY <2>2, <3>3, <2>4, <1>5 DEF Forwarding
  <2> QED
    BY <2>1, <2>3, <2>4 DEF IInv
<1> QED
  BY <1>6, <1>7 DEF IInv

(* What was reported to the client before the endpoint had connected is    *)
(* that it may send its reply.                                             *)
LEMMA CompletedKeeps ==
  ASSUME IInv, NEW s \in Side, ConnectCompleted(s)
  PROVE  IInv'
<1>1. pc = s /\ s = "B" /\ On /\ level[s] = "CONNECTING" /\ TypeOK
  BY DEF ConnectCompleted, Completes, NotForwarded, Handles, IInv
<1>2. /\ level' = [t \in Side |-> "FORWARDING"] /\ events' = [t \in Side |-> {"IN"}]
      /\ UNCHANGED <<ended, revents, queue, peer, inbuf, sent, got, pending>>
      /\ pc' = "A" /\ again' = again
  BY <1>1 DEF ConnectCompleted, Proceed, sockets
<1>3. TypeOK' /\ BytesKept' /\ EndsForCause'
  BY <1>1, <1>2 DEF IInv, TypeOK, BytesKept, EndsForCause, Cause, Poll
<1>4. ASSUME Undisturbed'
      PROVE  (Connecting' \/ (Forwarding' /\ HandedOver')) /\ ReportsHold'
  <2>1. Undisturbed
    BY <1>2, <1>4 DEF Undisturbed, On, Cause
  <2>2. Forwarding' /\ HandedOver'
    BY <1>2 DEF Forwarding, HandedOver
  <2>3. ~ Forwarding /\ ReportsHold /\ ToCome("A")
    BY <1>1, <2>1 DEF IInv, Forwarding, ToCome, Side
  <2>4. /\ "OUT" \in revents["A"] => Room("A") > 0 /\ queue > 0
        /\ revents["A"] \subseteq {"OUT", "ERR"}
    BY <2>3 DEF ReportsHold, Side
  <2>5. ReportsHold'
    <3>1. \A t \in Side : ToCome(t)' => t = "A"
      BY <1>2 DEF ToCome
    <3>2. "OUT" \notin events'["B"] /\ Room("A")' = Room("A")
      BY <1>2 DEF Room, Side
    <3> QED
      BY <3>1, <3>2, <2>2, <2>4, <1>2 DEF ReportsHold
  <2> QED
    BY <2>2, <2>5
<1> QED
  BY <1>3, <1>4 DEF IInv

LEMMA NextHolds == IInv /\ [Next]_vars => IInv'
<1> SUFFICES ASSUME IInv, [Next]_vars PROVE IInv'
  OBVIOUS
<1>1. CASE UNCHANGED vars
  <2>1. UNCHANGED <<pc, ended, again, level, events, revents, queue, peer, inbuf, sent, got,
                    pending>>
    BY <1>1 DEF vars, streams, sockets
  <2>2. TypeOK' /\ BytesKept' /\ EndsForCause' /\ (Undisturbed' <=> Undisturbed)
    BY <2>1 DEF IInv, TypeOK, BytesKept, EndsForCause, Undisturbed, On, Cause
  <2>3. (Connecting' <=> Connecting) /\ (Forwarding' <=> Forwarding) /\ (HandedOver' <=> HandedOver)
    BY <2>1 DEF Connecting, Forwarding, HandedOver
  <2>4. ReportsHold => ReportsHold'
    BY <2>1, <2>3 DEF ReportsHold, ToCome, Room
  <2> QED
    BY <2>2, <2>3, <2>4 DEF IInv
<1>2. ASSUME NEW s \in Side, Handle(s)
      PROVE  IInv'
  BY <1>2, PassOverKeeps, AbandonKeeps, ForwardKeeps, AwaitKeeps, FlushKeeps, CompletedKeeps
     DEF Handle
<1>3. CASE Connected
  BY <1>3, PeersKeep DEF Side
<1> QED
  BY <1>1, <1>2, <1>3, PeersKeep, LoopKeeps DEF Next

-----------------------------------------------------------------------------
(* The theorems *)

(* The inductive invariant. *)
THEOREM Invariant == Spec => []IInv
BY InitHolds, NextHolds, PTL DEF Spec

(* In both directions, bytes are passed on once each and in order, and     *)
(* those that were not passed on still wait for it.                        *)
THEOREM KeepsBytes == Spec => []BytesKept
<1>1. IInv => BytesKept
  BY DEF IInv
<1> QED
  BY <1>1, Invariant, PTL

(* Without failures, and unless a walk was sent back to the head, a        *)
(* relation is lost only when a peer has ended and its bytes were passed   *)
(* on.                                                                     *)
THEOREM EndsOnlyForCause == Spec => []EndsForCause
<1>1. IInv => EndsForCause
  BY DEF IInv
<1> QED
  BY <1>1, Invariant, PTL

=============================================================================
