----------------------------- MODULE DnsProofs ------------------------------
(***************************************************************************)
(* What holds of the parts of dns.c for any limit, any messages and names, *)
(* any packets and hostnames: the queries of a resolution, its open calls  *)
(* and its waiting are bounded, and what it returns is an address of the   *)
(* host; hostnames are written, and the records and names of packets are   *)
(* read, as their format says.                                             *)
(***************************************************************************)
EXTENDS MCDns, WellFoundedInduction, SequenceTheorems, TLAPS

(* Numbers *)

(* A non-empty set of natural numbers has a least element. *)
LEMMA LeastNumber ==
  ASSUME NEW S \in SUBSET Nat, S # {}
  PROVE  \E m \in S : \A n \in S : m <= n
<1>1. PICK m \in S : \A n \in S : ~ (<<n, m>> \in OpToRel(<, Nat))
  BY NatLessThanWellFounded, WFMin
<1>2. ASSUME NEW n \in S PROVE m <= n
  <2>1. ~ (<<n, m>> \in OpToRel(<, Nat))
    BY <1>1
  <2>2. ~ (n < m)
    BY <2>1 DEF OpToRel
  <2> QED
    BY <2>2
<1> QED
  BY <1>2

(* Induction, on the set of the numbers for which something holds. *)
LEMMA Induction ==
  ASSUME NEW P \in SUBSET Nat, 0 \in P, \A n \in P : n + 1 \in P
  PROVE  P = Nat
<1>1. ASSUME Nat \ P # {} PROVE FALSE
  <2>1. PICK m \in Nat \ P : \A n \in Nat \ P : m <= n
    BY <1>1, LeastNumber
  <2>2. m # 0 /\ m - 1 \in Nat /\ ~ (m <= m - 1) /\ (m - 1) + 1 = m
    BY <2>1
  <2>3. m - 1 \in P
    BY <2>1, <2>2
  <2> QED
    BY <2>1, <2>2, <2>3
<1> QED
  BY <1>1

(* A function is defined on all numbers by its value for 0 and a step.     *)
LEMMA Recursion ==
  ASSUME NEW S, NEW c \in S, NEW G \in [S -> S]
  PROVE  \E h \in [Nat -> S] : h[0] = c /\ \A n \in Nat : h[n + 1] = G[h[n]]
<1> DEFINE Approx(n) == {g \in [0 .. n -> S] : g[0] = c /\ \A i \in 1 .. n : g[i] = G[g[i - 1]]}
<1>1. \A n \in Nat : Approx(n) # {}
  <2> DEFINE P == {n \in Nat : Approx(n) # {}}
  <2>1. 0 \in P
    <3>1. [i \in 0 .. 0 |-> c] \in Approx(0)
      OBVIOUS
    <3> QED
      BY <3>1
  <2>2. ASSUME NEW n \in P PROVE n + 1 \in P
    <3>1. n \in Nat
      OBVIOUS
    <3>2. PICK g : g \in Approx(n)
      OBVIOUS
    <3> DEFINE e == [i \in 0 .. n + 1 |-> IF i <= n THEN g[i] ELSE G[g[n]]]
    <3>3. g \in [0 .. n -> S] /\ g[0] = c /\ \A i \in 1 .. n : g[i] = G[g[i - 1]]
      BY <3>2
    <3>4. g[n] \in S /\ G[g[n]] \in S
      BY <3>1, <3>3
    <3>5. e \in [0 .. n + 1 -> S] /\ e[0] = c
      BY <3>1, <3>3, <3>4
    <3>6. ASSUME NEW i \in 1 .. n + 1 PROVE e[i] = G[e[i - 1]]
      <4>1. CASE i <= n
        BY <3>1, <3>3, <4>1
      <4>2. CASE i = n + 1
        <5>1. e[n + 1] = G[g[n]] /\ e[n] = g[n] /\ i - 1 = n
          BY <3>1, <4>2
        <5> QED
          BY <4>2, <5>1
      <4> QED
        BY <3>1, <4>1, <4>2
    <3>7. e \in Approx(n + 1)
      BY <3>5, <3>6
    <3> QED
      BY <3>1, <3>7
  <2> HIDE DEF P
  <2>3. P = Nat
    <3>1. P \in SUBSET Nat
      BY DEF P
    <3> QED
      BY ONLY <2>1, <2>2, <3>1, Induction
  <2> QED
    BY <2>3 DEF P
<1>2. ASSUME NEW m \in Nat, NEW n \in Nat, NEW g \in Approx(m), NEW h \in Approx(n)
      PROVE  \A i \in Nat : i <= m /\ i <= n => g[i] = h[i]
  <2> DEFINE P == {i \in Nat : i <= m /\ i <= n => g[i] = h[i]}
  <2>1. /\ g[0] = c /\ \A i \in 1 .. m : g[i] = G[g[i - 1]]
        /\ h[0] = c /\ \A i \in 1 .. n : h[i] = G[h[i - 1]]
    OBVIOUS
  <2>2. 0 \in P
    BY <2>1
  <2>3. ASSUME NEW i \in P PROVE i + 1 \in P
    <3>1. i \in Nat
      OBVIOUS
    <3>2. CASE i + 1 <= m /\ i + 1 <= n
      <4>1. i + 1 \in 1 .. m /\ i + 1 \in 1 .. n /\ i + 1 - 1 = i
        BY <3>1, <3>2
      <4>2. g[i + 1] = G[g[i]] /\ h[i + 1] = G[h[i]]
        BY <2>1, <4>1
      <4>3. g[i] = h[i]
        BY <3>1, <3>2
      <4> QED
        BY <3>1, <4>2, <4>3
    <3> QED
      BY <3>1, <3>2
  <2> HIDE DEF P
  <2>4. P = Nat
    <3>1. P \in SUBSET Nat
      BY DEF P
    <3> QED
      BY ONLY <2>2, <2>3, <3>1, Induction
  <2> QED
    BY <2>4 DEF P
<1> DEFINE v(n) == (CHOOSE g : g \in Approx(n))
           h == [n \in Nat |-> v(n)[n]]
<1>3. ASSUME NEW n \in Nat PROVE v(n) \in Approx(n)
  BY <1>1
<1>4. ASSUME NEW n \in Nat
      PROVE  /\ v(n) \in [0 .. n -> S] /\ v(n)[0] = c
             /\ \A i \in 1 .. n : v(n)[i] = G[v(n)[i - 1]]
  BY <1>3
<1> HIDE DEF v, Approx
<1>5. h \in [Nat -> S]
  <2>1. ASSUME NEW n \in Nat PROVE v(n)[n] \in S
    BY <1>4
  <2> QED
    BY <2>1
<1>6. h[0] = c
  BY <1>4
<1>7. ASSUME NEW n \in Nat PROVE h[n + 1] = G[h[n]]
  <2>1. n + 1 \in 1 .. n + 1 /\ n + 1 \in Nat /\ n + 1 - 1 = n /\ n <= n + 1
    OBVIOUS
  <2>2. v(n + 1)[n + 1] = G[v(n + 1)[n]]
    BY <1>4, <2>1
  <2>3. v(n + 1)[n] = v(n)[n]
    BY <1>2, <1>3, <2>1
  <2> QED
    BY <2>1, <2>2, <2>3
<1> QED
  BY <1>5, <1>6, <1>7

(* What follows by recursion stays in the set. *)
LEMMA StaysIn ==
  ASSUME NEW S, NEW G \in [S -> S], NEW f, f[0] \in S, \A n \in Nat : f[n] \in S => f[n + 1] = G[f[n]]
  PROVE  \A n \in Nat : f[n] \in S
<1> DEFINE P == {n \in Nat : f[n] \in S}
<1>1. 0 \in P
  OBVIOUS
<1>2. ASSUME NEW n \in P PROVE n + 1 \in P
  OBVIOUS
<1> HIDE DEF P
<1>3. P = Nat
  <2>1. P \in SUBSET Nat
    BY DEF P
  <2> QED
    BY ONLY <1>1, <1>2, <2>1, Induction
<1> QED
  BY <1>3 DEF P

-----------------------------------------------------------------------------
(* The resolution *)

(* The three ways in which a step changes the stack. *)
LEMMA Shape ==
  ASSUME TypeOK, Running
  PROVE  /\ Len(stack) \in Nat \ {0}
         /\ Top \in Frame
         /\ Callers \in Seq(Frame)
         /\ Len(Callers) = Len(stack) - 1
         /\ \A i \in 1 .. Len(stack) - 1 : Callers[i] = stack[i]
<1>1. stack \in Seq(Frame) /\ stack # <<>>
  BY DEF TypeOK, Running
<1>2. Len(stack) \in Nat \ {0}
  BY <1>1
<1>3. Top \in Frame
  BY <1>1, <1>2 DEF Top
<1>4. Callers = [i \in 1 .. Len(stack) - 1 |-> stack[i]]
  BY <1>1, <1>2 DEF Callers
<1>5. Callers \in Seq(Frame)
  BY <1>1, <1>2, <1>4
<1> QED
  BY <1>2, <1>3, <1>4, <1>5

LEMMA BecomesShape ==
  ASSUME TypeOK, Running, NEW f \in Frame, Becomes(f)
  PROVE  /\ stack' \in Seq(Frame)
         /\ Len(stack') = Len(stack)
         /\ Top' = f /\ Running'
         /\ \A i \in 1 .. Len(stack) - 1 : stack'[i] = stack[i]
<1> Callers \in Seq(Frame) /\ Len(Callers) = Len(stack) - 1 /\ Len(stack) \in Nat \ {0}
  BY Shape
<1>1. Len(stack') = Len(stack) /\ stack'[Len(stack)] = f /\ stack' \in Seq(Frame)
  BY DEF Becomes
<1> QED
  BY <1>1, Shape DEF Becomes, Top, Running

LEMMA CallsShape ==
  ASSUME TypeOK, Running, NEW f \in Frame, NEW n \in Name, Calls(f, n)
  PROVE  /\ stack' \in Seq(Frame)
         /\ Len(stack') = Len(stack) + 1
         /\ Top' = Called(n) /\ Running'
         /\ stack'[Len(stack)] = f
         /\ \A i \in 1 .. Len(stack) - 1 : stack'[i] = stack[i]
<1> Callers \in Seq(Frame) /\ Len(Callers) = Len(stack) - 1 /\ Len(stack) \in Nat \ {0}
  BY Shape
<1>1. Called(n) \in Frame
  BY LimitAssumption DEF Called, Frame, Phase
<1>2. Append(Callers, f) \in Seq(Frame) /\ Len(Append(Callers, f)) = Len(stack)
  OBVIOUS
<1>3. stack' = Append(Append(Callers, f), Called(n))
  BY DEF Calls
<1>4. Len(stack') = Len(stack) + 1 /\ stack' \in Seq(Frame) /\ stack'[Len(stack) + 1] = Called(n)
  BY <1>1, <1>2, <1>3
<1>5. stack'[Len(stack)] = f
  BY <1>2, <1>3
<1>6. \A i \in 1 .. Len(stack) - 1 : stack'[i] = stack[i]
  BY <1>2, <1>3, Shape
<1> QED
  BY <1>4, <1>5, <1>6 DEF Top, Running

LEMMA ReturnsShape ==
  ASSUME TypeOK, Running, NEW v, Returns(v)
  PROVE  /\ stack' \in Seq(Frame)
         /\ Len(stack') = Len(stack) - 1
         /\ \A i \in 1 .. Len(stack) - 1 : stack'[i] = stack[i]
         /\ Running' => Len(stack) > 1 /\ Top' = stack[Len(stack) - 1]
         /\ ~ Running' => Len(stack) = 1
<1>1. Callers \in Seq(Frame) /\ Len(Callers) = Len(stack) - 1 /\ Len(stack) \in Nat \ {0}
      /\ \A i \in 1 .. Len(stack) - 1 : Callers[i] = stack[i]
  BY Shape
<1>2. stack' = Callers
  BY DEF Returns
<1>3. Running' => Len(stack) > 1
  BY <1>1, <1>2 DEF Running
<1>4. ~ Running' => Len(stack) = 1
  BY <1>1, <1>2 DEF Running
<1> QED
  BY <1>1, <1>2, <1>3, <1>4 DEF Top

-----------------------------------------------------------------------------
(* Addresses of a name *)

LEMMA MeansGiven ==
  ASSUME NEW n \in Name, NEW a \in Addr, <<n, a>> \in given
  PROVE  Means(n, a)
BY DEF Means

LEMMA MeansAlias ==
  ASSUME NEW n \in Name, NEW m \in Name, NEW a \in Addr, <<n, m>> \in aliases, Means(m, a)
  PROVE  Means(n, a)
BY DEF Means

(* What was once an address of a name stays one. *)
LEMMA MeansStays ==
  ASSUME NEW n \in Name, NEW a \in Addr, Means(n, a),
         given \subseteq given', aliases \subseteq aliases'
  PROVE  Means(n, a)'
BY DEF Means

-----------------------------------------------------------------------------
(* Messages *)

LEMMA Sections ==
  ASSUME NEW m \in Message \cup {Blank}
  PROVE  m.answer \in Seq(Record) /\ m.authority \in Seq(Record) /\ m.additional \in Seq(Record)
<1>1. CASE m \in Message
  <2>1. m \in [answer : Seq(Record), authority : Seq(Record), additional : Seq(Record)]
    BY <1>1, MessageAssumption
  <2> QED
    BY <2>1
<1>2. CASE m = Blank
  <2>1. m.answer = <<>> /\ m.authority = <<>> /\ m.additional = <<>>
    BY <1>2 DEF Blank
  <2>2. <<>> \in Seq(Record)
    OBVIOUS
  <2> QED
    BY <2>1, <2>2
<1> QED
  BY <1>1, <1>2

LEMMA Data ==
  ASSUME NEW m \in Message \cup {Blank}, NEW i
  PROVE  i \in Has(m.answer, "A") => m.answer[i].data \in Addr
<1>1. m.answer \in Seq(Record)
  BY Sections
<1>2. \A r \in Record : r.type = "A" => r.data \in Addr
  BY DEF Record
<1> QED
  BY <1>1, <1>2 DEF Has

LEMMA ToldTyped ==
  ASSUME NEW m \in Message, NEW n \in Name
  PROVE  Gives(m, n) \subseteq Name \X Addr /\ Aliases(m, n) \subseteq Name \X Name
BY Data DEF Gives, Aliases

(* The record that is tried next is in the section that is searched, and   *)
(* names a server or an alias, if its name can be read.                    *)
LEMMA Next_ ==
  ASSUME TypeOK, Searching, NEW i, IsNext(i), Readable(i)
  PROVE  /\ i \in Nat
         /\ Top.phase = "answer" => i \in Has(Top.msg.answer, "CNAME")
         /\ Top.phase # "additional" => Top.msg[Top.phase][i].data \in Name
<1>1. Running /\ Top.phase \in {"additional", "authority", "answer"} /\ Top \in Frame
  BY Shape DEF Searching
<1>2. Top.msg \in Message \cup {Blank}
  BY <1>1 DEF Frame
<1>3. i \in Has(Top.msg[Top.phase], Wanted(Top.phase))
  BY DEF IsNext
<1>4. Top.msg[Top.phase] \in Seq(Record)
  BY <1>1, <1>2, Sections
<1>5. i \in Nat
  BY <1>3, <1>4 DEF Has
<1>6. Top.phase = "answer" => i \in Has(Top.msg.answer, "CNAME")
  BY <1>3 DEF Wanted
<1> QED
  BY <1>5, <1>6 DEF Readable

-----------------------------------------------------------------------------
(* What the three ways leave of the invariant *)

Meaning == Linked /\ ReturnFits /\ RightAddress

(* What was told is added to, and the question stays the same.             *)
MoreTold ==
  /\ host' = host /\ given \subseteq given' /\ aliases \subseteq aliases'
  /\ given' \subseteq Name \X Addr /\ aliases' \subseteq Name \X Name

LEMMA BecomesKeeps ==
  ASSUME IInv, Running, MoreTold, NEW f \in Frame, Becomes(f),
         f.name = Top.name, f.phase # "start",
         f.phase = "receive" <=> ret' = None,
         f.phase = "receive" => f.got < Datagrams,
         Aliases(f.msg, f.name) \subseteq aliases', ret' \notin Addr
  PROVE  Meaning'
<1> DEFINE n == Len(stack)
<1>1. TypeOK /\ Linked
  BY DEF IInv
<1>2. n \in Nat \ {0} /\ Top = stack[n]
  BY <1>1, Shape DEF Top
<1>3. /\ Len(stack') = n /\ stack'[n] = f /\ Running'
      /\ \A i \in 1 .. n - 1 : stack'[i] = stack[i]
  BY <1>1, BecomesShape DEF Top
<1>4. \A i \in 1 .. n - 1 : stack[i].phase \notin {"start", "receive"}
  BY <1>1, <1>2 DEF Linked
<1>5. Linked'
  <2>1. stack'[1].name = host'
    BY <1>1, <1>2, <1>3 DEF Linked, MoreTold
  <2>2. \A i \in 1 .. n : stack'[i].phase \in {"start", "receive"} <=> i = n /\ ret' = None
    BY <1>2, <1>3, <1>4
  <2>3. \A i \in 1 .. n :
          /\ stack'[i].phase = "start" => stack'[i].got = 0
          /\ stack'[i].phase = "receive" => stack'[i].got < Datagrams
    BY <1>2, <1>3, <1>4
  <2>4. \A i \in 1 .. n : Aliases(stack'[i].msg, stack'[i].name) \subseteq aliases'
    BY <1>1, <1>2, <1>3 DEF Linked, MoreTold
  <2>5. \A i \in 1 .. n - 1 :
          /\ stack'[i].phase \in {"additional", "delegated"} => stack'[i + 1].name = stack'[i].name
          /\ stack'[i].phase = "answer" => <<stack'[i].name, stack'[i + 1].name>> \in aliases'
    <3> SUFFICES ASSUME NEW i \in 1 .. n - 1
                 PROVE  stack'[i] = stack[i] /\ stack'[i + 1].name = stack[i + 1].name
      BY <1>1 DEF Linked, MoreTold
    <3> QED
      BY <1>2, <1>3
  <2> QED
    BY <1>3, <2>1, <2>2, <2>3, <2>4, <2>5 DEF Linked, Aliases
<1> QED
  BY <1>3, <1>5 DEF Meaning, ReturnFits, RightAddress

LEMMA CallsKeeps ==
  ASSUME IInv, Running, MoreTold, NEW f \in Frame, NEW m \in Name, Calls(f, m),
         f.name = Top.name, f.phase \notin {"start", "receive"}, f.msg = Top.msg,
         f.phase \in {"additional", "delegated"} => m = f.name,
         f.phase = "answer" => <<f.name, m>> \in aliases'
  PROVE  Meaning'
<1> DEFINE n == Len(stack)
<1>1. TypeOK /\ Linked
  BY DEF IInv
<1>2. n \in Nat \ {0} /\ Top = stack[n]
  BY <1>1, Shape DEF Top
<1>3. /\ Len(stack') = n + 1 /\ stack'[n + 1] = Called(m) /\ stack'[n] = f /\ Running'
      /\ \A i \in 1 .. n - 1 : stack'[i] = stack[i]
  BY <1>1, CallsShape DEF Top
<1>4. \A i \in 1 .. n - 1 : stack[i].phase \notin {"start", "receive"}
  BY <1>1, <1>2 DEF Linked
<1>5. ret' = None /\ None \notin Addr
  BY ReturnAssumption DEF Calls
<1>6. Linked'
  <2>1. stack'[1].name = host'
    BY <1>1, <1>2, <1>3 DEF Linked, MoreTold
  <2>2. \A i \in 1 .. n + 1 : stack'[i].phase \in {"start", "receive"} <=> i = n + 1 /\ ret' = None
    BY <1>2, <1>3, <1>4, <1>5 DEF Called
  <2>3. \A i \in 1 .. n + 1 :
          /\ stack'[i].phase = "start" => stack'[i].got = 0
          /\ stack'[i].phase = "receive" => stack'[i].got < Datagrams
    BY <1>2, <1>3, <1>4 DEF Called
  <2>4. \A i \in 1 .. n + 1 : Aliases(stack'[i].msg, stack'[i].name) \subseteq aliases'
    <3>1. Aliases(stack'[n + 1].msg, stack'[n + 1].name) = {}
      BY <1>3 DEF Called, Blank, Aliases, Has
    <3>2. \A i \in 1 .. n : Aliases(stack'[i].msg, stack'[i].name) \subseteq aliases'
      BY <1>1, <1>2, <1>3 DEF Linked, MoreTold
    <3> QED
      BY <1>2, <3>1, <3>2
  <2>5. \A i \in 1 .. n :
          /\ stack'[i].phase \in {"additional", "delegated"} => stack'[i + 1].name = stack'[i].name
          /\ stack'[i].phase = "answer" => <<stack'[i].name, stack'[i + 1].name>> \in aliases'
    <3>1. ASSUME NEW i \in 1 .. n - 1
          PROVE  stack'[i] = stack[i] /\ stack'[i + 1].name = stack[i + 1].name
      BY <1>2, <1>3
    <3>2. stack'[n + 1].name = m
      BY <1>3 DEF Called
    <3> QED
      BY <1>1, <1>2, <1>3, <3>1, <3>2 DEF Linked, MoreTold
  <2> QED
    BY <1>2, <1>3, <2>1, <2>2, <2>3, <2>4, <2>5 DEF Linked, Aliases
<1> QED
  BY <1>3, <1>5, <1>6 DEF Meaning, ReturnFits, RightAddress

LEMMA ReturnsKeeps ==
  ASSUME IInv, Running, MoreTold, NEW v \in Addr \cup {Failed}, Returns(v),
         NEW t \in Name, t = Top.name, v \in Addr => Means(t, v)'
  PROVE  Meaning'
<1>1. TypeOK /\ Linked
  BY DEF IInv
<1>. PICK n \in Nat : n = Len(stack)
  BY <1>1, Shape
<1>2. n > 0 /\ stack[n].name = t
  BY <1>1, Shape DEF Top
<1>3. /\ stack' \in Seq(Frame) /\ Len(stack') = n - 1
      /\ \A i \in 1 .. n - 1 : stack'[i] = stack[i]
      /\ Running' => n > 1 /\ Top' = stack[n - 1]
  BY <1>1, ReturnsShape
<1>4. ret' = v /\ v # None
  BY ReturnAssumption DEF Returns
<1>5. Linked'
  <2>1. Running' => stack'[1].name = host'
    BY <1>1, <1>2, <1>3 DEF Linked, MoreTold
  <2>2. \A i \in 1 .. n - 1 : stack'[i].phase \notin {"start", "receive"}
    BY <1>1, <1>2, <1>3 DEF Linked
  <2>3. \A i \in 1 .. n - 1 : Aliases(stack'[i].msg, stack'[i].name) \subseteq aliases'
    BY <1>1, <1>2, <1>3 DEF Linked, MoreTold
  <2>4. \A i \in 1 .. n - 2 :
          /\ stack'[i].phase \in {"additional", "delegated"} => stack'[i + 1].name = stack'[i].name
          /\ stack'[i].phase = "answer" => <<stack'[i].name, stack'[i + 1].name>> \in aliases'
    BY <1>1, <1>2, <1>3 DEF Linked, MoreTold
  <2> QED
    BY <1>2, <1>3, <1>4, <2>1, <2>2, <2>3, <2>4 DEF Linked, Aliases
(* The caller's name is the name of the call, or has it as an alias.       *)
<1>6. ASSUME NEW c \in Frame, n > 1, c = stack[n - 1], v \in Addr, c.phase # "authority"
      PROVE  Means(c.name, v)'
  <2>1. c.phase \in {"additional", "delegated", "answer"} /\ c.name \in Name
    <3>1. n - 1 \in 1 .. Len(stack) /\ n - 1 # Len(stack)
      BY <1>6
    <3>2. c.phase \notin {"start", "receive"}
      BY <1>1, <1>6, <3>1 DEF Linked
    <3> QED
      BY <1>6, <3>2 DEF Frame, Phase
  <2>2. CASE c.phase \in {"additional", "delegated"}
    <3>1. n - 1 \in 1 .. Len(stack) - 1 /\ (n - 1) + 1 = n
      BY <1>6
    <3>2. stack[n].name = stack[n - 1].name
      BY <1>1, <1>6, <2>2, <3>1 DEF Linked
    <3>3. c.name = t
      BY <1>2, <1>6, <3>2
    <3> QED
      BY <3>3, <1>6
  <2>3. CASE c.phase = "answer"
    <3>1. n - 1 \in 1 .. Len(stack) - 1 /\ (n - 1) + 1 = n
      BY <1>6
    <3>2. <<c.name, stack[n].name>> \in aliases
      BY <1>1, <1>6, <2>3, <3>1 DEF Linked
    <3>3. <<c.name, t>> \in aliases'
      BY <1>2, <3>2 DEF MoreTold
    <3> QED
      BY <2>1, <3>3, <1>6 DEF Means
  <2> QED
    BY <2>1, <2>2, <2>3
<1>7. ReturnFits'
  <2>1. ASSUME Running', v \in Addr, (Top.phase # "authority")'
        PROVE  Means(Top.name, v)'
    <3>. PICK c : c = stack[n - 1]
      OBVIOUS
    <3>1. c \in Frame /\ n > 1 /\ Top' = c
      BY <1>1, <1>2, <1>3, <2>1 DEF TypeOK
    <3>2. c.phase # "authority"
      BY <3>1, <2>1
    <3>3. Means(c.name, v)'
      BY <1>6, <3>1, <3>2, <2>1
    <3> QED
      BY <3>1, <3>3 DEF Means
  <2> QED
    BY <1>4, <2>1 DEF ReturnFits, Means
<1>8. RightAddress'
  <2>1. ~ Running' => n = 1
    BY <1>1, ReturnsShape
  <2>2. ~ Running' => t = host'
    BY <2>1, <1>1, <1>2 DEF Linked, MoreTold, Running
  <2> QED
    BY <2>2, <1>4 DEF RightAddress, Means
<1> QED
  BY <1>5, <1>7, <1>8 DEF Meaning

-----------------------------------------------------------------------------
(* Steps of the three kinds keep the whole invariant *)

(* While a frame awaits its call, or searches, nothing is awaited from the *)
(* network.                                                                *)
LEMMA TopPhase ==
  ASSUME TypeOK, Linked
  PROVE  /\ In("start") \/ In("receive") <=> Running /\ ret = None
         /\ In("receive") => Top.got \in Nat /\ Top.got < Datagrams
<1>1. CASE Running
  <2>1. Len(stack) \in 1 .. Len(stack) /\ Top = stack[Len(stack)] /\ Top \in Frame
    BY <1>1, Shape DEF Top
  <2> QED
    BY <1>1, <2>1, LimitAssumption DEF Linked, In, Frame
<1>2. CASE ~ Running
  BY <1>2 DEF In
<1> QED
  BY <1>1, <1>2

LEMMA ReturnsStep ==
  ASSUME IInv, Running, MoreTold, NEW v \in Addr \cup {Failed}, Returns(v),
         v \in Addr => Means(Top.name, v) \/ <<Top.name, v>> \in given',
         asked' = asked,
         querycnt' \in {querycnt, querycnt + 1}, querycnt' <= Limit,
         heard' = heard \/ (heard' = heard + 1 /\ In("receive"))
  PROVE  IInv'
<1>1. TypeOK /\ Linked /\ Within
  BY DEF IInv
<1>2. stack' \in Seq(Frame) /\ Len(stack') = Len(stack) - 1 /\ Len(stack) \in Nat
  BY <1>1, Shape, ReturnsShape
<1>3. ret' = v /\ ret' # None
  BY ReturnAssumption DEF Returns
<1>4. TypeOK'
  BY <1>1, <1>2, <1>3 DEF TypeOK, MoreTold
<1>5. Meaning'
  <2>. PICK t : t = Top.name
    OBVIOUS
  <2>1. t \in Name
    BY <1>1, Shape DEF Frame
  <2>2. v \in Addr => Means(t, v)'
    <3>1. CASE v \in Addr /\ Means(t, v)
      BY <2>1, <3>1, MeansStays DEF MoreTold
    <3>2. CASE v \in Addr /\ <<t, v>> \in given'
      BY <2>1, <3>2 DEF Means
    <3> QED
      BY <3>1, <3>2
  <2> QED
    BY <2>1, <2>2, ReturnsKeeps
<1>6. ~ In("start")' /\ ~ In("receive")'
  <2>1. CASE Running'
    <3>1. Len(stack') \in 1 .. Len(stack')
      BY <1>2, <2>1 DEF Running
    <3>2. (Top.phase)' \notin {"start", "receive"}
      BY <1>3, <1>5, <3>1 DEF Meaning, Linked, Top
    <3> QED
      BY <3>2 DEF In
  <2> QED
    BY <2>1 DEF In
<1>7. Within'
  <2>. PICK p : p = asked * Datagrams
    OBVIOUS
  <2>1. p \in Nat /\ asked' * Datagrams = p
    BY <1>1, LimitAssumption DEF TypeOK
  <2>2. heard' <= p
    BY <1>1, <2>1, TopPhase, LimitAssumption DEF Within, TypeOK
  <2>3. asked' <= querycnt' /\ querycnt' <= Limit
    BY <1>1 DEF Within, TypeOK
  <2>4. Len(stack') <= querycnt'
    BY <1>1, <1>2 DEF Within, TypeOK
  <2> QED
    BY <1>4, <1>6, <2>1, <2>2, <2>3, <2>4 DEF Within, TypeOK
<1> QED
  BY <1>4, <1>5, <1>7 DEF IInv, Meaning

LEMMA CallsStep ==
  ASSUME IInv, Running, ret # None, NEW f \in Frame, NEW m \in Name, Calls(f, m),
         f.name = Top.name, f.phase \notin {"start", "receive"}, f.msg = Top.msg,
         f.phase \in {"additional", "delegated"} => m = f.name,
         f.phase = "answer" => <<f.name, m>> \in aliases,
         UNCHANGED <<querycnt, asked, heard, told>>
  PROVE  IInv'
<1>1. TypeOK /\ Linked /\ Within
  BY DEF IInv
<1>2. /\ stack' \in Seq(Frame) /\ Len(stack') = Len(stack) + 1 /\ Len(stack) \in Nat
      /\ Top' = Called(m) /\ Running'
  BY <1>1, Shape, CallsShape
<1>3. MoreTold
  BY <1>1 DEF MoreTold, told, TypeOK
<1>4. TypeOK'
  BY <1>1, <1>2 DEF TypeOK, told, Calls
<1>5. Meaning'
  BY <1>1, <1>3, CallsKeeps DEF told
<1>6. ~ In("start") /\ ~ In("receive")
  BY <1>1, TopPhase
<1>7. In("start")' /\ ~ In("receive")'
  BY <1>2 DEF In, Called
<1>8. Within'
  <2>. PICK p : p = asked * Datagrams
    OBVIOUS
  <2>1. p \in Nat /\ asked' * Datagrams = p
    BY <1>1, LimitAssumption DEF TypeOK
  <2> QED
    BY <1>1, <1>2, <1>6, <1>7, <2>1 DEF Within, TypeOK
<1> QED
  BY <1>4, <1>5, <1>8 DEF IInv, Meaning

(* A frame that searches goes on. *)
LEMMA BecomesStep ==
  ASSUME IInv, Running, NEW f \in Frame, Becomes(f), MoreTold,
         ret' = Failed, f.name = Top.name, f.phase \notin {"start", "receive"},
         Aliases(f.msg, f.name) \subseteq aliases',
         UNCHANGED <<querycnt, asked>>,
         (In("receive") /\ heard' = heard + 1) \/ (ret = Failed /\ heard' = heard)
  PROVE  IInv'
<1>1. TypeOK /\ Linked /\ Within
  BY DEF IInv
<1>2. /\ stack' \in Seq(Frame) /\ Len(stack') = Len(stack) /\ Len(stack) \in Nat
      /\ Top' = f /\ Running'
  BY <1>1, Shape, BecomesShape
<1>3. TypeOK'
  BY <1>1, <1>2 DEF TypeOK, MoreTold
<1>4. Meaning'
  BY ReturnAssumption, BecomesKeeps
<1>5. ~ In("start") /\ ~ In("start")' /\ ~ In("receive")'
  BY <1>1, <1>2, TopPhase, ReturnAssumption DEF In
<1>6. Within'
  <2>. PICK p : p = asked * Datagrams
    OBVIOUS
  <2>1. p \in Nat /\ asked' * Datagrams = p
    BY <1>1, LimitAssumption DEF TypeOK
  <2>2. heard' <= p
    BY <1>1, <2>1, TopPhase, LimitAssumption, ReturnAssumption DEF Within, TypeOK
  <2> QED
    BY <1>1, <1>2, <1>5, <2>1, <2>2 DEF Within, TypeOK
<1> QED
  BY <1>3, <1>4, <1>6 DEF IInv, Meaning

-----------------------------------------------------------------------------
(* Actions *)

LEMMA InitHolds == Init => IInv
<1> SUFFICES ASSUME Init PROVE IInv
  OBVIOUS
<1>1. Called(host) \in Frame /\ stack = <<Called(host)>>
  BY LimitAssumption DEF Init, Called, Frame, Phase
<1>2. /\ stack \in Seq(Frame) /\ Len(stack) = 1 /\ stack[1] = Called(host) /\ Top = Called(host)
      /\ Running
  BY <1>1 DEF Top, Running
<1>3. In("start") /\ ~ In("receive")
  BY <1>2 DEF In, Called
<1>4. Aliases(Called(host).msg, host) = {}
  BY DEF Called, Blank, Aliases, Has
<1>5. TypeOK
  BY <1>2 DEF Init, TypeOK
<1>6. Within
  BY <1>2, <1>3, LimitAssumption DEF Init, Within
<1>7. Linked
  BY <1>2, <1>4 DEF Init, Linked, Called
<1>8. ReturnFits /\ RightAddress
  BY <1>2, ReturnAssumption DEF Init, ReturnFits, RightAddress
<1> QED
  BY <1>5, <1>6, <1>7, <1>8 DEF IInv

(* A query is sent, or a datagram is passed over: something is awaited.    *)
LEMMA Awaits ==
  ASSUME IInv, Running, ret = None, ret' = None, NEW f \in Frame, Becomes(f),
         f.name = Top.name, f.phase = "receive", f.got < Datagrams, f.msg = Top.msg,
         UNCHANGED told, querycnt' \in Nat, querycnt' <= Limit, asked' \in Nat, heard' \in Nat,
         asked' <= querycnt', Len(stack) <= querycnt',
         heard' <= asked' * Datagrams - (Datagrams - f.got)
  PROVE  IInv'
<1>1. TypeOK /\ Linked
  BY DEF IInv
<1>2. /\ stack' \in Seq(Frame) /\ Len(stack') = Len(stack) /\ Len(stack) \in Nat \ {0}
      /\ Top' = f /\ Running' /\ Top = stack[Len(stack)]
  BY <1>1, Shape, BecomesShape DEF Top
<1>3. TypeOK'
  BY <1>1, <1>2 DEF TypeOK, told
<1>4. MoreTold
  BY <1>1 DEF MoreTold, told, TypeOK
<1>5. Aliases(f.msg, f.name) \subseteq aliases'
  BY <1>1, <1>2 DEF Linked, told
<1>6. Meaning'
  BY <1>4, <1>5, ReturnAssumption, BecomesKeeps
<1>7. In("receive")' /\ ~ In("start")'
  BY <1>2 DEF In
<1>8. Within'
  BY <1>2, <1>7 DEF Within
<1> QED
  BY <1>3, <1>6, <1>8 DEF IInv, Meaning

LEMMA SendQueryHolds == IInv /\ SendQuery => IInv'
<1> SUFFICES ASSUME IInv, SendQuery PROVE IInv'
  OBVIOUS
<1> DEFINE f == [Top EXCEPT !.phase = "receive"]
<1>1. TypeOK /\ Linked /\ Within /\ In("start") /\ Running /\ ret = None
  BY TopPhase DEF IInv, SendQuery, In
<1>2. Top \in Frame /\ Top.got = 0 /\ Len(stack) \in Nat
  BY <1>1, Shape DEF Linked, In, Top
<1>3. f \in Frame
  BY <1>2 DEF Frame, Phase
<1>4. f.name = Top.name /\ f.phase = "receive" /\ f.got = 0 /\ f.msg = Top.msg
  BY <1>2 DEF Frame
<1>5. (asked + 1) * Datagrams = asked * Datagrams + Datagrams /\ asked * Datagrams \in Nat
  BY <1>1, LimitAssumption DEF TypeOK
<1>6. heard <= asked * Datagrams
  <2>1. ~ In("receive")
    BY <1>1 DEF In
  <2> QED
    BY <1>1, <1>5, <2>1 DEF Within, TypeOK
<1>7. asked' = asked + 1 /\ querycnt' = querycnt + 1 /\ heard' = heard
  BY DEF SendQuery
<1>8. heard' <= asked' * Datagrams - (Datagrams - f.got)
  BY <1>1, <1>4, <1>5, <1>6, <1>7, LimitAssumption DEF TypeOK
<1>9. querycnt' \in Nat /\ querycnt' <= Limit /\ asked' \in Nat /\ heard' \in Nat
      /\ asked' <= querycnt' /\ Len(stack) <= querycnt'
  BY <1>1, <1>2, <1>7, LimitAssumption DEF Within, TypeOK, SendQuery
<1> HIDE DEF f
<1>10. Becomes(f) /\ UNCHANGED told /\ ret' = None
  BY <1>1 DEF SendQuery, f
<1>11. f.got < Datagrams
  BY <1>4, LimitAssumption
<1> QED
  BY <1>1, <1>3, <1>4, <1>8, <1>9, <1>10, <1>11, Awaits

LEMMA RecvOtherHolds == IInv /\ RecvOther => IInv'
<1> SUFFICES ASSUME IInv, RecvOther PROVE IInv'
  OBVIOUS
<1> DEFINE f == [Top EXCEPT !.got = @ + 1]
<1>1. TypeOK /\ Linked /\ Within /\ In("receive") /\ Running /\ ret = None
  BY TopPhase DEF IInv, RecvOther, In
<1>2. Top \in Frame /\ Top.got \in Nat /\ Top.phase = "receive" /\ Len(stack) \in Nat
  BY <1>1, Shape, LimitAssumption DEF Frame, In
<1>3. f \in Frame
  BY <1>2, LimitAssumption DEF Frame, RecvOther
<1>4. f.name = Top.name /\ f.phase = "receive" /\ f.got = Top.got + 1 /\ f.msg = Top.msg
  BY <1>2 DEF Frame
<1>5. asked' = asked /\ querycnt' = querycnt /\ heard' = heard + 1
  BY DEF RecvOther, told
<1>. PICK p : p = asked * Datagrams
  OBVIOUS
<1>6. p \in Nat
  BY <1>1, LimitAssumption DEF TypeOK
<1>7. heard' <= p - (Datagrams - f.got)
  <2>1. heard <= p - (Datagrams - Top.got)
    BY <1>1 DEF Within
  <2>2. heard \in Nat
    BY <1>1 DEF TypeOK
  <2> HIDE DEF f
  <2> QED
    BY ONLY <1>2, <1>4, <1>5, <1>6, <2>1, <2>2, LimitAssumption
<1>8. querycnt' \in Nat /\ querycnt' <= Limit /\ asked' \in Nat /\ heard' \in Nat
      /\ asked' <= querycnt' /\ Len(stack) <= querycnt'
  BY <1>1, <1>2, <1>5 DEF Within, TypeOK, In
<1> HIDE DEF f
<1>9. Becomes(f) /\ UNCHANGED told /\ ret' = None /\ f.got < Datagrams
  BY <1>1, <1>4 DEF RecvOther, f
<1> QED
  BY <1>1, <1>3, <1>4, <1>5, <1>7, <1>8, <1>9, Awaits

LEMMA FailsHold == IInv /\ (OverLimit \/ SendFails \/ RecvFails) => IInv'
<1> SUFFICES ASSUME IInv, OverLimit \/ SendFails \/ RecvFails PROVE IInv'
  OBVIOUS
<1>1. TypeOK /\ Within /\ Running
  BY DEF IInv, OverLimit, SendFails, RecvFails, In
<1>2. MoreTold /\ Returns(Failed)
  BY <1>1 DEF OverLimit, SendFails, RecvFails, MoreTold, told, TypeOK
<1>3. /\ asked' = asked
      /\ querycnt' \in {querycnt, querycnt + 1} /\ querycnt' <= Limit
      /\ heard' = heard \/ (heard' = heard + 1 /\ In("receive"))
  BY <1>1, LimitAssumption DEF OverLimit, SendFails, RecvFails, Within, TypeOK
<1> QED
  BY <1>1, <1>2, <1>3, ReturnAssumption, ReturnsStep

LEMMA RecvMessageHolds ==
  ASSUME IInv, NEW m \in Message, RecvMessage(m)
  PROVE  IInv'
<1>1. TypeOK /\ Within /\ Running /\ In("receive") /\ Top \in Frame
  BY Shape DEF IInv, RecvMessage, In
<1>2. Top.name \in Name
  BY <1>1 DEF Frame
<1>3. MoreTold
  BY <1>1, <1>2, ToldTyped DEF RecvMessage, MoreTold, TypeOK
<1>4. asked' = asked /\ querycnt' = querycnt /\ querycnt' <= Limit /\ heard' = heard + 1
  BY <1>1 DEF RecvMessage, Within
<1>5. ASSUME NEW i \in FirstAddr(m.answer), Returns(m.answer[i].data)
      PROVE  IInv'
  <2>. PICK v : v = m.answer[i].data
    OBVIOUS
  <2>1. v \in Addr /\ <<Top.name, v>> \in given'
    BY <1>5, Data DEF RecvMessage, Gives, FirstAddr
  <2> QED
    BY <1>1, <1>3, <1>4, <1>5, <2>1, ReturnsStep
<1>6. ASSUME Returns(Failed) PROVE IInv'
  BY <1>1, <1>3, <1>4, <1>6, ReturnAssumption, ReturnsStep
<1>7. ASSUME Becomes([Top EXCEPT !.phase = "additional", !.msg = m]), ret' = Failed PROVE IInv'
  <2> DEFINE f == [Top EXCEPT !.phase = "additional", !.msg = m]
  <2>1. f \in Frame /\ f.name = Top.name /\ f.phase = "additional" /\ f.msg = m
    BY <1>1 DEF Frame, Phase
  <2>2. Aliases(f.msg, f.name) \subseteq aliases'
    BY <2>1 DEF RecvMessage
  <2>3. Becomes(f)
    BY <1>7
  <2> HIDE DEF f
  <2> QED
    BY <1>1, <1>3, <1>4, <1>7, <2>1, <2>2, <2>3, BecomesStep
<1> QED
  BY <1>5, <1>6, <1>7 DEF RecvMessage, Use

LEMMA TryRecordHolds == IInv /\ TryRecord => IInv'
<1> SUFFICES ASSUME IInv, TryRecord PROVE IInv'
  OBVIOUS
<1>1. TypeOK /\ Linked /\ Searching /\ Running /\ Top \in Frame /\ ret # None
  BY Shape, ReturnAssumption DEF IInv, TryRecord, Searching
<1>2. PICK i : /\ IsNext(i) /\ Readable(i)
               /\ Calls([Top EXCEPT !.pos = i],
                        IF Top.phase = "additional" THEN Top.name ELSE Top.msg[Top.phase][i].data)
  BY DEF TryRecord
<1> DEFINE f == [Top EXCEPT !.pos = i]
           m == IF Top.phase = "additional" THEN Top.name ELSE Top.msg[Top.phase][i].data
<1>3. i \in Nat /\ m \in Name
  BY <1>1, <1>2, Next_ DEF Frame
<1>4. f \in Frame /\ f.name = Top.name /\ f.phase = Top.phase /\ f.msg = Top.msg
  BY <1>1, <1>3 DEF Frame
<1>5. f.phase \in {"additional", "authority", "answer"}
  BY <1>1, <1>4 DEF Searching
<1>6. f.phase \in {"additional", "delegated"} => m = f.name
  BY <1>4, <1>5
<1>7. f.phase = "answer" => <<f.name, m>> \in aliases
  <2> SUFFICES ASSUME f.phase = "answer" PROVE <<f.name, m>> \in aliases
    OBVIOUS
  <2>1. i \in Has(Top.msg.answer, "CNAME") /\ m = Top.msg.answer[i].data
    BY <1>1, <1>2, <1>4, Next_
  <2>2. Len(stack) \in 1 .. Len(stack) /\ Top = stack[Len(stack)]
    BY <1>1, Shape DEF Top
  <2>3. Aliases(Top.msg, Top.name) \subseteq aliases
    BY <1>1, <2>2 DEF Linked
  <2>4. m \in Name \cap {Top.msg.answer[j].data : j \in Has(Top.msg.answer, "CNAME")}
    BY <1>3, <2>1
  <2> HIDE DEF m
  <2>5. <<Top.name, m>> \in Aliases(Top.msg, Top.name)
    BY <2>4 DEF Aliases
  <2> QED
    BY <1>4, <2>3, <2>5
<1>8. Calls(f, m) /\ UNCHANGED <<querycnt, asked, heard, told>>
  BY <1>2 DEF TryRecord
<1> HIDE DEF f, m
<1> QED
  BY <1>1, <1>3, <1>4, <1>5, <1>6, <1>7, <1>8, CallsStep

(* The records of the top frame's message were told. *)
LEMMA TopTold ==
  ASSUME TypeOK, Linked, Running
  PROVE  Aliases(Top.msg, Top.name) \subseteq aliases
<1>1. Len(stack) \in 1 .. Len(stack) /\ Top = stack[Len(stack)]
  BY Shape DEF Top
<1> QED
  BY <1>1 DEF Linked

LEMMA SearchGoesOn ==
  ASSUME IInv, Running, ret = Failed, NEW f \in Frame, Becomes(f),
         f.name = Top.name, f.msg = Top.msg, f.phase \notin {"start", "receive"},
         UNCHANGED <<ret, querycnt, asked, heard, told>>
  PROVE  IInv'
<1>1. TypeOK /\ Linked
  BY DEF IInv
<1>2. MoreTold
  BY <1>1 DEF MoreTold, told, TypeOK
<1>3. Aliases(f.msg, f.name) \subseteq aliases'
  BY <1>1, TopTold DEF told
<1> QED
  BY <1>2, <1>3, BecomesStep

LEMMA BadNameHolds == IInv /\ BadName => IInv'
<1> SUFFICES ASSUME IInv, BadName PROVE IInv'
  OBVIOUS
<1>1. TypeOK /\ Searching /\ Running /\ Top \in Frame /\ ret = Failed
  BY Shape DEF IInv, BadName, Searching
<1>2. PICK i : IsNext(i) /\ Readable(i) /\ Becomes([Top EXCEPT !.pos = i])
  BY DEF BadName
<1> DEFINE f == [Top EXCEPT !.pos = i]
<1>3. i \in Nat
  BY <1>1, <1>2, Next_
<1>4. f \in Frame /\ f.name = Top.name /\ f.phase = Top.phase /\ f.msg = Top.msg
  BY <1>1, <1>3 DEF Frame
<1>5. f.phase \notin {"start", "receive"}
  BY <1>1, <1>4 DEF Searching
<1>6. Becomes(f) /\ UNCHANGED <<ret, querycnt, asked, heard, told>>
  BY <1>2 DEF BadName
<1> HIDE DEF f
<1> QED
  BY <1>1, <1>4, <1>5, <1>6, SearchGoesOn

LEMMA NextSectionHolds == IInv /\ NextSection => IInv'
<1> SUFFICES ASSUME IInv, NextSection PROVE IInv'
  OBVIOUS
<1>1. TypeOK /\ Within /\ Searching /\ Running /\ Top \in Frame /\ ret = Failed
  BY Shape DEF IInv, NextSection, Searching
<1>2. MoreTold /\ UNCHANGED <<querycnt, asked, heard, told>>
  BY <1>1 DEF MoreTold, NextSection, told, TypeOK
<1>3. CASE Returns(Failed)
  BY <1>1, <1>2, <1>3, ReturnAssumption, ReturnsStep DEF Within
<1>4. CASE Top.phase # "answer" /\ UNCHANGED ret
           /\ Becomes([Top EXCEPT !.pos = 0,
                       !.phase = IF @ = "additional" THEN "authority" ELSE "answer"])
  <2> DEFINE f == [Top EXCEPT !.pos = 0,
                   !.phase = IF @ = "additional" THEN "authority" ELSE "answer"]
  <2>1. f \in Frame /\ f.name = Top.name /\ f.msg = Top.msg /\ f.phase \in {"authority", "answer"}
    BY <1>1 DEF Frame, Phase
  <2>2. Becomes(f) /\ f.phase \notin {"start", "receive"}
    BY <1>4, <2>1
  <2> HIDE DEF f
  <2> QED
    BY <1>1, <1>2, <1>4, <2>1, <2>2, SearchGoesOn
<1> QED
  BY <1>3, <1>4 DEF NextSection

LEMMA AskServerHolds == IInv /\ AskServer => IInv'
<1> SUFFICES ASSUME IInv, AskServer PROVE IInv'
  OBVIOUS
<1>1. TypeOK /\ Running /\ Top \in Frame /\ ret # None
  BY Shape, ReturnAssumption DEF IInv, AskServer, In
<1> DEFINE f == [Top EXCEPT !.phase = "delegated"]
<1>2. f \in Frame /\ f.name = Top.name /\ f.phase = "delegated" /\ f.msg = Top.msg /\ Top.name \in Name
  BY <1>1 DEF Frame, Phase
<1>3. Calls(f, Top.name) /\ UNCHANGED <<querycnt, asked, heard, told>>
  BY DEF AskServer
<1> HIDE DEF f
<1>. PICK m \in Name : m = Top.name
  BY <1>2
<1> QED
  BY <1>1, <1>2, <1>3, CallsStep

LEMMA DelegationFailsHolds == IInv /\ DelegationFails => IInv'
<1> SUFFICES ASSUME IInv, DelegationFails PROVE IInv'
  OBVIOUS
<1>1. TypeOK /\ Running /\ Top \in Frame /\ ret = Failed
  BY Shape DEF IInv, DelegationFails, In
<1> DEFINE f == [Top EXCEPT !.phase = "authority"]
<1>2. f \in Frame /\ f.name = Top.name /\ f.phase = "authority" /\ f.msg = Top.msg
  BY <1>1 DEF Frame, Phase
<1>3. Becomes(f) /\ UNCHANGED <<ret, querycnt, asked, heard, told>>
  BY DEF DelegationFails
<1> HIDE DEF f
<1> QED
  BY <1>1, <1>2, <1>3, SearchGoesOn

LEMMA FoundHolds == IInv /\ Found => IInv'
<1> SUFFICES ASSUME IInv, Found PROVE IInv'
  OBVIOUS
<1>1. TypeOK /\ Within /\ ReturnFits /\ Running
  BY DEF IInv, Found
<1>2. MoreTold /\ UNCHANGED <<querycnt, asked, heard>>
  BY <1>1 DEF MoreTold, Found, told, TypeOK
<1>. PICK v : v = ret
  OBVIOUS
<1>3. v \in Addr /\ Returns(v) /\ Means(Top.name, v)
  BY <1>1 DEF Found, ReturnFits
<1> QED
  BY <1>1, <1>2, <1>3, ReturnsStep DEF Within

LEMMA StuttersHold == IInv /\ UNCHANGED vars => IInv'
<1> SUFFICES ASSUME IInv, UNCHANGED vars PROVE IInv'
  OBVIOUS
<1>1. UNCHANGED <<host, stack, ret, querycnt, asked, heard, given, aliases>>
  BY DEF vars, told
<1>2. TypeOK' /\ Within'
  BY <1>1 DEF IInv, TypeOK, Within, Running, Top, In
<1>3. Linked'
  BY <1>1 DEF IInv, Linked, Running, Aliases
<1>4. ReturnFits' /\ RightAddress'
  BY <1>1 DEF IInv, ReturnFits, RightAddress, Means, Running, Top
<1> QED
  BY <1>2, <1>3, <1>4 DEF IInv

LEMMA NextHolds == IInv /\ [Next]_vars => IInv'
<1>1. ASSUME IInv, \/ OverLimit \/ SendFails \/ SendQuery \/ RecvFails \/ RecvOther
                   \/ \E m \in Message : RecvMessage(m)
      PROVE  IInv'
  BY <1>1, SendQueryHolds, RecvOtherHolds, FailsHold, RecvMessageHolds
<1>2. ASSUME IInv, TryRecord \/ BadName \/ NextSection \/ AskServer \/ DelegationFails \/ Found
      PROVE  IInv'
  BY <1>2, TryRecordHolds, BadNameHolds, NextSectionHolds, AskServerHolds, DelegationFailsHolds, FoundHolds
<1>3. ASSUME IInv, FollowCircle \/ Over \/ UNCHANGED vars
      PROVE  IInv'
  BY <1>3, StuttersHold DEF FollowCircle, Over
<1> QED
  BY <1>1, <1>2, <1>3 DEF Next

-----------------------------------------------------------------------------
(* Theorems *)

(* The invariant behind the others holds of every resolution.              *)
THEOREM Invariant == Spec => []IInv
<1>1. Init => IInv
  BY InitHolds
<1>2. IInv /\ [Next]_vars => IInv'
  BY NextHolds
<1> QED
  BY <1>1, <1>2, PTL DEF Spec

(* Queries, open calls and waits of one resolution are bounded, for any    *)
(* limit and whatever the servers answer.                                  *)
THEOREM StaysBounded == Spec => []Bounded
<1>1. IInv => Bounded
  <2> SUFFICES ASSUME IInv PROVE Bounded
    OBVIOUS
  <2>1. TypeOK /\ Linked /\ Within
    BY DEF IInv
  <2>2. asked * Datagrams <= Limit * Datagrams /\ asked * Datagrams \in Nat
    <3>. PICK k \in Nat : k = Limit - asked
      BY <2>1, LimitAssumption DEF Within, TypeOK
    <3>1. Limit = asked + k
      BY <2>1, LimitAssumption DEF TypeOK
    <3>2. (asked + k) * Datagrams = asked * Datagrams + k * Datagrams
      BY <2>1, LimitAssumption DEF TypeOK
    <3>3. k * Datagrams \in Nat /\ asked * Datagrams \in Nat
      BY <2>1, LimitAssumption DEF TypeOK
    <3> QED
      BY <3>1, <3>2, <3>3
  <2>. PICK p : p = asked * Datagrams
    OBVIOUS
  <2>3. heard <= p
    BY <2>1, <2>2, TopPhase, LimitAssumption DEF Within, TypeOK
  <2>4. Len(stack) \in Nat
    BY <2>1 DEF TypeOK
  <2>5. heard <= Limit * Datagrams
    <3>. PICK q : q = Limit * Datagrams
      OBVIOUS
    <3>1. q \in Nat
      BY LimitAssumption
    <3> QED
      BY <2>1, <2>2, <2>3, <3>1 DEF TypeOK
  <2> QED
    BY <2>1, <2>4, <2>5, LimitAssumption DEF Bounded, Within, TypeOK
<1> QED
  BY <1>1, Invariant, PTL

(* What is returned for a host is an address given for it or its aliases.  *)
THEOREM ReturnsRightAddress == Spec => []RightAddress
<1>1. IInv => RightAddress
  BY DEF IInv
<1> QED
  BY <1>1, Invariant, PTL

-----------------------------------------------------------------------------
(* Hostnames *)

(* From i on there are n letters, and then a dot or the end of the name. *)
Labelled(i, n) ==
  /\ \A k \in i .. i + n - 1 : k <= Len(hostname) /\ hostname[k] # Dot
  /\ i + n <= Len(hostname) => hostname[i + n] = Dot

(* A label has one length. *)
LEMMA OneLength ==
  ASSUME hostname \in Seq(Char \cup {Dot}), NEW i \in 1 .. Len(hostname), NEW n \in 0 .. Len(hostname), Labelled(i, n)
  PROVE  E!Length(i) = n
<1> DEFINE m == E!Length(i)
<1>1. m \in 0 .. Len(hostname) /\ Labelled(i, m)
  BY DEF E!Length, Labelled
<1> HIDE DEF m
<1>2. ASSUME NEW a \in 0 .. Len(hostname), NEW b \in 0 .. Len(hostname), Labelled(i, a), Labelled(i, b), a < b
      PROVE  FALSE
  <2>1. i + a \in i .. i + b - 1
    BY <1>2
  <2>2. i + a <= Len(hostname) /\ hostname[i + a] # Dot
    BY <1>2, <2>1 DEF Labelled
  <2> QED
    BY <1>2, <2>2 DEF Labelled
<1>3. Len(hostname) \in Nat
  OBVIOUS
<1>4. ~ (m < n) /\ ~ (n < m)
  BY <1>1, <1>2
<1> QED
  BY <1>1, <1>3, <1>4 DEF m

(* A hostname is a sequence of letters and dots. *)
LEMMA HostnameIsSeq ==
  ASSUME NEW h \in E!Hostname
  PROVE  h \in Seq(Char \cup {Dot}) /\ Len(h) \in Nat
<1>1. PICK n \in 0 .. MaxHost : h \in [1 .. n -> Char \cup {Dot}]
  BY DEF E!Hostname, E!SeqOf
<1>2. n \in Nat
  BY EncodeAssumption
<1> QED
  BY <1>1, <1>2

(* At first, nothing is written. *)
LEMMA EncodeStarts ==
  ASSUME E!Init
  PROVE  E!IInv
<1>1. hostname \in E!Hostname
  BY DEF E!Init
<1>2. hostname \in Seq(Char \cup {Dot}) /\ Len(hostname) \in Nat
  BY <1>1, HostnameIsSeq
<1>3. in = SubSeq(hostname, 1, Len(hostname)) /\ encoded = <<>> /\ state = "loop"
  BY <1>2, SubSeqFull DEF E!Init
<1>4. E!TypeOK
  <2>1. in \in {SubSeq(hostname, i, Len(hostname)) : i \in 1 .. Len(hostname) + 1}
    BY <1>2, <1>3
  <2> QED
    BY <1>1, <1>3, <2>1, NamesAssumption DEF E!TypeOK
<1>5. E!Written
  <2>1. 0 < Len(hostname) => 1 \in E!Starts
    BY <1>2 DEF E!Starts
  <2>2. ~ (0 < Len(hostname)) => 0 = E!WireLen - 1
    BY <1>2 DEF E!WireLen
  <2>3. Len(encoded) = 0
    BY <1>3
  <2>4. \A i \in E!Starts : ~ (i <= 0)
    BY <1>2 DEF E!Starts
  <2>5. in = SubSeq(hostname, 0 + 1, Len(hostname))
    BY <1>3
  <2> QED
    BY <1>2, <2>1, <2>2, <2>3, <2>4, <2>5 DEF E!Written
<1> QED
  BY <1>3, <1>4, <1>5 DEF E!IInv, E!Encoded

(* The first label of what is left, which IsLength measures, is the one    *)
(* that starts there in the hostname.                                      *)
LEMMA LabelThere ==
  ASSUME E!TypeOK, E!Written, state = "loop", in # <<>>, NEW n \in 0 .. Len(in), E!IsLength(n)
  PROVE  /\ hostname \in Seq(Char \cup {Dot}) /\ Len(hostname) \in Nat /\ Len(encoded) \in Nat
         /\ Len(encoded) + 1 \in E!Starts /\ E!Length(Len(encoded) + 1) = n
         /\ Len(in) = Len(hostname) - Len(encoded) /\ Len(encoded) < Len(hostname)
         /\ \A k \in 1 .. Len(in) : in[k] = hostname[Len(encoded) + k]
         /\ \A k \in Len(encoded) + 1 .. Len(encoded) + n : hostname[k] # Dot
         /\ Len(encoded) + n + 1 <= Len(hostname) => hostname[Len(encoded) + n + 1] = Dot
<1> DEFINE p == Len(encoded)
           l == Len(hostname)
<1>1. hostname \in Seq(Char \cup {Dot}) /\ l \in Nat /\ p \in Nat
  BY HostnameIsSeq DEF E!TypeOK
<1>2. in = SubSeq(hostname, p + 1, l)
  BY DEF E!Written
<1>3. p < l
  <2>1. p >= l => SubSeq(hostname, p + 1, l) = <<>>
    BY <1>1, SubSeqEmpty
  <2> QED
    BY <1>1, <1>2, <2>1
<1>4. p + 1 \in E!Starts
  BY <1>3 DEF E!Written
<1>5. Len(in) = l - p /\ \A k \in 1 .. Len(in) : in[k] = hostname[p + k]
  BY <1>1, <1>2, <1>3
<1>6. \A k \in p + 1 .. p + n : hostname[k] # Dot
  <2> SUFFICES ASSUME NEW k \in p + 1 .. p + n PROVE hostname[k] # Dot
    OBVIOUS
  <2>1. k - p \in 1 .. n /\ k - p \in 1 .. Len(in) /\ p + (k - p) = k
    BY <1>1, <1>5
  <2> QED
    BY <1>5, <2>1 DEF E!IsLength
<1>7. p + n + 1 <= l => hostname[p + n + 1] = Dot
  <2> SUFFICES ASSUME p + n + 1 <= l PROVE hostname[p + n + 1] = Dot
    OBVIOUS
  <2>1. n < Len(in) /\ n + 1 \in 1 .. Len(in) /\ p + (n + 1) = p + n + 1
    BY <1>1, <1>5
  <2> QED
    BY <1>5, <2>1 DEF E!IsLength
<1>8. Labelled(p + 1, n)
  BY <1>1, <1>5, <1>6, <1>7 DEF Labelled
<1>9. p + 1 \in 1 .. l /\ n \in 0 .. l
  BY <1>1, <1>3, <1>5
<1>10. E!Length(p + 1) = n
  BY <1>1, <1>8, <1>9, OneLength
<1> QED
  BY <1>1, <1>3, <1>4, <1>5, <1>6, <1>7, <1>10

(* What stands for the label and its length in the encoded name. *)
LEMMA LabelWritten ==
  ASSUME E!TypeOK, E!Written, state = "loop", in # <<>>, NEW n \in 0 .. Len(in), E!IsLength(n), n > 0
  PROVE  /\ Len(encoded) + n + 1 <= E!WireLen - 1
         /\ E!Wire[Len(encoded) + 1] = n
         /\ \A k \in 1 .. n : E!Wire[Len(encoded) + 1 + k] = in[k] /\ in[k] \in Char
         /\ \A j \in E!Starts : j <= Len(encoded) + n + 1 => j <= Len(encoded) + 1
<1> DEFINE p == Len(encoded)
           l == Len(hostname)
<1>1. /\ hostname \in Seq(Char \cup {Dot}) /\ l \in Nat /\ p \in Nat
      /\ p + 1 \in E!Starts /\ E!Length(p + 1) = n
      /\ Len(in) = l - p /\ p < l
      /\ \A k \in 1 .. Len(in) : in[k] = hostname[p + k]
      /\ \A k \in p + 1 .. p + n : hostname[k] # Dot
      /\ p + n + 1 <= l => hostname[p + n + 1] = Dot
  BY LabelThere
<1>num. p \in Nat /\ l \in Nat /\ n \in Nat \ {0}
  BY <1>1
<1> HIDE DEF p, l
<1>2. E!WireLen = l + (IF hostname[l] = Dot THEN 1 ELSE 2) /\ l > 0
  BY <1>1 DEF E!WireLen, l
<1>3. p + n + 1 <= E!WireLen - 1
  <2>1. CASE n < l - p
    BY <1>1, <1>2, <2>1
  <2>2. CASE n = l - p
    <3>1. l \in p + 1 .. p + n
      BY <1>1, <2>2
    <3> QED
      BY <1>1, <1>2, <2>2, <3>1
  <2> QED
    BY <1>1, <2>1, <2>2
<1>4. E!WireLen \in Nat
  BY <1>1, <1>2
<1>5. E!Wire[p + 1] = n
  <2>1. p + 1 \in 1 .. E!WireLen
    BY <1>1, <1>3, <1>4
  <2> QED
    BY <1>1, <2>1 DEF E!Wire
<1>6. \A k \in 1 .. n : p + 1 + k \notin E!Starts
  <2> SUFFICES ASSUME NEW k \in 1 .. n, p + 1 + k \in E!Starts PROVE FALSE
    OBVIOUS
  <2>1. p + 1 + k # 1 /\ p + 1 + k - 1 = p + k /\ p + k \in p + 1 .. p + n
    BY <1>1
  <2>2. \A j \in E!Starts : j = 1 \/ hostname[j - 1] = Dot
    BY DEF E!Starts
  <2>3. p + 1 + k \in E!Starts
    OBVIOUS
  <2>4. hostname[p + 1 + k - 1] = Dot
    BY ONLY <1>num, <2>1, <2>2, <2>3
  <2> QED
    BY <1>1, <2>1, <2>4
<1>7. ASSUME NEW k \in 1 .. n PROVE E!Wire[p + 1 + k] = in[k] /\ in[k] \in Char
  <2>1. p + 1 + k \in 1 .. E!WireLen /\ p + 1 + k # E!WireLen /\ p + 1 + k - 1 = p + k
    BY <1>1, <1>3, <1>4
  <2>2. \A j \in 1 .. E!WireLen : j \notin E!Starts /\ j # E!WireLen => E!Wire[j] = hostname[j - 1]
    BY DEF E!Wire
  <2>5. E!Wire[p + 1 + k] = hostname[p + 1 + k - 1]
    <3>1. p + 1 + k \notin E!Starts
      BY <1>6
    <3> QED
      BY ONLY <1>num, <1>4, <2>1, <2>2, <3>1
  <2>3. k \in 1 .. Len(in) /\ p + k \in p + 1 .. p + n /\ p + k \in 1 .. l
    BY <1>1
  <2>4. hostname[p + k] \in Char \cup {Dot} /\ hostname[p + k] # Dot
    BY <1>1, <2>3 DEF l
  <2> QED
    BY <1>1, <2>1, <2>3, <2>4, <2>5
<1>8. ASSUME NEW j \in E!Starts, j <= p + n + 1 PROVE j <= p + 1
  <2>1. j \in Int
    BY DEF E!Starts
  <2>2. ASSUME j > p + 1 PROVE FALSE
    <3>1. j - p - 1 \in 1 .. n /\ p + 1 + (j - p - 1) = j
      BY <1>1, <1>8, <2>1, <2>2
    <3>2. p + 1 + (j - p - 1) \notin E!Starts
      BY <1>6, <3>1
    <3> QED
      BY <1>8, <3>1, <3>2
  <2> QED
    BY <1>1, <2>1, <2>2
<1> QED
  BY <1>3, <1>5, <1>7, <1>8 DEF p

(* What is left of what was left. *)
LEMMA TailOfTail ==
  ASSUME NEW S, NEW h \in Seq(S), NEW a \in 1 .. Len(h), NEW b \in Nat \ {0}
  PROVE  SubSeq(SubSeq(h, a, Len(h)), b, Len(h) - a + 1) = SubSeq(h, a + b - 1, Len(h))
<1> DEFINE l == Len(h)
           t == SubSeq(h, a, l)
<1>1. l \in Nat /\ a \in 1 .. l
  OBVIOUS
<1>2. t \in Seq(S) /\ Len(t) = l - a + 1 /\ \A i \in 1 .. l - a + 1 : t[i] = h[a + i - 1]
  OBVIOUS
<1>3. CASE b > l - a + 1
  <2>1. SubSeq(t, b, l - a + 1) = <<>>
    BY ONLY <1>1, <1>3, b \in Nat \ {0}, SubSeqEmpty
  <2>2. a + b - 1 > l /\ a + b - 1 \in Int
    BY ONLY <1>1, <1>3, b \in Nat \ {0}
  <2>3. SubSeq(h, a + b - 1, l) = <<>>
    BY ONLY <1>1, <2>2, SubSeqEmpty
  <2> QED
    BY <2>1, <2>3
<1>4. CASE b <= l - a + 1
  <2>1. b \in 1 .. l - a + 1
    BY <1>1, <1>4
  <2>2. l - a + 1 \in 1 .. l - a + 1
    BY <1>1, <2>1
  <2>3. SubSeq(SubSeq(h, a, l), b, l - a + 1) = SubSeq(h, a + b - 1, a + (l - a + 1) - 1)
    BY <1>1, <2>1, <2>2, SubSeqOfSubSeq
  <2>4. a + (l - a + 1) - 1 = l
    BY <1>1
  <2> QED
    BY <2>3, <2>4
<1> QED
  BY <1>1, <1>3, <1>4

(* A label, its length first, is added to what was written. *)
LEMMA CopyLabelKeeps ==
  ASSUME E!IInv, NEW n \in 0 .. Len(in), E!CopyLabel(n)
  PROVE  E!IInv'
<1> DEFINE p == Len(encoded)
           l == Len(hostname)
           label == <<n>> \o SubSeq(in, 1, n)
<1>1. E!TypeOK /\ E!Written /\ state = "loop" /\ in # <<>> /\ E!IsLength(n) /\ n > 0
  BY DEF E!IInv, E!CopyLabel, E!InLoop
<1>2. /\ hostname \in Seq(Char \cup {Dot}) /\ l \in Nat /\ p \in Nat
      /\ p + 1 \in E!Starts /\ E!Length(p + 1) = n
      /\ Len(in) = l - p /\ p < l
      /\ \A k \in 1 .. Len(in) : in[k] = hostname[p + k]
      /\ p + n + 1 <= l => hostname[p + n + 1] = Dot
  BY <1>1, LabelThere
<1>3. /\ p + n + 1 <= E!WireLen - 1
      /\ E!Wire[p + 1] = n
      /\ \A k \in 1 .. n : E!Wire[p + 1 + k] = in[k] /\ in[k] \in Char
      /\ \A j \in E!Starts : j <= p + n + 1 => j <= p + 1
  BY <1>1, LabelWritten
<1>4. /\ encoded' = (encoded \o <<n>>) \o SubSeq(in, 1, n) /\ in' = E!Rest(n)
      /\ UNCHANGED <<hostname, state>> /\ p + n + 1 <= OutSize /\ n <= LabelMax
  BY DEF E!CopyLabel
<1>5. /\ in = SubSeq(hostname, p + 1, l)
      /\ \A j \in 1 .. p : encoded[j] = E!Wire[j]
      /\ \A i \in E!Starts : i <= p => E!Length(i) \in 1 .. LabelMax
  BY <1>1 DEF E!Written
<1>6. encoded \in Seq(Char \cup Nat) /\ in \in Seq(Char \cup {Dot})
  BY <1>1, <1>2, <1>5 DEF E!TypeOK
<1>7. encoded' = encoded \o label /\ label \in Seq(Char \cup Nat) /\ Len(label) = n + 1 /\ label[1] = n /\ \A k \in 1 .. n : label[k + 1] = in[k]
  <2>1. SubSeq(in, 1, n) \in Seq(Char \cup Nat) /\ Len(SubSeq(in, 1, n)) = n /\ \A k \in 1 .. n : SubSeq(in, 1, n)[k] = in[k]
    <3>1. \A k \in 1 .. n : in[k] \in Char \cup Nat
      BY <1>3
    <3>2. \A k \in 1 .. n - 1 + 1 : SubSeq(in, 1, n)[k] = in[1 + k - 1]
      BY <3>1, SubSeqProperties
    <3> QED
      BY <3>1, <3>2, SubSeqProperties
  <2>2. <<n>> \in Seq(Char \cup Nat)
    BY <1>2
  <2>3. encoded' = encoded \o label
    <3>1. encoded \in Seq(Char \cup Nat) /\ SubSeq(in, 1, n) \in Seq(Char \cup Nat)
      BY <1>6, <2>1
    <3>2. (encoded \o <<n>>) \o SubSeq(in, 1, n) = encoded \o (<<n>> \o SubSeq(in, 1, n))
      BY ONLY <2>2, <3>1, ConcatAssociative
    <3> QED
      BY <1>4, <3>2
  <2> QED
    BY <2>1, <2>2, <2>3
<1>num. p \in Nat /\ l \in Nat /\ n \in Nat \ {0} /\ n <= l - p /\ p < l /\ Len(in) = l - p
  BY <1>1, <1>2
<1> HIDE DEF label, p, l
<1>8. /\ encoded' \in Seq(Char \cup Nat) /\ Len(encoded') = p + n + 1
      /\ \A j \in 1 .. p : encoded'[j] = encoded[j]
      /\ \A k \in 1 .. n + 1 : encoded'[p + k] = label[k]
  <2>1. Len(encoded) = p /\ p \in Nat /\ Len(label) = n + 1 /\ n \in Nat
    BY <1>num, <1>7 DEF p
  <2>2. /\ encoded \o label \in Seq(Char \cup Nat)
        /\ Len(encoded \o label) = p + (n + 1)
        /\ \A i \in 1 .. p + (n + 1) : (encoded \o label)[i] = IF i <= p THEN encoded[i] ELSE label[i - p]
    <3>1. encoded \in Seq(Char \cup Nat) /\ label \in Seq(Char \cup Nat)
      BY <1>6, <1>7
    <3>2. /\ encoded \o label \in Seq(Char \cup Nat)
          /\ Len(encoded \o label) = Len(encoded) + Len(label)
          /\ \A i \in 1 .. Len(encoded) + Len(label) :
               (encoded \o label)[i] = IF i <= Len(encoded) THEN encoded[i] ELSE label[i - Len(encoded)]
      BY ONLY <3>1, ConcatProperties
    <3> QED
      BY <2>1, <3>2
  <2>3. \A k \in 1 .. n + 1 : p + k \in 1 .. p + (n + 1) /\ ~ (p + k <= p) /\ p + k - p = k
    BY <2>1
  <2> QED
    BY <1>7, <2>1, <2>2, <2>3
<1>9. in' = SubSeq(hostname, p + n + 2, l)
  <2> DEFINE first == IF n < Len(in) THEN n + 2 ELSE n + 1
  <2>1. in' = SubSeq(in, first, Len(in))
    BY <1>4 DEF E!Rest
  <2>2. first \in Nat \ {0} /\ Len(in) = l - (p + 1) + 1
    BY <1>num
  <2>3. SubSeq(SubSeq(hostname, p + 1, l), first, l - (p + 1) + 1) = SubSeq(hostname, p + 1 + first - 1, l)
    <3>1. p + 1 \in 1 .. l
      BY <1>num
    <3> HIDE DEF first
    <3> QED
      BY <1>2, <2>2, <3>1, TailOfTail DEF l
  <2>4. CASE n < Len(in)
    <3>1. p + 1 + first - 1 = p + n + 2
      BY <1>num, <2>4
    <3> QED
      BY <1>5, <2>1, <2>2, <2>3, <3>1
  <2>5. CASE ~ (n < Len(in))
    <3>1. p + 1 + first - 1 > l /\ p + 1 + first - 1 \in Int /\ p + n + 2 > l /\ p + n + 2 \in Int /\ l \in Int
      BY <1>num, <2>5
    <3> HIDE DEF first
    <3>2. SubSeq(hostname, p + n + 2, l) = <<>> /\ SubSeq(hostname, p + 1 + first - 1, l) = <<>>
      BY ONLY <3>1, SubSeqEmpty
    <3> QED
      BY <1>5, <2>1, <2>2, <2>3, <3>2
  <2> QED
    BY <2>4, <2>5
<1>10. E!Starts' = E!Starts /\ E!WireLen' = E!WireLen /\ E!Wire' = E!Wire /\ (\A i : E!Length(i)' = E!Length(i))
  BY <1>4 DEF E!Starts, E!WireLen, E!Wire, E!Length
<1>11. E!TypeOK'
  <2>1. \E i \in 1 .. l + 1 : in' = SubSeq(hostname, i, l)
    <3>1. CASE p + n + 2 <= l + 1
      <4>1. p + n + 2 \in 1 .. l + 1
        BY <1>num, <3>1
      <4> QED
        BY <1>9, <4>1
    <3>2. CASE p + n + 2 > l + 1
      <4>1. l + 1 \in 1 .. l + 1 /\ l + 1 \in Int /\ l \in Int /\ l < l + 1 /\ p + n + 2 \in Int /\ l < p + n + 2
        BY <1>num, <3>2
      <4>2. SubSeq(hostname, p + n + 2, l) = <<>> /\ SubSeq(hostname, l + 1, l) = <<>>
        BY ONLY <4>1, SubSeqEmpty
      <4> QED
        BY <1>9, <4>1, <4>2
    <3> QED
      BY <1>num, <3>1, <3>2
  <2> QED
    BY <1>1, <1>4, <1>8, <2>1 DEF E!TypeOK, l
<1>12. E!Written'
  <2>1. in' = SubSeq(hostname, (p + n + 1) + 1, l)
    BY <1>2, <1>9
  <2>2. IF p + n + 1 < l THEN (p + n + 1) + 1 \in E!Starts ELSE p + n + 1 = E!WireLen - 1
    <3>1. CASE p + n + 1 < l
      <4>1. (p + n + 1) + 1 \in 1 .. l /\ (p + n + 1) + 1 - 1 = p + n + 1
        BY <1>2, <3>1
      <4> QED
        BY <1>2, <3>1, <4>1 DEF E!Starts, l
    <3>2. CASE p + n + 1 >= l
      <4>1. E!WireLen <= l + 2 /\ E!WireLen \in Nat
        BY <1>2 DEF E!WireLen, l
      <4>2. p + n + 1 = l => E!WireLen = l + 1
        <5>1. p + n + 1 = l => hostname[l] = Dot
          BY <1>num, <1>2
        <5> QED
          BY <5>1 DEF E!WireLen, l
      <4> QED
        BY <1>2, <1>3, <3>2, <4>1, <4>2
    <3> QED
      BY <1>2, <3>1, <3>2
  <2>3. ASSUME NEW j \in 1 .. p + n + 1 PROVE encoded'[j] = E!Wire[j]
    <3>1. CASE j <= p
      <4>1. j \in 1 .. p
        BY <1>num, <3>1
      <4> QED
        BY ONLY <1>5, <1>8, <4>1
    <3>2. CASE j = p + 1
      BY <1>2, <1>3, <1>7, <1>8, <3>2
    <3>3. CASE j > p + 1
      <4>1. j - p - 1 \in 1 .. n /\ j - p \in 1 .. n + 1 /\ p + (j - p) = j /\ p + 1 + (j - p - 1) = j /\ (j - p - 1) + 1 = j - p
        BY ONLY <1>num, <3>3, j \in 1 .. p + n + 1
      <4> QED
        <5>1. encoded'[p + (j - p)] = label[j - p]
          BY ONLY <1>8, <4>1
        <5> QED
          BY <1>3, <1>7, <4>1, <5>1
    <3> QED
      BY <1>2, <3>1, <3>2, <3>3
  <2>4. ASSUME NEW i \in E!Starts, i <= p + n + 1 PROVE E!Length(i) \in 1 .. LabelMax
    <3>1. i <= p + 1 /\ i \in Nat
      BY <1>3, <2>4 DEF E!Starts
    <3>2. E!Length(p + 1) \in 1 .. LabelMax
      BY <1>1, <1>2, <1>4
    <3> QED
      BY <1>2, <1>5, <3>1, <3>2
  <2> QED
    BY <1>4, <1>8, <1>10, <2>1, <2>2, <2>3, <2>4 DEF E!Written, l
<1>13. E!Encoded'
  BY <1>1, <1>4 DEF E!Encoded
<1> QED
  BY <1>11, <1>12, <1>13 DEF E!IInv

(* The terminator makes the name whole. *)
LEMMA TerminateKeeps ==
  ASSUME E!IInv, E!Terminate
  PROVE  E!IInv'
<1> DEFINE p == Len(encoded)
           l == Len(hostname)
<1>1. /\ E!TypeOK /\ E!Written /\ state = "loop" /\ in = <<>> /\ p < OutSize
      /\ encoded' = Append(encoded, 0) /\ state' = "done" /\ UNCHANGED <<hostname, in>>
  BY DEF E!IInv, E!Terminate, E!InLoop
<1>2. hostname \in Seq(Char \cup {Dot}) /\ l \in Nat /\ p \in Nat /\ encoded \in Seq(Char \cup Nat)
  BY <1>1, HostnameIsSeq DEF E!TypeOK
<1>3. /\ in = SubSeq(hostname, p + 1, l)
      /\ IF p < l THEN p + 1 \in E!Starts ELSE p = E!WireLen - 1
      /\ \A j \in 1 .. p : encoded[j] = E!Wire[j]
      /\ \A i \in E!Starts : i <= p => E!Length(i) \in 1 .. LabelMax
  BY <1>1 DEF E!Written
<1>4. ~ (p < l)
  <2>1. p < l => Len(SubSeq(hostname, p + 1, l)) > 0
    BY <1>2
  <2> QED
    BY <1>1, <1>3, <2>1
<1>5. p = E!WireLen - 1 /\ E!WireLen = p + 1
  <2>1. E!WireLen \in Nat
    BY <1>2 DEF E!WireLen
  <2> QED
    BY <1>2, <1>3, <1>4, <2>1
<1>6. \A i \in E!Starts : i \in 1 .. l /\ i <= p
  BY <1>2, <1>4 DEF E!Starts
<1>7. E!IsName
  BY <1>3, <1>6 DEF E!IsName
<1> HIDE DEF p, l
<1>8. E!WireLen \in 1 .. E!WireLen /\ E!WireLen \notin E!Starts
  BY <1>2, <1>5, <1>6
<1>9. /\ DOMAIN E!Wire = 1 .. p + 1 /\ E!Wire[p + 1] = 0 /\ E!Wire = [j \in 1 .. p + 1 |-> E!Wire[j]]
  BY <1>5, <1>8 DEF E!Wire
<1>10. /\ encoded' \in Seq(Char \cup Nat) /\ Len(encoded') = p + 1
       /\ \A j \in 1 .. p : encoded'[j] = encoded[j]
       /\ encoded'[p + 1] = 0
  <2>1. 0 \in Char \cup Nat
    OBVIOUS
  <2> QED
    BY <1>1, <1>2, <2>1 DEF p
<1>11. encoded' = E!Wire
  <2>1. encoded' = [j \in 1 .. p + 1 |-> encoded'[j]]
    BY <1>2, <1>10
  <2>2. \A j \in 1 .. p + 1 : encoded'[j] = E!Wire[j]
    <3> SUFFICES ASSUME NEW j \in 1 .. p + 1 PROVE encoded'[j] = E!Wire[j]
      OBVIOUS
    <3>1. j \in 1 .. p \/ j = p + 1
      BY <1>2
    <3> QED
      BY <1>3, <1>9, <1>10, <3>1
  <2> QED
    BY ONLY <1>9, <2>1, <2>2
<1>12. E!IsName' = E!IsName /\ E!Wire' = E!Wire
  BY <1>1 DEF E!IsName, E!Starts, E!Length, E!Wire, E!WireLen
<1>13. E!TypeOK'
  <2>1. Len(encoded') <= OutSize
    BY <1>1, <1>2, <1>10, NamesAssumption DEF p
  <2> QED
    BY <1>1, <1>10, <2>1 DEF E!TypeOK
<1>14. E!Written' /\ E!Encoded'
  BY <1>1, <1>7, <1>11, <1>12 DEF E!Written, E!Encoded
<1> QED
  BY <1>13, <1>14 DEF E!IInv

(* What is refused has a label or is itself too long. *)
LEMMA RefuseKeeps ==
  ASSUME E!IInv, E!Refuse
  PROVE  E!IInv'
<1> DEFINE p == Len(encoded)
           l == Len(hostname)
<1>1. E!TypeOK /\ E!Written /\ state = "loop" /\ state' = "failed" /\ UNCHANGED <<hostname, in, encoded>>
  BY DEF E!IInv, E!Refuse
<1>2. hostname \in Seq(Char \cup {Dot}) /\ l \in Nat /\ p \in Nat /\ p <= OutSize
  BY <1>1, HostnameIsSeq DEF E!TypeOK
<1>3. E!WireLen \in Nat /\ E!WireLen >= l + 1
  BY <1>2 DEF E!WireLen
<1>4. ~ E!IsName \/ E!WireLen > OutSize
  <2>1. CASE p = OutSize
    <3>1. IF p < l THEN p + 1 \in E!Starts ELSE p = E!WireLen - 1
      BY <1>1 DEF E!Written
    <3>2. E!WireLen > p
      BY <1>2, <1>3, <3>1
    <3> QED
      BY <2>1, <3>2
  <2>2. CASE p < OutSize
    <3>1. PICK n \in 0 .. Len(in) : in # <<>> /\ E!IsLength(n) /\ (n = 0 \/ n > LabelMax \/ p + n + 1 > OutSize)
      BY <2>2 DEF E!Refuse
    <3>2. p + 1 \in E!Starts /\ E!Length(p + 1) = n
      BY <1>1, <3>1, LabelThere
    <3>3. n \in Nat
      <4>1. Len(in) = l - p
        BY <1>1, <3>1, LabelThere
      <4> QED
        BY <1>2, <4>1
    <3>4. CASE n = 0 \/ n > LabelMax
      BY <3>2, <3>3, <3>4, EncodeAssumption DEF E!IsName
    <3>5. CASE n > 0 /\ p + n + 1 > OutSize
      <4>1. p + n + 1 <= E!WireLen - 1
        BY <1>1, <3>1, <3>5, LabelWritten
      <4> QED
        BY <1>2, <1>3, <3>3, <3>5, <4>1, NamesAssumption
    <3> QED
      BY <3>1, <3>3, <3>4, <3>5
  <2> QED
    BY <1>2, <2>1, <2>2, NamesAssumption
<1>5. E!IsName' = E!IsName /\ E!WireLen' = E!WireLen
  BY <1>1 DEF E!IsName, E!Starts, E!Length, E!WireLen
<1>6. E!TypeOK'
  BY <1>1 DEF E!TypeOK
<1> QED
  BY <1>1, <1>4, <1>5, <1>6 DEF E!IInv, E!Written, E!Encoded

(* Each step keeps the invariant of the encoding. *)
LEMMA EncodeKeeps ==
  ASSUME E!IInv, [E!Next]_(E!vars)
  PROVE  E!IInv'
<1>1. CASE UNCHANGED E!vars
  <2>1. UNCHANGED <<hostname, in, encoded, state>>
    BY <1>1 DEF E!vars
  <2>2. E!TypeOK'
    BY <2>1 DEF E!IInv, E!TypeOK
  <2>3. E!Starts' = E!Starts /\ E!WireLen' = E!WireLen /\ E!Wire' = E!Wire /\ (\A i : E!Length(i)' = E!Length(i))
    BY <2>1 DEF E!Starts, E!WireLen, E!Wire, E!Length
  <2>4. E!IsName' = E!IsName
    BY <2>3 DEF E!IsName
  <2>5. E!Written'
    BY <2>1, <2>3 DEF E!IInv, E!Written
  <2>6. E!Encoded'
    BY <2>1, <2>3, <2>4 DEF E!IInv, E!Encoded
  <2> QED
    BY <2>2, <2>5, <2>6 DEF E!IInv
<1> QED
  BY <1>1, CopyLabelKeeps, TerminateKeeps, RefuseKeeps DEF E!Next, E!Over

(* Any hostname, of any length, is written as what stands for it, or is    *)
(* refused for a reason, and so is the length of the query right.          *)
THEOREM EncodesHosts == E!Spec => []HostsEncoded
<1>1. E!Init => E!IInv
  BY EncodeStarts
<1>2. E!IInv /\ [E!Next]_(E!vars) => E!IInv'
  BY EncodeKeeps
<1>3. E!IInv => HostsEncoded
  <2> SUFFICES ASSUME E!IInv PROVE HostsEncoded
    OBVIOUS
  <2>1. E!TypeOK /\ E!Encoded
    BY DEF E!IInv
  <2>2. hostname \in Seq(Char \cup {Dot})
    BY <2>1, HostnameIsSeq DEF E!TypeOK
  <2>3. E!LengthAgrees
    <3> SUFFICES ASSUME state = "done", hostname # <<>>, hostname[Len(hostname)] # Dot
                 PROVE  E!EncLen = Len(encoded)
      BY DEF E!LengthAgrees
    <3>1. encoded = E!Wire /\ E!WireLen = Len(hostname) + 2
      BY <2>1 DEF E!Encoded, E!WireLen
    <3>2. Len(encoded) = E!WireLen
      BY <2>2, <3>1 DEF E!Wire
    <3> QED
      BY <3>1, <3>2 DEF E!EncLen
  <2> QED
    BY <2>1, <2>3 DEF HostsEncoded
<1> QED
  BY <1>1, <1>2, <1>3, PTL DEF E!Spec

-----------------------------------------------------------------------------
(* Packets *)

(* Bytes are numbers. *)
LEMMA ByteIs ==
  ASSUME NEW x \in N!Byte
  PROVE  x \in 0 .. 255 /\ x \in Nat
BY DEF N!Byte

(* What is in a packet is a byte. *)
LEMMA ByteAt ==
  ASSUME NEW b \in Seq(N!Byte), NEW p \in Nat, p < Len(b)
  PROVE  b[p + 1] \in 0 .. 255 /\ b[p + 1] \in Nat
<1>1. b[p + 1] \in N!Byte
  OBVIOUS
<1> QED
  BY ONLY <1>1, ByteIs

(* Behind a label there is a position. *)
LEMMA Beyond ==
  ASSUME NEW p \in Nat, NEW x \in 1 .. 191
  PROVE  p + 1 + x \in Nat
OBVIOUS

(* The walk over labels, label by label. *)
LEMMA LabelsEndIs ==
  ASSUME NEW b, b \in Seq(N!Byte)
  PROVE  /\ N!LabelsEnd(b) \in [Nat -> [Nat -> Nat]]
         /\ \A n \in Nat, p \in Nat :
              N!LabelsEnd(b)[n][p] =
                IF p >= Len(b) THEN Len(b)
                ELSE IF b[p + 1] \notin 1 .. 191 THEN p
                ELSE IF n = 0 THEN Len(b)
                ELSE N!LabelsEnd(b)[n - 1][p + 1 + b[p + 1]]
<1> DEFINE S == [Nat -> Nat]
           c == [p \in Nat |-> IF p >= Len(b) THEN Len(b) ELSE IF b[p + 1] \notin 1 .. 191 THEN p ELSE Len(b)]
           G == [g \in S |->
                  [p \in Nat |-> IF p >= Len(b) THEN Len(b) ELSE IF b[p + 1] \notin 1 .. 191 THEN p
                                 ELSE g[p + 1 + b[p + 1]]]]
           Body(f, n) == [p \in Nat |->
                            IF p >= Len(b) THEN Len(b)
                            ELSE IF b[p + 1] \notin 1 .. 191 THEN p
                            ELSE IF n = 0 THEN Len(b)
                            ELSE f[n - 1][p + 1 + b[p + 1]]]
<1>1. Len(b) \in Nat
  OBVIOUS
<1>2. c \in S
  BY <1>1
<1>3. G \in [S -> S]
  <2>1. ASSUME NEW g \in S
        PROVE  [p \in Nat |-> IF p >= Len(b) THEN Len(b) ELSE IF b[p + 1] \notin 1 .. 191 THEN p
                                 ELSE g[p + 1 + b[p + 1]]] \in S
    <3>1. ASSUME NEW p \in Nat, b[p + 1] \in 1 .. 191 PROVE g[p + 1 + b[p + 1]] \in Nat
      <4>1. p + 1 + b[p + 1] \in Nat
        BY ONLY <3>1, Beyond
      <4> QED
        BY <4>1
    <3> QED
      BY <1>1, <3>1
  <2> QED
    BY <2>1
<1> HIDE DEF S
<1> HIDE DEF c, G
<1>4. PICK h \in [Nat -> S] : h[0] = c /\ \A n \in Nat : h[n + 1] = G[h[n]]
  BY ONLY <1>2, <1>3, Recursion
<1> USE DEF c, G
<1>5. ASSUME NEW n \in Nat PROVE h[n] = Body(h, n)
  <2>1. CASE n = 0
    BY <1>4, <2>1
  <2>2. CASE n # 0
    <3>1. n - 1 \in Nat /\ (n - 1) + 1 = n
      BY <2>2
    <3>2. h[n] = G[h[n - 1]] /\ h[n - 1] \in S
      BY <1>4, <3>1
    <3>3. G[h[n - 1]] = [p \in Nat |-> IF p >= Len(b) THEN Len(b) ELSE IF b[p + 1] \notin 1 .. 191 THEN p
                                 ELSE h[n - 1][p + 1 + b[p + 1]]]
      BY <3>2
    <3> HIDE DEF G
    <3> QED
      BY <2>2, <3>2, <3>3
  <2> QED
    BY <2>1, <2>2
<1> DEFINE f == N!LabelsEnd(b)
<1>6. f = CHOOSE g : g = [n \in Nat |-> Body(g, n)]
  BY DEF N!LabelsEnd
<1>7. \E g : g = [n \in Nat |-> Body(g, n)]
  <2>1. h = [n \in Nat |-> h[n]]
    BY <1>4
  <2>2. h = [n \in Nat |-> Body(h, n)]
    <3> HIDE DEF Body
    <3> QED
      BY <1>5, <2>1
  <2> QED
    BY <2>2
<1>8. f = [n \in Nat |-> Body(f, n)]
  <2> HIDE DEF Body
  <2> QED
    BY ONLY <1>6, <1>7
<1> HIDE DEF f
<1>9. \A n \in Nat, p \in Nat :
        f[n][p] = IF p >= Len(b) THEN Len(b)
                  ELSE IF b[p + 1] \notin 1 .. 191 THEN p
                  ELSE IF n = 0 THEN Len(b)
                  ELSE f[n - 1][p + 1 + b[p + 1]]
  <2> SUFFICES ASSUME NEW n \in Nat, NEW p \in Nat
               PROVE  f[n][p] = IF p >= Len(b) THEN Len(b)
                  ELSE IF b[p + 1] \notin 1 .. 191 THEN p
                  ELSE IF n = 0 THEN Len(b)
                  ELSE f[n - 1][p + 1 + b[p + 1]]
    OBVIOUS
  <2>1. f[n] = Body(f, n)
    <3> HIDE DEF Body
    <3> QED
      BY ONLY <1>8, n \in Nat
  <2> QED
    BY <2>1
<1>10. f \in [Nat -> [Nat -> Nat]]
  <2>1. f[0] \in S
    <3>1. f[0] = Body(f, 0) /\ Body(f, 0) = c
      <4>1. f[0] = Body(f, 0)
        <5> HIDE DEF Body
        <5> QED
          BY <1>8
      <4> QED
        BY <4>1
    <3> QED
      BY <1>2, <3>1
  <2>2. ASSUME NEW n \in Nat, f[n] \in S PROVE f[n + 1] = G[f[n]]
    <3>1. n + 1 - 1 = n /\ n + 1 # 0 /\ n + 1 \in Nat
      OBVIOUS
    <3>2. f[n + 1] = Body(f, n + 1)
      <4> HIDE DEF Body
      <4> QED
        BY <1>8, <3>1
    <3>3. Body(f, n + 1) = [p \in Nat |-> IF p >= Len(b) THEN Len(b) ELSE IF b[p + 1] \notin 1 .. 191 THEN p
                               ELSE f[n][p + 1 + b[p + 1]]]
      BY ONLY <3>1
    <3>4. f[n] \in S
      BY <2>2
    <3> QED
      BY ONLY <3>2, <3>3, <3>4
  <2>3. \A n \in Nat : f[n] \in S
    <3> HIDE DEF G
    <3> QED
      BY ONLY <1>3, <2>1, <2>2, StaysIn
  <2>4. f = [n \in Nat |-> f[n]]
    <3> HIDE DEF Body
    <3> QED
      BY <1>8
  <2> QED
    BY <2>3, <2>4 DEF S
<1> QED
  BY <1>9, <1>10 DEF f

(* Enough labels can be passed to come to the end of any name, which is at *)
(* a terminator or a pointer, or at the end of the packet.                 *)
LEMMA OwnerEndIs ==
  ASSUME NEW b, b \in Seq(N!Byte), NEW p \in Nat
  PROVE  /\ N!OwnerEnd(b, p) \in 0 .. Len(b)
         /\ p <= Len(b) => p <= N!OwnerEnd(b, p)
         /\ N!OwnerEnd(b, p) < Len(b) => b[N!OwnerEnd(b, p) + 1] \notin 1 .. 191
<1> DEFINE f == N!LabelsEnd(b)
           l == Len(b)
           P == {n \in Nat : \A q \in Nat :
                   /\ f[n][q] \in 0 .. l
                   /\ q <= l => q <= f[n][q]
                   /\ q + n >= l /\ f[n][q] < l => b[f[n][q] + 1] \notin 1 .. 191}
<1>1. /\ l \in Nat
      /\ \A n \in Nat, q \in Nat :
           f[n][q] = IF q >= l THEN l
                     ELSE IF b[q + 1] \notin 1 .. 191 THEN q
                     ELSE IF n = 0 THEN l
                     ELSE f[n - 1][q + 1 + b[q + 1]]
  <2>1. l \in Nat
    OBVIOUS
  <2> QED
    BY <2>1, LabelsEndIs
<1> HIDE DEF f, l
<1>2. 0 \in P
  BY <1>1
<1>3. ASSUME NEW n \in P PROVE n + 1 \in P
  <2>1. n \in Nat /\ n + 1 \in Nat /\ n + 1 # 0 /\ n + 1 - 1 = n
    OBVIOUS
  <2> SUFFICES ASSUME NEW q \in Nat
               PROVE  /\ f[n + 1][q] \in 0 .. l
                      /\ q <= l => q <= f[n + 1][q]
                      /\ q + (n + 1) >= l /\ f[n + 1][q] < l => b[f[n + 1][q] + 1] \notin 1 .. 191
    BY <2>1
  <2>2. f[n + 1][q] = IF q >= l THEN l
                      ELSE IF b[q + 1] \notin 1 .. 191 THEN q
                      ELSE f[n][q + 1 + b[q + 1]]
    BY <1>1, <2>1
  <2>3. CASE q >= l \/ b[q + 1] \notin 1 .. 191
    <3>1. f[n + 1][q] = IF q >= l THEN l ELSE q
      BY <2>2, <2>3
    <3>2. l \in Nat
      BY <1>1
    <3> QED
      <4>1. CASE q >= l
        BY ONLY <3>1, <3>2, <4>1, q \in Nat
      <4>2. CASE ~ (q >= l)
        <5>1. f[n + 1][q] = q /\ b[q + 1] \notin 1 .. 191
          BY ONLY <2>3, <3>1, <4>2
        <5> QED
          BY ONLY <3>2, <4>2, <5>1, q \in Nat
      <4> QED
        BY ONLY <4>1, <4>2
  <2>4. CASE q < l /\ b[q + 1] \in 1 .. 191
    <3> DEFINE x == b[q + 1]
               r == q + 1 + x
    <3>1. x \in 1 .. 191
      BY <2>4
    <3> HIDE DEF x
    <3>2. r \in Nat /\ r > q /\ q + (n + 1) <= r + n
      BY ONLY <2>1, <3>1, q \in Nat
    <3>3. f[n + 1][q] = f[n][r]
      <4>1. ~ (q >= l) /\ ~ (b[q + 1] \notin 1 .. 191)
        BY ONLY <1>1, <2>4, q \in Nat
      <4> QED
        BY ONLY <2>2, <4>1 DEF r, x
    <3> HIDE DEF r
    <3>4. /\ f[n][r] \in 0 .. l
          /\ r <= l => r <= f[n][r]
          /\ r + n >= l /\ f[n][r] < l => b[f[n][r] + 1] \notin 1 .. 191
      BY <3>2
    <3>5. q <= f[n][r]
      <4>1. CASE r <= l
        BY <1>1, <2>4, <3>2, <3>4, <4>1
      <4>2. CASE r > l
        <5>1. f[n][r] = l
          BY <1>1, <2>1, <3>2, <4>2
        <5> QED
          BY <1>1, <2>4, <5>1
      <4> QED
        BY <1>1, <3>2, <4>1, <4>2
    <3> QED
      <4>1. q + (n + 1) >= l => r + n >= l
        BY ONLY <1>1, <2>1, <3>2, q \in Nat
      <4> QED
        BY ONLY <3>3, <3>4, <3>5, <4>1
  <2> QED
    <3>1. q >= l \/ q < l
      BY ONLY <1>1, q \in Nat
    <3> QED
      BY ONLY <2>3, <2>4, <3>1
<1>4. l \in P
  <2> HIDE DEF P
  <2>1. P \in SUBSET Nat
    BY DEF P
  <2>2. P = Nat
    BY ONLY <1>2, <1>3, <2>1, Induction
  <2> QED
    BY <1>1, <2>2
<1> QED
  <2>1. /\ f[l][p] \in 0 .. l
        /\ p <= l => p <= f[l][p]
        /\ p + l >= l /\ f[l][p] < l => b[f[l][p] + 1] \notin 1 .. 191
    BY ONLY <1>4, p \in Nat
  <2>2. p + l >= l
    BY ONLY <1>1, p \in Nat
  <2>3. N!OwnerEnd(b, p) = f[l][p]
    BY DEF N!OwnerEnd, f, l
  <2> QED
    BY ONLY <2>1, <2>2, <2>3 DEF l

(* Behind the name that owns a record there is a position. *)
LEMMA BehindIs ==
  ASSUME NEW b, b \in Seq(N!Byte), NEW p \in Nat
  PROVE  N!Behind(b, p) \in Nat
<1> DEFINE e == N!OwnerEnd(b, p)
<1>1. e \in Nat /\ e + 1 \in Nat /\ e + 2 \in Nat
  <2>1. e \in 0 .. Len(b) /\ Len(b) \in Nat
    BY OwnerEndIs
  <2> HIDE DEF e
  <2> QED
    BY ONLY <2>1
<1> HIDE DEF e
<1>2. N!Behind(b, p) \in {e + 1, e + 2}
  BY ONLY TRUE DEF N!Behind, e
<1> QED
  BY ONLY <1>1, <1>2

(* A record that is whole has an end, in the packet. *)
LEMMA RecordEndIs ==
  ASSUME NEW b, b \in Seq(N!Byte), NEW s \in Nat, s + N!StructSize <= Len(b)
  PROVE  N!RecordEnd(b, s) \in Nat
<1>1. s + 8 \in Nat /\ s + 9 \in Nat /\ s + 8 < Len(b) /\ s + 9 < Len(b)
  BY DEF N!StructSize
<1>2. b[s + 8 + 1] \in Nat /\ b[s + 9 + 1] \in Nat
  BY <1>1, ByteAt
<1>3. s + 10 - 2 + 1 = s + 8 + 1 /\ s + 10 - 2 + 2 = s + 9 + 1
  OBVIOUS
<1> DEFINE x == b[s + 8 + 1]
           y == b[s + 9 + 1]
<1>4. N!RecordEnd(b, s) = s + 10 + (256 * x + y)
  BY <1>3 DEF N!RecordEnd, N!Number, N!StructSize
<1>5. x \in Nat /\ y \in Nat
  BY <1>2
<1> HIDE DEF x, y
<1> QED
  BY ONLY <1>4, <1>5, s \in Nat

(* Where the records start, one behind the other. *)
LEMMA SectionIs ==
  ASSUME NEW b, b \in Seq(N!Byte)
  PROVE  /\ N!Section(b) \in [Nat -> Nat]
         /\ N!Section(b)[0] = Start
         /\ \A k \in Nat :
              N!Section(b)[k + 1] =
                IF N!IsWhole(b, N!Behind(b, N!Section(b)[k]))
                  THEN N!RecordEnd(b, N!Behind(b, N!Section(b)[k])) ELSE Len(b)
<1> DEFINE Step(r) == IF N!IsWhole(b, N!Behind(b, r)) THEN N!RecordEnd(b, N!Behind(b, r)) ELSE Len(b)
           Body(f, n) == IF n = 0 THEN Start ELSE Step(f[n - 1])
           G == [r \in Nat |-> Step(r)]
           S == Nat
           f == N!Section(b)
<1>1. ASSUME NEW r \in Nat PROVE Step(r) \in Nat
  <2>1. Len(b) \in Nat /\ N!Behind(b, r) \in Nat
    BY BehindIs
  <2>2. N!IsWhole(b, N!Behind(b, r)) => N!RecordEnd(b, N!Behind(b, r)) \in Nat
    BY <2>1, RecordEndIs DEF N!IsWhole
  <2> QED
    BY <2>1, <2>2
<1>2. f = CHOOSE g : g = [n \in Nat |-> Body(g, n)]
  BY DEF N!Section
<1> HIDE DEF Step, f
<1>3. G \in [S -> S] /\ Start \in S
  BY <1>1, NamesAssumption
<1> HIDE DEF G, S
<1>4. PICK h \in [Nat -> S] : h[0] = Start /\ \A n \in Nat : h[n + 1] = G[h[n]]
  BY ONLY <1>3, Recursion
<1> USE DEF G, S
<1>5. \E g : g = [n \in Nat |-> Body(g, n)]
  <2>1. ASSUME NEW n \in Nat PROVE h[n] = Body(h, n)
    <3>1. CASE n # 0
      <4>1. n - 1 \in Nat /\ (n - 1) + 1 = n /\ h[n - 1] \in Nat
        BY <1>4, <3>1
      <4> QED
        BY <1>4, <3>1, <4>1
    <3> QED
      BY <1>4, <3>1
  <2>2. h = [n \in Nat |-> h[n]]
    BY <1>4
  <2>3. h = [n \in Nat |-> Body(h, n)]
    <3> HIDE DEF Body
    <3> QED
      BY ONLY <2>1, <2>2
  <2> QED
    BY ONLY <2>3
<1>6. f = [n \in Nat |-> Body(f, n)]
  <2> HIDE DEF Body
  <2> QED
    BY ONLY <1>2, <1>5
<1>7. f[0] = Start /\ \A k \in Nat : f[k + 1] = Step(f[k])
  <2>1. \A n \in Nat : f[n] = Body(f, n)
    <3> HIDE DEF Body
    <3> QED
      BY ONLY <1>6
  <2>2. \A k \in Nat : k + 1 \in Nat /\ k + 1 # 0 /\ k + 1 - 1 = k
    OBVIOUS
  <2> QED
    BY ONLY <2>1, <2>2
<1>8. f \in [Nat -> Nat]
  <2>1. \A n \in Nat : f[n] \in S
    <3>1. \A n \in Nat : f[n] \in S => f[n + 1] = G[f[n]]
      BY <1>7
    <3>2. f[0] \in S
      BY <1>3, <1>7
    <3> HIDE DEF G, S
    <3> QED
      BY ONLY <1>3, <3>1, <3>2, StaysIn
  <2>2. f = [n \in Nat |-> f[n]]
    <3> HIDE DEF Body
    <3> QED
      BY ONLY <1>6
  <2> QED
    BY <2>1, <2>2
<1> QED
  BY <1>7, <1>8 DEF f, Step

(* A pointer points at a position. *)
LEMMA PointerIs ==
  ASSUME NEW b, b \in Seq(N!Byte), NEW p \in Nat, p + 1 < Len(b), b[p + 1] >= 192
  PROVE  /\ N!Pointer(b, p) \in Nat
         /\ N!Pointer(b, p) < 1024 => (256 * b[p + 1] + b[p + 2]) % 1024 = N!Pointer(b, p)
<1>1. p < Len(b) /\ p + 1 \in Nat /\ p + 1 + 1 = p + 2
  OBVIOUS
<1>2. b[p + 1] \in Nat /\ b[p + 2] \in Nat
  BY <1>1, ByteAt
<1> DEFINE x == b[p + 1]
           y == b[p + 2]
<1>3. x \in Nat /\ y \in Nat /\ x >= 192
  BY <1>2
<1>4. N!Pointer(b, p) = (256 * x + y) - 192 * 256
  <2>1. N!Number(b, p) = 256 * x + y
    BY Zenon DEF N!Number
  <2> HIDE DEF x, y
  <2>2. N!Pointer(b, p) = N!Number(b, p) - 192 * 256
    BY Zenon DEF N!Pointer
  <2> QED
    BY ONLY <2>1, <2>2, Zenon
<1> HIDE DEF x, y
<1>5. (256 * x + y) - 192 * 256 \in Nat
  BY ONLY <1>3
<1>6. ASSUME (256 * x + y) - 192 * 256 < 1024 PROVE (256 * x + y) % 1024 = (256 * x + y) - 192 * 256
  <2> DEFINE m == 256 * x + y
  <2>1. m \in Nat /\ m >= 49152 /\ m < 50176
    BY ONLY <1>3, <1>5, <1>6
  <2> HIDE DEF m
  <2>2. m % 1024 = m - 49152
    BY ONLY <2>1
  <2>3. m - 49152 = m - 192 * 256
    BY ONLY <2>1
  <2>4. m % 1024 = m - 192 * 256
    BY ONLY <2>2, <2>3
  <2> QED
    BY ONLY <2>4 DEF m
<1>7. N!Pointer(b, p) \in Nat /\ (N!Pointer(b, p) < 1024 => (256 * x + y) % 1024 = N!Pointer(b, p))
  BY ONLY <1>4, <1>5, <1>6
<1> QED
  BY ONLY <1>7 DEF x, y

(* A label of a name, with its length, is a part of the packet. *)
LEMMA LabelIs ==
  ASSUME NEW b, b \in Seq(N!Byte), NEW p \in Nat, p < Len(b), N!IsLabel(b, p)
  PROVE  /\ b[p + 1] \in 1 .. 63 /\ p + 1 + b[p + 1] \in Nat /\ p + 1 + b[p + 1] <= Len(b)
         /\ SubSeq(b, p + 1, p + 1 + b[p + 1]) \in Seq(N!Byte)
<1> DEFINE x == b[p + 1]
<1>1. x \in 1 .. 63 /\ p + x < Len(b)
  BY DEF N!IsLabel
<1> HIDE DEF x
<1>2. Len(b) \in Nat
  OBVIOUS
<1>3. p + 1 + x \in Nat /\ p + 1 + x <= Len(b)
  BY ONLY <1>1, <1>2, p \in Nat
<1>4. \A i \in p + 1 .. p + 1 + x : b[i] \in N!Byte
  BY <1>2, <1>3
<1>5. SubSeq(b, p + 1, p + 1 + x) \in Seq(N!Byte)
  <2>1. p + 1 \in Int /\ p + 1 + x \in Int
    BY <1>3
  <2> QED
    BY ONLY <1>4, <2>1, SubSeqProperties
<1> QED
  BY <1>1, <1>3, <1>5 DEF x

(* What a name stands for, if g says it of what is behind its first label  *)
(* or pointer.                                                             *)
Stands(b, g, p, q) ==
  IF p >= Len(b) THEN <<>>
  ELSE IF b[p + 1] = 0 THEN <<0>>
  ELSE IF b[p + 1] >= 192
    THEN IF p + 1 < Len(b) /\ N!Pointer(b, p) < q THEN g[N!Pointer(b, p)][N!Pointer(b, p)] ELSE <<>>
  ELSE IF N!IsLabel(b, p) /\ g[p + 1 + b[p + 1]][q] # <<>>
    THEN SubSeq(b, p + 1, p + 1 + b[p + 1]) \o g[p + 1 + b[p + 1]][q]
  ELSE <<>>

(* That is a sequence of bytes. *)
LEMMA StandsIs ==
  ASSUME NEW b, b \in Seq(N!Byte), NEW g \in [Nat -> [Nat -> Seq(N!Byte)]], NEW p \in Nat, NEW q \in Nat
  PROVE  Stands(b, g, p, q) \in Seq(N!Byte)
<1> DEFINE S == [Nat -> [Nat -> Seq(N!Byte)]]
<1>1. <<>> \in Seq(N!Byte) /\ <<0>> \in Seq(N!Byte)
  BY DEF N!Byte
<1>2. p + 1 < Len(b) /\ b[p + 1] >= 192 => g[N!Pointer(b, p)][N!Pointer(b, p)] \in Seq(N!Byte)
  <2> SUFFICES ASSUME p + 1 < Len(b), b[p + 1] >= 192 
               PROVE  g[N!Pointer(b, p)][N!Pointer(b, p)] \in Seq(N!Byte)
    OBVIOUS
  <2>1. N!Pointer(b, p) \in Nat
    BY ONLY b \in Seq(N!Byte), p \in Nat, p + 1 < Len(b), b[p + 1] >= 192, PointerIs, ZenonT(40)
  <2> QED
    BY ONLY <2>1, g \in S
<1>3. p < Len(b) /\ N!IsLabel(b, p) => SubSeq(b, p + 1, p + 1 + b[p + 1]) \o g[p + 1 + b[p + 1]][q] \in Seq(N!Byte)
  <2> SUFFICES ASSUME p < Len(b), N!IsLabel(b, p)
               PROVE  SubSeq(b, p + 1, p + 1 + b[p + 1]) \o g[p + 1 + b[p + 1]][q] \in Seq(N!Byte)
    OBVIOUS
  <2> DEFINE m == p + 1 + b[p + 1]
  <2>1. m \in Nat /\ SubSeq(b, p + 1, m) \in Seq(N!Byte)
    BY LabelIs
  <2> HIDE DEF m
  <2>2. g[m][q] \in Seq(N!Byte)
    BY ONLY <2>1, g \in S, q \in Nat
  <2>3. SubSeq(b, p + 1, m) \o g[m][q] \in Seq(N!Byte)
    BY ONLY <2>1, <2>2, ConcatProperties
  <2> QED
    BY ONLY <2>3 DEF m
<1>4. ~ (p >= Len(b)) => p < Len(b)
  OBVIOUS
<1> HIDE DEF S
<1> QED
  BY ONLY <1>1, <1>2, <1>3, <1>4 DEF Stands

(* What a name stands for, label by label. *)
LEMMA ExpansionIs ==
  ASSUME NEW b, b \in Seq(N!Byte)
  PROVE  /\ N!Expansion(b) \in [Nat -> [Nat -> [Nat -> Seq(N!Byte)]]]
         /\ \A p \in Nat, q \in Nat :
              N!Expansion(b)[0][p][q] = IF p < Len(b) /\ b[p + 1] = 0 THEN <<0>> ELSE <<>>
         /\ \A n \in Nat, p \in Nat, q \in Nat :
              N!Expansion(b)[n + 1][p][q] = Stands(b, N!Expansion(b)[n], p, q)
<1> DEFINE S == [Nat -> [Nat -> Seq(N!Byte)]]
           Base(p) == IF p < Len(b) /\ b[p + 1] = 0 THEN <<0>> ELSE <<>>
           Body(f, n) ==
             [p \in Nat |-> [below \in Nat |->
                IF p >= Len(b) THEN <<>>
                ELSE IF b[p + 1] = 0 THEN <<0>>
                ELSE IF n = 0 THEN <<>>
                ELSE IF b[p + 1] >= 192
                  THEN IF p + 1 < Len(b) /\ N!Pointer(b, p) < below
                         THEN f[n - 1][N!Pointer(b, p)][N!Pointer(b, p)] ELSE <<>>
                ELSE IF N!IsLabel(b, p) /\ f[n - 1][p + 1 + b[p + 1]][below] # <<>>
                  THEN SubSeq(b, p + 1, p + 1 + b[p + 1]) \o f[n - 1][p + 1 + b[p + 1]][below]
                ELSE <<>>]]
           c == [p \in Nat |-> [q \in Nat |-> Base(p)]]
           Step(g) == [p \in Nat |-> [q \in Nat |-> Stands(b, g, p, q)]]
           G == [g \in S |-> Step(g)]
           f == N!Expansion(b)
<1>1. f = CHOOSE g : g = [n \in Nat |-> Body(g, n)]
  BY DEF N!Expansion
<1>2. ASSUME NEW g PROVE Body(g, 0) = c
  <2>1. Len(b) \in Nat
    OBVIOUS
  <2>2. \A p \in Nat : ~ (p < Len(b)) <=> p >= Len(b)
    BY ONLY <2>1
  <2> QED
    BY ONLY <2>2
<1>3. ASSUME NEW g, NEW n \in Nat PROVE Body(g, n + 1) = Step(g[n])
  <2>1. n + 1 # 0 /\ n + 1 - 1 = n
    OBVIOUS
  <2> QED
    BY ONLY <2>1 DEF Stands
<1>4. ASSUME NEW g \in S, NEW p \in Nat, NEW q \in Nat PROVE Stands(b, g, p, q) \in Seq(N!Byte)
  BY StandsIs
<1>5. c \in S
  <2>1. <<>> \in Seq(N!Byte) /\ <<0>> \in Seq(N!Byte)
    BY DEF N!Byte
  <2> QED
    BY ONLY <2>1
<1> HIDE DEF Base
<1>6. G \in [S -> S]
  <2>1. ASSUME NEW g \in S PROVE Step(g) \in S
    BY <1>4
  <2> HIDE DEF Step, S
  <2> QED
    BY <2>1
<1> HIDE DEF Body, c, f, G, S, Step
<1>7. PICK h \in [Nat -> S] : h[0] = c /\ \A n \in Nat : h[n + 1] = G[h[n]]
  BY ONLY <1>5, <1>6, Recursion
<1>8. \E g : g = [n \in Nat |-> Body(g, n)]
  <2>1. ASSUME NEW n \in Nat PROVE h[n] = Body(h, n)
    <3>1. CASE n = 0
      BY <1>2, <1>7, <3>1
    <3>2. CASE n # 0
      <4>1. n - 1 \in Nat /\ (n - 1) + 1 = n /\ h[n - 1] \in S
        BY <1>7, <3>2
      <4>2. h[n] = G[h[n - 1]] /\ G[h[n - 1]] = Step(h[n - 1])
        BY <1>7, <4>1 DEF G
      <4>3. Body(h, n - 1 + 1) = Step(h[n - 1])
        BY <1>3, <4>1
      <4> QED
        BY <4>1, <4>2, <4>3
    <3> QED
      BY <3>1, <3>2
  <2>2. h = [n \in Nat |-> h[n]]
    BY ONLY <1>7
  <2>3. h = [n \in Nat |-> Body(h, n)]
    BY ONLY <2>1, <2>2
  <2> QED
    BY ONLY <2>3
<1>9. f = [n \in Nat |-> Body(f, n)]
  BY ONLY <1>1, <1>8
<1>10. f[0] = c /\ \A n \in Nat : f[n + 1] = Step(f[n])
  <2>1. \A n \in Nat : f[n] = Body(f, n)
    BY ONLY <1>9
  <2>2. 0 \in Nat /\ \A n \in Nat : n + 1 \in Nat
    OBVIOUS
  <2> QED
    BY <1>2, <1>3, <2>1, <2>2
<1>11. \A n \in Nat : f[n] \in S
  <2>1. \A n \in Nat : f[n] \in S => f[n + 1] = G[f[n]]
    BY <1>10 DEF G
  <2>2. f[0] \in S
    BY <1>5, <1>10
  <2> QED
    BY ONLY <1>6, <2>1, <2>2, StaysIn
<1>12. f \in [Nat -> S]
  BY ONLY <1>9, <1>11
<1>13. \A p \in Nat, q \in Nat : f[0][p][q] = Base(p)
  BY ONLY <1>10 DEF c
<1>14. \A n \in Nat, p \in Nat, q \in Nat : f[n + 1][p][q] = Stands(b, f[n], p, q)
  <2>1. ASSUME NEW g, NEW p \in Nat, NEW q \in Nat PROVE Step(g)[p][q] = Stands(b, g, p, q)
    BY ONLY TRUE DEF Step
  <2> QED
    BY ONLY <1>10, <2>1
<1>15. f \in [Nat -> [Nat -> [Nat -> Seq(N!Byte)]]]
  BY ONLY <1>12 DEF S
<1> QED
  BY ONLY <1>13, <1>14, <1>15 DEF f, Base

(* One more byte is copied. *)
LEMMA ByteMoves ==
  ASSUME NEW b \in Seq(N!Byte), NEW o \in Seq(N!Byte), NEW p \in Nat, NEW m \in Nat,
         p + 1 <= m, m <= Len(b)
  PROVE  /\ Append(o, b[p + 1]) \in Seq(N!Byte)
         /\ o \o SubSeq(b, p + 1, m) = Append(o, b[p + 1]) \o SubSeq(b, p + 2, m)
<1> DEFINE x == b[p + 1]
           t == SubSeq(b, p + 2, m)
           u == SubSeq(b, p + 1, m)
<1>1. x \in N!Byte /\ <<x>> \in Seq(N!Byte)
  OBVIOUS
<1>2. t \in Seq(N!Byte) /\ Len(t) = m - (p + 1) /\ \A i \in 1 .. m - (p + 1) : t[i] = b[p + 1 + i]
  <2>1. CASE m = p + 1
    <3>1. t = <<>>
      BY <2>1, SubSeqEmpty
    <3> QED
      BY <2>1, <3>1
  <2>2. CASE m > p + 1
    BY <2>2
  <2> QED
    BY <2>1, <2>2
<1>3. u \in Seq(N!Byte) /\ Len(u) = m - p /\ \A i \in 1 .. m - p : u[i] = b[p + i]
  <2>1. p + 1 \in 1 .. Len(b) /\ m \in p + 1 .. Len(b) /\ Len(b) \in Nat
    OBVIOUS
  <2>2. \A i \in p + 1 .. m : b[i] \in N!Byte
    BY <2>1
  <2>3. u \in Seq(N!Byte)
    BY ONLY <2>1, <2>2, p \in Nat, m \in Nat, SubSeqProperties
  <2>4. Len(u) = m - p /\ \A i \in 1 .. m - p : u[i] = b[p + i]
    BY <2>1
  <2> QED
    BY ONLY <2>3, <2>4
<1>4. <<x>> \o t \in Seq(N!Byte) /\ Len(<<x>> \o t) = m - p
  BY <1>1, <1>2
<1>5. ASSUME NEW i \in 1 .. m - p PROVE (<<x>> \o t)[i] = u[i]
  <2>1. CASE i = 1
    BY <1>1, <1>2, <1>3, <2>1
  <2>2. CASE i > 1
    <3>1. i - 1 \in 1 .. m - (p + 1) /\ p + 1 + (i - 1) = p + i
      BY <2>2
    <3>2. /\ Len(<<x>>) = 1 /\ Len(t) \in Nat
          /\ \A j \in 1 .. 1 + Len(t) : (<<x>> \o t)[j] = IF j <= 1 THEN <<x>>[j] ELSE t[j - 1]
      <4>1. Len(<<x>>) = 1 /\ Len(t) \in Nat
        BY <1>2
      <4> HIDE DEF t
      <4>2. \A j \in 1 .. Len(<<x>>) + Len(t) :
              (<<x>> \o t)[j] = IF j <= Len(<<x>>) THEN <<x>>[j] ELSE t[j - Len(<<x>>)]
        BY ONLY <1>1, <1>2, ConcatProperties
      <4> QED
        BY ONLY <4>1, <4>2
    <3>3. i \in 1 .. 1 + Len(t) /\ ~ (i <= 1)
      BY <1>2, <2>2
    <3>4. (<<x>> \o t)[i] = t[i - 1]
      <4> DEFINE c == <<x>> \o t
      <4>1. /\ Len(t) \in Nat
            /\ \A j \in 1 .. 1 + Len(t) : c[j] = IF j <= 1 THEN <<x>>[j] ELSE t[j - 1]
        BY <3>2
      <4> HIDE DEF t, x, c
      <4>2. c[i] = t[i - 1]
        BY ONLY <3>3, <4>1
      <4> QED
        BY ONLY <4>2 DEF c
    <3>5. t[i - 1] = b[p + 1 + (i - 1)] /\ u[i] = b[p + i]
      <4> HIDE DEF t, u
      <4> QED
        BY ONLY <1>2, <1>3, <3>1, i \in 1 .. m - p
    <3> HIDE DEF x, t, u
    <3> QED
      BY ONLY <3>1, <3>4, <3>5
  <2>3. i = 1 \/ i > 1
    OBVIOUS
  <2> QED
    BY ONLY <2>1, <2>2, <2>3
<1>6. u = <<x>> \o t
  BY <1>3, <1>4, <1>5, SeqEqual
<1> HIDE DEF x, t, u
<1>7. Append(o, x) \in Seq(N!Byte) /\ Append(o, x) = o \o <<x>>
  BY <1>1
<1>8. o \o (<<x>> \o t) = (o \o <<x>>) \o t
  <2>1. <<x>> \in Seq(N!Byte) /\ t \in Seq(N!Byte) /\ o \in Seq(N!Byte)
    BY <1>1, <1>2
  <2> QED
    BY ONLY <2>1, ConcatAssociative
<1> QED
  BY <1>6, <1>7, <1>8 DEF x, t, u

(* What is in ASCII of k + 1 records is in ASCII of k. *)
LEMMA AsciiOwners ==
  ASSUME NEW b, NEW k \in Nat, N!InAscii(b, k + 1)
  PROVE  /\ N!InAscii(b, k)
         /\ \A i \in N!Section(b)[k] .. N!OwnerEnd(b, N!Section(b)[k]) - 1 : b[i + 1] \in 1 .. 127
<1>1. k \in 0 .. k + 1 - 1 /\ \A j \in 0 .. k - 1 : j \in 0 .. k + 1 - 1
  OBVIOUS
<1> QED
  BY <1>1 DEF N!InAscii

(* Where the first byte is that can end a name, a name in ASCII does end.  *)
LEMMA OwnerEndsAt ==
  ASSUME NEW b, b \in Seq(N!Byte), NEW p \in Nat, NEW q \in Nat, p <= q, q < Len(b),
         \A i \in p .. q - 1 : b[i + 1] \in 1 .. 191, b[q + 1] \notin 1 .. 191,
         \A i \in p .. N!OwnerEnd(b, p) - 1 : b[i + 1] \in 1 .. 127
  PROVE  N!OwnerEnd(b, p) = q
<1> DEFINE e == N!OwnerEnd(b, p)
<1>1. e \in 0 .. Len(b) /\ (p <= Len(b) => p <= e) /\ (e < Len(b) => b[e + 1] \notin 1 .. 191)
  BY ONLY OwnerEndIs, b \in Seq(N!Byte), p \in Nat
<1>2. \A i \in p .. e - 1 : b[i + 1] \in 1 .. 127
  OBVIOUS
<1> HIDE DEF e
<1>3. Len(b) \in Nat
  OBVIOUS
<1>4. p <= e /\ e \in Nat
  BY <1>1, <1>3
<1>5. ASSUME e < q PROVE FALSE
  BY <1>1, <1>3, <1>4, <1>5
<1>6. ASSUME q < e PROVE FALSE
  <2>1. q \in p .. e - 1
    BY <1>4, <1>6
  <2>2. b[q + 1] \in 1 .. 127
    BY <1>2, <2>1
  <2> QED
    BY <2>2
<1> QED
  BY <1>4, <1>5, <1>6 DEF e

(* If nothing can end it, it runs to the end of the packet. *)
LEMMA OwnerRunsOut ==
  ASSUME NEW b, b \in Seq(N!Byte), NEW p \in Nat, NEW q \in Nat, p <= q, ~ (q < Len(b)),
         \A i \in p .. q - 1 : i < Len(b) /\ b[i + 1] \in 1 .. 191
  PROVE  N!OwnerEnd(b, p) = Len(b)
<1>1. Len(b) \in Nat
  OBVIOUS
<1>2. CASE p < Len(b)
  <2> DEFINE e == N!OwnerEnd(b, p)
  <2>1. e \in 0 .. Len(b) /\ p <= e /\ (e < Len(b) => b[e + 1] \notin 1 .. 191)
    BY <1>1, <1>2, OwnerEndIs
  <2> HIDE DEF e
  <2>2. ASSUME e < Len(b) PROVE FALSE
    <3>1. e \in p .. q - 1
      BY <1>1, <2>1, <2>2
    <3>2. b[e + 1] \in 1 .. 191
      BY <3>1
    <3> QED
      BY <2>1, <2>2, <3>2
  <2>3. e = Len(b)
    BY ONLY <1>1, <2>1, <2>2
  <2> QED
    BY ONLY <2>3 DEF e
<1>3. CASE ~ (p < Len(b))
  <2>1. p >= Len(b)
    BY <1>1, <1>3
  <2>2. N!LabelsEnd(b)[Len(b)][p] = Len(b)
    BY ONLY <1>1, <2>1, LabelsEndIs, b \in Seq(N!Byte), p \in Nat, ZenonT(40)
  <2> QED
    BY ONLY <2>2 DEF N!OwnerEnd
<1> QED
  BY ONLY <1>2, <1>3

(* The packet. *)
LEMMA PacketIs ==
  ASSUME N!TypeOK
  PROVE  packet \in Seq(N!Byte) /\ Len(packet) \in Nat /\ N!Size = Len(packet)
<1>1. packet \in Seq(N!Byte)
  BY NamesAssumption, Zenon DEF N!TypeOK, N!Byte
<1> QED
  BY <1>1 DEF N!Size

(* The code looks for the end of a record where it is. *)
LEMMA FitsIs ==
  ASSUME NEW s \in Nat
  PROVE  N!End(s) = N!RecordEnd(packet, s) /\ (N!Fits(s) <=> N!IsWhole(packet, s))
<1>1. N!Word(s + N!StructSize - 2) = N!Number(packet, s + N!StructSize - 2)
  BY DEF N!Word, N!Number, N!At, N!StructSize
<1>2. N!End(s) = N!RecordEnd(packet, s)
  BY <1>1, Zenon DEF N!End, N!RecordEnd
<1> QED
  BY <1>2, Zenon DEF N!Fits, N!IsWhole, N!Size

(* From the bytes that were passed, the structure is found. *)
LEMMA StructFound ==
  ASSUME N!IInv, pc = "owner", NEW s, N!IsStruct(s), N!InAscii(packet, N!Before + 1)
  PROVE  s = N!StructOf(packet, N!Before)
<1> DEFINE k == N!Before
           start == N!Section(packet)[k]
<1>1. N!TypeOK /\ packet \in Seq(N!Byte) /\ N!Size = Len(packet) /\ Len(packet) \in Nat
  BY PacketIs DEF N!IInv
<1>2. k \in Nat /\ ptr \in Nat
  BY <1>1, NamesAssumption DEF N!TypeOK, N!Before
<1>3. N!InAscii(packet, k) /\ \A i \in start .. N!OwnerEnd(packet, start) - 1 : packet[i + 1] \in 1 .. 127
  BY <1>2, AsciiOwners
<1>4. start <= ptr /\ \A i \in start .. ptr - 1 : i < N!Size /\ N!At(i) \in 1 .. 191
  BY <1>3 DEF N!IInv, N!Passing
<1>5. start \in Nat
  BY <1>1, <1>2, SectionIs
<1>6. ptr < N!Size /\ N!At(ptr) \notin 1 .. 191 /\ s = IF N!At(ptr) = 0 THEN ptr + 1 ELSE ptr + 2
  BY DEF N!IsStruct
<1>7. N!OwnerEnd(packet, start) = ptr
  <2>1. ptr < Len(packet) /\ packet[ptr + 1] \notin 1 .. 191
    BY <1>1, <1>6 DEF N!At
  <2>2. \A i \in start .. ptr - 1 : packet[i + 1] \in 1 .. 191
    BY <1>4 DEF N!At
  <2> HIDE DEF start, k
  <2> QED
    BY ONLY <1>1, <1>2, <1>3, <1>4, <1>5, <2>1, <2>2, OwnerEndsAt, ZenonT(40)
<1> HIDE DEF start
<1>8. N!Behind(packet, start) = s
  <2>1. ptr # Len(packet)
    BY <1>1, <1>2, <1>6
  <2> QED
    BY <1>6, <1>7, <2>1 DEF N!Behind, N!At
<1> QED
  BY <1>8 DEF N!StructOf, start

(* At the start of the section, no record is found and no byte is passed. *)
LEMMA NamesStart ==
  ASSUME N!Init
  PROVE  N!IInv
<1>1. packet \in Packet /\ left = Records /\ pc = "owner" /\ ptr = Start /\ answer = 0 /\ ipos = 0 /\ out = <<>>
  BY DEF N!Init
<1>2. Start \in Nat /\ Records \in Nat \ {0} /\ OutSize \in Nat
  BY NamesAssumption
<1>3. N!TypeOK
  BY <1>1, <1>2 DEF N!TypeOK
<1>4. packet \in Seq(N!Byte)
  BY <1>3, PacketIs
<1>5. N!Passing
  <2>1. N!Before = 0
    BY <1>1, <1>2 DEF N!Before
  <2>2. N!Section(packet)[N!Before] = Start
    BY <1>4, <2>1, SectionIs
  <2> QED
    BY <1>1, <1>2, <2>2 DEF N!Passing
<1>6. N!Reading /\ N!RecordsFound /\ N!NamesRead /\ left > 0
  BY <1>1, <1>2 DEF N!Reading, N!RecordsFound, N!NamesRead
<1> QED
  BY <1>3, <1>5, <1>6 DEF N!IInv

(* One more byte of the owner's name is passed. *)
LEMMA OwnerByteKeeps ==
  ASSUME N!IInv, N!OwnerByte
  PROVE  N!IInv'
<1>1. /\ pc = "owner" /\ ptr < N!Size /\ N!At(ptr) \in 1 .. 191 /\ ptr' = ptr + 1
      /\ packet' = packet /\ left' = left /\ pc' = pc /\ answer' = answer /\ ipos' = ipos /\ out' = out
  BY DEF N!OwnerByte
<1>2. N!TypeOK /\ left > 0 /\ N!Passing
  BY <1>1 DEF N!IInv
<1>3. packet \in Seq(N!Byte) /\ N!Before \in Nat /\ ptr \in Nat
  BY <1>2, PacketIs, NamesAssumption DEF N!TypeOK, N!Before
<1>4. N!TypeOK'
  BY <1>1, <1>2 DEF N!TypeOK
<1>5. N!Passing'
  <2> SUFFICES ASSUME N!InAscii(packet, N!Before)
               PROVE  LET start == N!Section(packet)[N!Before]
                      IN  start <= ptr' /\ \A i \in start .. ptr' - 1 : i < N!Size /\ N!At(i) \in 1 .. 191
    BY <1>1 DEF N!Passing, N!Size, N!At, N!Before
  <2> DEFINE start == N!Section(packet)[N!Before]
  <2>1. start <= ptr /\ \A i \in start .. ptr - 1 : i < N!Size /\ N!At(i) \in 1 .. 191
    BY <1>1, <1>2 DEF N!Passing
  <2>2. start \in Nat
    BY <1>3, SectionIs
  <2> HIDE DEF start
  <2>3. start <= ptr' /\ \A i \in start .. ptr' - 1 : i < N!Size /\ N!At(i) \in 1 .. 191
    <3>1. start <= ptr'
      BY ONLY <1>1, <1>3, <2>1, <2>2
    <3>2. ASSUME NEW i \in start .. ptr' - 1 PROVE i < N!Size /\ N!At(i) \in 1 .. 191
      <4>1. i = ptr \/ i \in start .. ptr - 1
        BY <1>1, <1>3, <2>2
      <4> QED
        BY ONLY <1>1, <2>1, <4>1
    <3> QED
      BY ONLY <3>1, <3>2
  <2> QED
    BY ONLY <2>3 DEF start
<1>6. N!Reading' /\ N!RecordsFound' /\ N!NamesRead'
  BY <1>1 DEF N!Reading, N!RecordsFound, N!NamesRead
<1> QED
  BY <1>1, <1>2, <1>4, <1>5, <1>6 DEF N!IInv

(* The record that is found is the next one, and the reading of its name   *)
(* starts with nothing copied.                                             *)
LEMMA FindAnswerKeeps ==
  ASSUME N!IInv, NEW s \in ptr .. ptr + 2, N!FindAnswer(s)
  PROVE  N!IInv'
<1> DEFINE k == N!Before
           b == packet
<1>1. /\ pc = "owner" /\ N!IsStruct(s) /\ N!Fits(s) /\ answer' = s /\ ptr' = N!End(s)
      /\ pc' = "name" /\ ipos' = s + N!StructSize /\ out' = <<>> /\ packet' = packet /\ left' = left
  BY DEF N!FindAnswer
<1>2. N!TypeOK /\ left > 0
  BY <1>1 DEF N!IInv
<1>3. /\ b \in Seq(N!Byte) /\ Len(b) \in Nat /\ N!Size = Len(b)
      /\ k \in Nat /\ ptr \in Nat /\ OutSize \in Nat
  BY <1>2, PacketIs, NamesAssumption DEF N!TypeOK, N!Before
<1>4. s \in Nat
  BY <1>3
<1>5. N!End(s) = N!RecordEnd(b, s) /\ N!IsWhole(b, s)
  BY <1>1, <1>4, FitsIs
<1>6. s + N!StructSize <= Len(b) /\ s + N!StructSize \in Nat
  BY <1>4, <1>5 DEF N!IsWhole, N!StructSize
<1>7. N!RecordEnd(b, s) \in Nat
  BY <1>3, <1>4, <1>6, RecordEndIs
<1>8. N!TypeOK'
  BY <1>1, <1>2, <1>3, <1>4, <1>5, <1>6, <1>7 DEF N!TypeOK
<1>9. N!RecordsFound'
  <2> SUFFICES ASSUME N!InAscii(b, k + 1)
               PROVE  s = N!StructOf(b, k) /\ N!End(s) = N!Section(b)[k + 1]
    BY <1>1 DEF N!RecordsFound, N!Before
  <2>1. s = N!StructOf(b, k)
    BY <1>1, StructFound
  <2>2. N!Section(b)[k + 1] = N!RecordEnd(b, s)
    BY <1>3, <1>5, <2>1, SectionIs DEF N!StructOf
  <2> QED
    BY <1>5, <2>1, <2>2
<1>10. N!Reading'
  <2> DEFINE p == s + N!StructSize
             l == Len(b)
             name == N!Expansion(b)[l][p][p]
  <2> SUFFICES ASSUME l <= 1024, name # <<>>
               PROVE  \E d \in 0 .. l, n \in 0 .. l, below \in 0 .. l :
                        /\ \A i \in p .. p + d - 1 : i < l /\ N!At(i) \in 1 .. 127
                        /\ N!Expansion(b)[n][p + d][below] # <<>>
                        /\ name = <<>> \o SubSeq(b, p + 1, p + d) \o N!Expansion(b)[n][p + d][below]
    BY <1>1, <1>3, ZenonT(40) DEF N!Reading, N!NameAt, N!Size, N!At
  <2>1. p \in Nat /\ p <= l /\ l \in Nat /\ p + 0 = p
    BY <1>3, <1>6
  <2>2. name \in Seq(N!Byte)
    <3>1. N!Expansion(b) \in [Nat -> [Nat -> [Nat -> Seq(N!Byte)]]]
      BY <1>3, ExpansionIs
    <3> HIDE DEF p, l
    <3> QED
      BY ONLY <2>1, <3>1
  <2>3. SubSeq(b, p + 1, p + 0) = <<>>
    <3> HIDE DEF p
    <3>1. p + 1 \in Int /\ p + 0 \in Int /\ p + 1 > p + 0
      BY <2>1
    <3> QED
      BY ONLY <3>1, SubSeqEmpty
  <2>4. name = <<>> \o <<>> \o name
    <3> HIDE DEF name
    <3> QED
      BY ONLY <2>2
  <2> HIDE DEF p, l
  <2>5. /\ \A i \in p .. p + 0 - 1 : i < l /\ N!At(i) \in 1 .. 127
        /\ N!Expansion(b)[l][p + 0][p] # <<>>
        /\ name = <<>> \o SubSeq(b, p + 1, p + 0) \o N!Expansion(b)[l][p + 0][p]
    <3>1. \A i \in p .. p + 0 - 1 : i < l /\ N!At(i) \in 1 .. 127
      BY ONLY <2>1
    <3>2. N!Expansion(b)[l][p + 0][p] = name
      BY ONLY <2>1
    <3>3. name # <<>>
      OBVIOUS
    <3> HIDE DEF name
    <3> QED
      BY ONLY <2>3, <2>4, <3>1, <3>2, <3>3
  <2>6. 0 \in 0 .. l /\ l \in 0 .. l /\ p \in 0 .. l
    BY <2>1
  <2> QED
    BY ONLY <2>5, <2>6
<1>11. N!NamesRead' /\ N!Passing'
  BY <1>1 DEF N!NamesRead, N!Passing
<1> QED
  BY <1>1, <1>2, <1>8, <1>9, <1>10, <1>11 DEF N!IInv

(* If none is found, there is none that is whole. *)
LEMMA NoAnswerKeeps ==
  ASSUME N!IInv, N!NoAnswer
  PROVE  N!IInv'
<1> DEFINE k == N!Before
           b == packet
           start == N!Section(b)[k]
<1>1. /\ pc = "owner" /\ pc' = "cut"
      /\ packet' = packet /\ left' = left /\ ptr' = ptr /\ answer' = answer /\ ipos' = ipos /\ out' = out
      /\ ptr < N!Size => \E s \in ptr .. ptr + 2 : N!IsStruct(s) /\ ~ N!Fits(s)
  BY DEF N!NoAnswer
<1>2. N!TypeOK /\ left > 0
  BY <1>1 DEF N!IInv
<1>3. /\ b \in Seq(N!Byte) /\ Len(b) \in Nat /\ N!Size = Len(b)
      /\ k \in Nat /\ ptr \in Nat /\ OutSize \in Nat
  BY <1>2, PacketIs, NamesAssumption DEF N!TypeOK, N!Before
<1>4. N!TypeOK'
  BY <1>1, <1>2 DEF N!TypeOK
<1>5. N!RecordsFound'
  <2> SUFFICES ASSUME N!InAscii(b, k + 1) PROVE ~ N!IsWhole(b, N!StructOf(b, k))
    BY <1>1 DEF N!RecordsFound, N!Before
  <2>1. CASE ptr < N!Size
    <3>1. PICK s \in ptr .. ptr + 2 : N!IsStruct(s) /\ ~ N!Fits(s)
      BY <1>1, <2>1
    <3>2. s \in Nat
      BY <1>3
    <3>3. s = N!StructOf(b, k)
      BY <1>1, <3>1, StructFound
    <3> QED
      BY <3>1, <3>2, <3>3, FitsIs
  <2>2. CASE ~ (ptr < N!Size)
    <3>1. N!InAscii(b, k)
      BY <1>3, AsciiOwners
    <3>2. start <= ptr /\ \A i \in start .. ptr - 1 : i < N!Size /\ N!At(i) \in 1 .. 191
      BY <1>1, <3>1 DEF N!IInv, N!Passing
    <3>3. start \in Nat
      BY <1>3, SectionIs
    <3>4. \A i \in start .. ptr - 1 : i < Len(b) /\ b[i + 1] \in 1 .. 191
      BY <1>3, <3>2 DEF N!At
    <3>5. ~ (ptr < Len(b))
      BY <1>3, <2>2
    <3> HIDE DEF start
    <3>6. N!OwnerEnd(b, start) = Len(b)
      BY ONLY <1>3, <3>2, <3>3, <3>4, <3>5, OwnerRunsOut
    <3>7. N!StructOf(b, k) = Len(b) + 1
      BY <3>6 DEF N!StructOf, N!Behind, start
    <3> QED
      BY <1>3, <3>7 DEF N!IsWhole, N!StructSize
  <2> QED
    BY <2>1, <2>2
<1>6. N!Passing' /\ N!Reading' /\ N!NamesRead'
  BY <1>1 DEF N!Passing, N!Reading, N!NamesRead
<1> QED
  BY <1>1, <1>2, <1>4, <1>5, <1>6 DEF N!IInv

(* What stands for something starts in the packet, and is a terminator or  *)
(* has a label or a pointer first.                                         *)
LEMMA OneStep ==
  ASSUME NEW b, b \in Seq(N!Byte), NEW n \in Nat, NEW p \in Nat, NEW q \in Nat,
         N!Expansion(b)[n][p][q] # <<>>
  PROVE  /\ p < Len(b)
         /\ b[p + 1] = 0 => N!Expansion(b)[n][p][q] = <<0>>
         /\ b[p + 1] # 0 => n - 1 \in Nat /\ N!Expansion(b)[n][p][q] = Stands(b, N!Expansion(b)[n - 1], p, q)
<1> DEFINE F == N!Expansion(b)
           l == Len(b)
           x == b[p + 1]
<1>1. l \in Nat
  OBVIOUS
<1>2. CASE n = 0
  <2>1. \A i \in Nat, j \in Nat : F[0][i][j] = IF i < l /\ b[i + 1] = 0 THEN <<0>> ELSE <<>>
    BY ONLY b \in Seq(N!Byte), ExpansionIs
  <2>2. F[0][p][q] # <<>>
    BY <1>2
  <2> HIDE DEF F, l
  <2>3. F[0][p][q] = IF p < l /\ x = 0 THEN <<0>> ELSE <<>>
    BY ONLY <2>1, p \in Nat, q \in Nat
  <2> HIDE DEF x
  <2>4. p < l /\ x = 0 /\ F[0][p][q] = <<0>>
    BY ONLY <2>2, <2>3
  <2> QED
    BY ONLY <1>2, <2>4 DEF F, l, x
<1>3. CASE n # 0
  <2> DEFINE m == n - 1
  <2>1. m \in Nat /\ m + 1 = n
    BY <1>3
  <2>2. F[n][p][q] = Stands(b, F[m], p, q)
    <3> HIDE DEF F, m
    <3>1. F[m + 1][p][q] = Stands(b, F[m], p, q)
      BY ONLY <2>1, b \in Seq(N!Byte), p \in Nat, q \in Nat, ExpansionIs DEF F
    <3> QED
      BY ONLY <2>1, <3>1
  <2>3. F[n][p][q] # <<>>
    OBVIOUS
  <2> HIDE DEF F, l, m
  <2>4. ~ (p >= l) /\ (x = 0 => F[n][p][q] = <<0>>)
    BY ONLY <2>2, <2>3 DEF Stands, l
  <2>5. p < l
    BY ONLY <1>1, <2>4, p \in Nat
  <2>6. m = n - 1
    BY DEF m
  <2> QED
    BY ONLY <2>1, <2>2, <2>4, <2>5, <2>6, Zenon DEF F, l, x
<1> QED
  BY ONLY <1>2, <1>3

(* A name is o, then d bytes of a label, and then what the rest stands     *)
(* for, of n labels and pointers at most.                                  *)
ReadAs(b, name, o, p, d, n, below) ==
  /\ \A i \in p .. p + d - 1 : i < Len(b) /\ b[i + 1] \in 1 .. 127
  /\ N!Expansion(b)[n][p + d][below] # <<>>
  /\ name = o \o SubSeq(b, p + 1, p + d) \o N!Expansion(b)[n][p + d][below]

(* A byte of the label is copied, or the first of the next label.  *)
LEMMA RestAfterByte ==
  ASSUME NEW b, b \in Seq(N!Byte), NEW name, NEW o \in Seq(N!Byte), NEW p \in Nat, p + 1 < Len(b),
         b[p + 1] # 0, b[p + 1] < 192,
         NEW d \in 0 .. Len(b), NEW n \in 0 .. Len(b), NEW below \in 0 .. Len(b),
         ReadAs(b, name, o, p, d, n, below)
  PROVE  \E e \in 0 .. Len(b), m \in 0 .. Len(b) : ReadAs(b, name, Append(o, b[p + 1]), p + 1, e, m, below)
<1> DEFINE F == N!Expansion(b)
           l == Len(b)
           x == b[p + 1]
<1>1. l \in Nat /\ p < l /\ n \in Nat /\ below \in Nat /\ d \in Nat
  OBVIOUS
<1>0. /\ \A i \in p .. p + d - 1 : i < l /\ b[i + 1] \in 1 .. 127
      /\ F[n][p + d][below] # <<>>
      /\ name = o \o SubSeq(b, p + 1, p + d) \o F[n][p + d][below]
  BY ONLY ReadAs(b, name, o, p, d, n, below) DEF ReadAs
<1>2. F \in [Nat -> [Nat -> [Nat -> Seq(N!Byte)]]]
  BY ExpansionIs
<1>3. CASE d = 0
  <2>1. p + d = p
    BY <1>3
  <2> DEFINE m == n - 1
             q == p + 1 + x
  <2>2. x # 0 /\ x < 192 /\ x \in Nat /\ F[n][p][below] # <<>>
    BY <1>0, <1>1, <2>1, ByteAt
  <2>3. m \in Nat /\ m \in 0 .. l
    BY ONLY <1>1, <2>2, OneStep, b \in Seq(N!Byte), n \in 0 .. l, p \in Nat
  <2>4. F[n][p][below] = Stands(b, F[m], p, below)
    <3> HIDE DEF m
    <3> QED
      BY ONLY <1>1, <2>2, b \in Seq(N!Byte), p \in Nat, OneStep DEF F, m, x
  <2>5. N!IsLabel(b, p) /\ F[m][q][below] # <<>> /\ F[n][p][below] = SubSeq(b, p + 1, q) \o F[m][q][below]
    <3>1. ~ (p >= l) /\ ~ (x >= 192)
      <4> HIDE DEF x, l
      <4> QED
        BY ONLY <1>1, <2>2, p \in Nat
    <3> HIDE DEF F, m
    <3> QED
      BY ONLY <2>2, <2>4, <3>1 DEF Stands
  <2>6. x \in 1 .. 63 /\ q \in Nat /\ q <= l /\ p + x < l /\ \A i \in p + 1 .. p + x : b[i + 1] \in 1 .. 127
    <3>1. x \in 1 .. 63 /\ q \in Nat /\ q <= l
      BY <1>1, <2>5, LabelIs
    <3> QED
      BY <2>5, <3>1 DEF N!IsLabel
  <2>7. /\ Append(o, x) \in Seq(N!Byte)
        /\ (o \o SubSeq(b, p + 1, q)) \o F[m][q][below] = (Append(o, x) \o SubSeq(b, p + 2, q)) \o F[m][q][below]
    <3>1. F[m][q][below] \in Seq(N!Byte)
      <4> HIDE DEF F, m, q
      <4> QED
        BY ONLY <1>1, <1>2, <2>3, <2>6
    <3>2. p + 1 <= q /\ q \in Nat /\ q <= Len(b)
      <4> HIDE DEF x
      <4> QED
        BY ONLY <2>6, p \in Nat DEF l
    <3> DEFINE r == F[m][q][below]
    <3>3. r \in Seq(N!Byte)
      BY <3>1
    <3> HIDE DEF q, r
    <3>4. Append(o, b[p + 1]) \in Seq(N!Byte) /\ o \o SubSeq(b, p + 1, q) = Append(o, b[p + 1]) \o SubSeq(b, p + 2, q)
      BY ONLY <3>2, <3>3, b \in Seq(N!Byte), o \in Seq(N!Byte), p \in Nat, ByteMoves
    <3> DEFINE u == o \o SubSeq(b, p + 1, q)
               v == Append(o, b[p + 1]) \o SubSeq(b, p + 2, q)
    <3>5. u = v
      BY ONLY <3>4
    <3> HIDE DEF u, v
    <3>6. u \o r = v \o r
      BY ONLY <3>5
    <3> QED
      BY ONLY <3>4, <3>6, Zenon DEF r, u, v
  <2>8. o \o SubSeq(b, p + 1, p + d) \o F[n][p + d][below] = (o \o SubSeq(b, p + 1, q)) \o F[m][q][below]
    <3>1. SubSeq(b, p + 1, p) = <<>>
      BY ONLY p \in Nat, p + 1 > p, SubSeqEmpty
    <3>2. o \o <<>> = o
      OBVIOUS
    <3>3. SubSeq(b, p + 1, q) \in Seq(N!Byte) /\ F[m][q][below] \in Seq(N!Byte)
      <4>1. SubSeq(b, p + 1, q) \in Seq(N!Byte)
        BY <1>1, <2>5, LabelIs
      <4>2. F[m][q][below] \in Seq(N!Byte)
        <5> HIDE DEF F, m, q
        <5> QED
          BY ONLY <1>1, <1>2, <2>3, <2>6
      <4> QED
        BY <4>1, <4>2
    <3> HIDE DEF F, m, q
    <3> DEFINE r == F[m][q][below]
               u == SubSeq(b, p + 1, q)
    <3>4. (o \o u) \o r = o \o (u \o r)
      <4>1. u \in Seq(N!Byte) /\ r \in Seq(N!Byte)
        BY <3>3
      <4> HIDE DEF r, u
      <4> QED
        BY ONLY <4>1, o \in Seq(N!Byte), ConcatAssociative, SMTT(30)
    <3> QED
      BY ONLY <2>1, <2>5, <3>1, <3>2, <3>4
  <2>9. \A i \in p + 1 .. p + 1 + x - 1 : i < l /\ b[i + 1] \in 1 .. 127
    <3> HIDE DEF x, l
    <3>1. ASSUME NEW i \in p + 1 .. p + 1 + x - 1 PROVE i < l /\ b[i + 1] \in 1 .. 127
      <4>1. i \in p + 1 .. p + x /\ i < l
        BY ONLY <1>1, <2>6, i \in p + 1 .. p + 1 + x - 1, p \in Nat
      <4> QED
        BY ONLY <2>6, <4>1
    <3> QED
      BY ONLY <3>1
  <2>10. x \in 0 .. l
    <3> HIDE DEF x, l
    <3> QED
      BY ONLY <1>1, <2>6, p \in Nat
  <2>11. F[m][p + 1 + x][below] # <<>>
    BY <2>5
  <2>12. o \o SubSeq(b, p + 1, p + d) \o F[n][p + d][below]
          = Append(o, x) \o SubSeq(b, p + 2, p + 1 + x) \o F[m][p + 1 + x][below]
    <3> HIDE DEF F, m
    <3> QED
      BY ONLY <2>7, <2>8 DEF q
  <2> HIDE DEF F, m
  <2>13. ReadAs(b, name, Append(o, x), p + 1, x, m, below)
    <3> DEFINE u == o \o SubSeq(b, p + 1, p + d) \o F[n][p + d][below]
               v == Append(o, x) \o SubSeq(b, p + 2, p + 1 + x) \o F[m][p + 1 + x][below]
    <3>1. name = u /\ u = v
      BY ONLY <1>0, <2>12
    <3>2. p + 2 = p + 1 + 1
      OBVIOUS
    <3>3. v = Append(o, x) \o SubSeq(b, p + 1 + 1, p + 1 + x) \o F[m][p + 1 + x][below]
      BY ONLY <3>2
    <3> HIDE DEF u, v
    <3>4. name = Append(o, x) \o SubSeq(b, p + 1 + 1, p + 1 + x) \o F[m][p + 1 + x][below]
      BY ONLY <3>1, <3>3
    <3> QED
      BY ONLY <2>9, <2>11, <3>4 DEF ReadAs, F, l
  <2> QED
    BY ONLY <2>3, <2>10, <2>13 DEF x, l
<1>4. CASE d # 0
  <2> DEFINE e == d - 1
  <2>1. e \in 0 .. l /\ p + 1 + e = p + d /\ p + 1 <= p + d /\ p + d <= l /\ n \in 0 .. l /\ p + d \in Nat
    <3>1. p + d - 1 \in p .. p + d - 1 /\ d \in Nat /\ d > 0
      BY <1>1, <1>4
    <3>2. p + d - 1 < l
      BY <1>0, <3>1
    <3> HIDE DEF l
    <3>3. n \in 0 .. l /\ d \in 0 .. l
      BY DEF l
    <3> QED
      BY ONLY <1>1, <3>1, <3>2, <3>3, p \in Nat
  <2>2. F[n][p + d][below] \in Seq(N!Byte)
    <3> HIDE DEF F
    <3> QED
      BY ONLY <1>1, <1>2, <2>1
  <2>3. (o \o SubSeq(b, p + 1, p + d)) \o F[n][p + d][below]
          = (Append(o, x) \o SubSeq(b, p + 2, p + d)) \o F[n][p + d][below]
    <3> DEFINE r == F[n][p + d][below]
               q == p + d
    <3>1. r \in Seq(N!Byte) /\ q \in Nat /\ p + 1 <= q /\ q <= Len(b)
      BY <2>1, <2>2
    <3> HIDE DEF r, q
    <3>2. o \o SubSeq(b, p + 1, q) = Append(o, b[p + 1]) \o SubSeq(b, p + 2, q)
      BY ONLY <3>1, b \in Seq(N!Byte), o \in Seq(N!Byte), p \in Nat, ByteMoves
    <3> DEFINE u == o \o SubSeq(b, p + 1, q)
               v == Append(o, b[p + 1]) \o SubSeq(b, p + 2, q)
    <3>3. u = v
      BY ONLY <3>2
    <3> HIDE DEF u, v
    <3>4. u \o r = v \o r
      BY ONLY <3>3
    <3> QED
      BY ONLY <3>4, Zenon DEF r, q, u, v
  <2>4. \A i \in p + 1 .. p + 1 + e - 1 : i < l /\ b[i + 1] \in 1 .. 127
    <3>1. \A i \in p .. p + d - 1 : i < l /\ b[i + 1] \in 1 .. 127
      BY <1>0
    <3>2. \A i \in p + 1 .. p + 1 + e - 1 : i \in p .. p + d - 1
      BY ONLY <2>1, p \in Nat, d \in Nat
    <3> QED
      BY ONLY <3>1, <3>2
  <2>5. F[n][p + 1 + e][below] # <<>>
    <3>1. F[n][p + d][below] # <<>>
      BY ONLY <1>0
    <3> HIDE DEF F, e
    <3> QED
      BY ONLY <2>1, <3>1
  <2>6. o \o SubSeq(b, p + 1, p + d) \o F[n][p + d][below]
          = Append(o, x) \o SubSeq(b, p + 2, p + 1 + e) \o F[n][p + 1 + e][below]
    <3> HIDE DEF F, e
    <3> QED
      BY ONLY <2>1, <2>3
  <2> HIDE DEF F, e
  <2>7. ReadAs(b, name, Append(o, x), p + 1, e, n, below)
    <3> DEFINE u == o \o SubSeq(b, p + 1, p + d) \o F[n][p + d][below]
               v == Append(o, x) \o SubSeq(b, p + 2, p + 1 + e) \o F[n][p + 1 + e][below]
    <3>1. name = u /\ u = v
      BY ONLY <1>0, <2>6
    <3>2. p + 2 = p + 1 + 1
      OBVIOUS
    <3>3. v = Append(o, x) \o SubSeq(b, p + 1 + 1, p + 1 + e) \o F[n][p + 1 + e][below]
      BY ONLY <3>2
    <3> HIDE DEF u, v
    <3>4. name = Append(o, x) \o SubSeq(b, p + 1 + 1, p + 1 + e) \o F[n][p + 1 + e][below]
      BY ONLY <3>1, <3>3
    <3> QED
      BY ONLY <2>4, <2>5, <3>4 DEF ReadAs, F, l
  <2> QED
    BY ONLY <2>1, <2>7 DEF x, l
<1> QED
  BY ONLY <1>3, <1>4

(* What is known of a name that is being read. *)
LEMMA ReadingSays ==
  ASSUME N!IInv, pc = "name", Len(packet) <= 1024, N!NameAt(packet, answer + N!StructSize) # <<>>
  PROVE  \E d \in 0 .. Len(packet), n \in 0 .. Len(packet), below \in 0 .. Len(packet) :
           ReadAs(packet, N!NameAt(packet, answer + N!StructSize), out, ipos, d, n, below)
BY DEF N!IInv, N!Reading, N!Size, N!At, ReadAs

(* A byte is copied from the rest to what was copied. *)
LEMMA CopyByteKeeps ==
  ASSUME N!IInv, N!CopyByte
  PROVE  N!IInv'
<1> DEFINE b == packet
           l == Len(b)
           name == N!NameAt(b, answer + N!StructSize)
<1>1. /\ pc = "name" /\ ipos + 1 < N!Size /\ N!At(ipos) # 0 /\ N!At(ipos) < 192 /\ Len(out) < OutSize
      /\ out' = Append(out, N!At(ipos)) /\ ipos' = ipos + 1
      /\ packet' = packet /\ left' = left /\ pc' = pc /\ ptr' = ptr /\ answer' = answer
  BY DEF N!CopyByte, N!InName, N!Inside
<1>2. N!TypeOK /\ left > 0 /\ N!RecordsFound
  BY <1>1 DEF N!IInv
<1>3. b \in Seq(N!Byte) /\ l \in Nat /\ N!Size = l /\ OutSize \in Nat
  BY <1>2, PacketIs, NamesAssumption
<1>4. ipos \in Nat /\ out \in Seq(N!Byte)
  BY <1>2 DEF N!TypeOK
<1>5. ipos < l /\ N!At(ipos) = b[ipos + 1] /\ N!At(ipos) \in N!Byte
  <2>1. ipos < l
    <3> HIDE DEF l
    <3> QED
      BY ONLY <1>1, <1>3, <1>4
  <2>2. N!At(ipos) = b[ipos + 1]
    BY DEF N!At
  <2>3. b[ipos + 1] \in 0 .. 255
    BY <1>3, <1>4, <2>1, ByteAt
  <2> QED
    BY <2>1, <2>2, <2>3 DEF N!Byte
<1>6. N!TypeOK'
  <2>1. out' \in Seq(N!Byte) /\ Len(out') = Len(out) + 1
    BY <1>1, <1>4, <1>5
  <2>2. Len(out) \in Nat
    BY <1>4
  <2>3. Len(out') <= OutSize
    BY ONLY <1>1, <1>3, <2>1, <2>2
  <2> QED
    BY <1>1, <1>2, <1>4, <2>1, <2>3 DEF N!TypeOK
<1>7. N!RecordsFound' /\ N!Passing' /\ N!NamesRead'
  BY <1>1, <1>2 DEF N!RecordsFound, N!Before, N!Passing, N!NamesRead
<1>8. N!Reading'
  <2> SUFFICES ASSUME l <= 1024, name # <<>>
               PROVE  \E d \in 0 .. l, n \in 0 .. l, below \in 0 .. l :
                        ReadAs(b, name, Append(out, b[ipos + 1]), ipos + 1, d, n, below)
    BY <1>1, <1>3, <1>5, ZenonT(40) DEF N!Reading, N!Size, N!At, ReadAs
  <2>1. PICK d \in 0 .. l, n \in 0 .. l, below \in 0 .. l : ReadAs(b, name, out, ipos, d, n, below)
    BY <1>1, ReadingSays
  <2>2. ipos + 1 < Len(b) /\ b[ipos + 1] # 0 /\ b[ipos + 1] < 192
    BY <1>1, <1>3, <1>5
  <2>3. \E e \in 0 .. Len(b), m \in 0 .. Len(b) : ReadAs(b, name, Append(out, b[ipos + 1]), ipos + 1, e, m, below)
    BY ONLY <1>3, <1>4, <2>1, <2>2, RestAfterByte
  <2> QED
    BY ONLY <2>3
<1> QED
  BY <1>1, <1>2, <1>6, <1>7, <1>8 DEF N!IInv

(* At a pointer, there is nothing left of a label, and the rest stands for *)
(* what it does where the pointer points.                                  *)
LEMMA RestBehindPointer ==
  ASSUME NEW b, b \in Seq(N!Byte), NEW name, NEW o \in Seq(N!Byte), NEW p \in Nat, b[p + 1] >= 192,
         NEW d \in 0 .. Len(b), NEW n \in 0 .. Len(b), NEW below \in 0 .. Len(b),
         ReadAs(b, name, o, p, d, n, below)
  PROVE  /\ N!Pointer(b, p) < below
         /\ \E m \in 0 .. Len(b) : ReadAs(b, name, o, N!Pointer(b, p), 0, m, N!Pointer(b, p))
<1> DEFINE F == N!Expansion(b)
           l == Len(b)
           x == b[p + 1]
           r == N!Pointer(b, p)
           m == n - 1
<1>1. l \in Nat /\ n \in Nat /\ below \in Nat /\ d \in Nat
  OBVIOUS
<1>2. /\ \A i \in p .. p + d - 1 : i < l /\ b[i + 1] \in 1 .. 127
      /\ F[n][p + d][below] # <<>>
      /\ name = o \o SubSeq(b, p + 1, p + d) \o F[n][p + d][below]
  BY ONLY ReadAs(b, name, o, p, d, n, below) DEF ReadAs
<1>3. d = 0
  <2> SUFFICES ASSUME d # 0 PROVE FALSE
    OBVIOUS
  <2>1. p \in p .. p + d - 1
    BY <1>1
  <2>2. x \in 1 .. 127
    BY <1>2, <2>1
  <2>3. x >= 192
    OBVIOUS
  <2> HIDE DEF x
  <2> QED
    BY ONLY <2>2, <2>3
<1>4. p + d = p /\ F[n][p][below] # <<>>
  BY <1>2, <1>3
<1>5. p < l /\ x # 0
  <2>1. p < l
    BY ONLY <1>1, <1>4, b \in Seq(N!Byte), p \in Nat, OneStep DEF F, l
  <2> QED
    BY <2>1
<1>6. m \in Nat /\ F[n][p][below] = Stands(b, F[m], p, below)
  <2>1. n - 1 \in Nat /\ N!Expansion(b)[n][p][below] = Stands(b, N!Expansion(b)[n - 1], p, below)
    BY ONLY <1>1, <1>4, <1>5, b \in Seq(N!Byte), p \in Nat, OneStep
  <2> QED
    BY ONLY <2>1
<1>7. p + 1 < l /\ r < below /\ F[n][p][below] = F[m][r][r] /\ F[m][r][r] # <<>>
  <2>1. ~ (p >= l)
    <3> HIDE DEF x, l
    <3> QED
      BY ONLY <1>1, <1>5, p \in Nat
  <2>2. x >= 192
    OBVIOUS
  <2> HIDE DEF F, m, r
  <2> QED
    BY ONLY <1>4, <1>5, <1>6, <2>1, <2>2 DEF Stands, r
<1>8. r \in Nat
  BY <1>7, PointerIs
<1>9. name = o \o SubSeq(b, r + 1, r + 0) \o F[m][r + 0][r]
  <2>1. SubSeq(b, p + 1, p) = <<>>
    BY ONLY p \in Nat, p + 1 > p, SubSeqEmpty
  <2> HIDE DEF F, m, r
  <2>2. r + 0 = r /\ r + 1 > r /\ r \in Int /\ r + 1 \in Int
    BY <1>8
  <2>3. SubSeq(b, r + 1, r) = <<>>
    BY ONLY <2>2, SubSeqEmpty
  <2>4. name = o \o <<>> \o F[m][r][r]
    BY ONLY <1>2, <1>4, <1>7, <2>1
  <2> QED
    BY ONLY <2>2, <2>3, <2>4
<1>10. ReadAs(b, name, o, r, 0, m, r)
  <2> HIDE DEF m, r
  <2>1. r + 0 = r
    BY <1>8
  <2>2. \A i \in r .. r + 0 - 1 : i < l /\ b[i + 1] \in 1 .. 127
    BY ONLY <1>8
  <2> QED
    BY ONLY <1>7, <1>9, <2>1, <2>2 DEF ReadAs
<1>11. m \in 0 .. l
  <2>1. n <= l
    OBVIOUS
  <2> QED
    BY ONLY <1>1, <1>6, <2>1
<1> HIDE DEF m, r
<1> QED
  BY ONLY <1>7, <1>10, <1>11 DEF r

(* At a terminator, or at the last byte, only a terminator is left. *)
LEMMA RestAtEnd ==
  ASSUME NEW b, b \in Seq(N!Byte), NEW name, NEW o \in Seq(N!Byte), NEW p \in Nat,
         ~ (p + 1 < Len(b) /\ b[p + 1] # 0),
         NEW d \in 0 .. Len(b), NEW n \in 0 .. Len(b), NEW below \in 0 .. Len(b),
         ReadAs(b, name, o, p, d, n, below)
  PROVE  name = Append(o, 0)
<1> DEFINE F == N!Expansion(b)
           l == Len(b)
           x == b[p + 1]
           m == n - 1
<1>1. l \in Nat /\ n \in Nat /\ below \in Nat /\ d \in Nat
  OBVIOUS
<1>2. /\ \A i \in p .. p + d - 1 : i < l /\ b[i + 1] \in 1 .. 127
      /\ F[n][p + d][below] # <<>>
      /\ name = o \o SubSeq(b, p + 1, p + d) \o F[n][p + d][below]
  BY ONLY ReadAs(b, name, o, p, d, n, below) DEF ReadAs
<1>3. p + d < l
  <2>1. p + d \in Nat
    OBVIOUS
  <2> QED
    BY ONLY <1>1, <1>2, <2>1, b \in Seq(N!Byte), OneStep DEF F, l
<1>4. d = 0
  <2> SUFFICES ASSUME d # 0 PROVE FALSE
    OBVIOUS
  <2>1. p \in p .. p + d - 1
    BY <1>1
  <2>2. x \in 1 .. 127
    BY <1>2, <2>1
  <2>3. ~ (p + 1 < l /\ x # 0)
    OBVIOUS
  <2> HIDE DEF x, l
  <2>4. p + 1 < l
    BY ONLY <1>1, <1>3, d # 0, p \in Nat
  <2> QED
    BY ONLY <2>2, <2>3, <2>4
<1>5. p + d = p /\ p < l /\ F[n][p][below] # <<>>
  BY <1>2, <1>3, <1>4
<1>6. x = 0
  <2> SUFFICES ASSUME x # 0 PROVE FALSE
    OBVIOUS
  <2>1. ~ (p + 1 < l)
    OBVIOUS
  <2>2. n - 1 \in Nat /\ N!Expansion(b)[n][p][below] = Stands(b, N!Expansion(b)[n - 1], p, below)
    BY ONLY <1>1, <1>5, x # 0, b \in Seq(N!Byte), p \in Nat, OneStep
  <2>3. F[n][p][below] = Stands(b, F[m], p, below)
    BY ONLY <2>2
  <2>4. ~ (p >= l)
    <3> HIDE DEF l
    <3> QED
      BY ONLY <1>1, <1>5, p \in Nat
  <2>5. N!IsLabel(b, p)
    <3> HIDE DEF F, m
    <3> QED
      BY ONLY <1>5, <2>1, <2>3, <2>4, x # 0 DEF Stands
  <2>6. x \in 1 .. 63 /\ p + x < l
    BY ONLY <2>5 DEF N!IsLabel
  <2> HIDE DEF x, l
  <2> QED
    BY ONLY <1>1, <2>1, <2>6, p \in Nat
<1>7. F[n][p][below] = <<0>>
  BY ONLY <1>1, <1>5, <1>6, b \in Seq(N!Byte), p \in Nat, OneStep DEF F, x
<1>8. SubSeq(b, p + 1, p) = <<>>
  BY ONLY p \in Nat, p + 1 > p, SubSeqEmpty
<1>9. name = o \o <<>> \o <<0>>
  <2> HIDE DEF F
  <2> QED
    BY ONLY <1>2, <1>5, <1>7, <1>8
<1>10. o \o <<>> = o /\ o \o <<0>> = Append(o, 0)
  <2>1. 0 \in N!Byte
    BY DEF N!Byte
  <2> QED
    BY ONLY <2>1, o \in Seq(N!Byte)
<1> QED
  BY ONLY <1>9, <1>10

(* Something is always left. *)
LEMMA RestIsMore ==
  ASSUME NEW b, b \in Seq(N!Byte), NEW name, NEW o \in Seq(N!Byte), NEW p \in Nat,
         NEW d \in 0 .. Len(b), NEW n \in 0 .. Len(b), NEW below \in 0 .. Len(b),
         ReadAs(b, name, o, p, d, n, below)
  PROVE  Len(name) > Len(o)
<1> DEFINE l == Len(b)
           r == N!Expansion(b)[n][p + d][below]
           u == SubSeq(b, p + 1, p + d)
<1>1. l \in Nat /\ n \in Nat /\ below \in Nat /\ d \in Nat /\ p + d \in Nat
  OBVIOUS
<1>2. r # <<>> /\ name = o \o u \o r
  BY ONLY ReadAs(b, name, o, p, d, n, below) DEF ReadAs
<1>3. r \in Seq(N!Byte)
  <2>1. N!Expansion(b) \in [Nat -> [Nat -> [Nat -> Seq(N!Byte)]]]
    BY ExpansionIs
  <2> QED
    BY ONLY <1>1, <2>1
<1>4. p + d < l
  BY ONLY <1>1, <1>2, b \in Seq(N!Byte), OneStep DEF l, r
<1>5. u \in Seq(N!Byte)
  <2>1. CASE d = 0
    <3>1. p + d = p
      BY <2>1
    <3>2. SubSeq(b, p + 1, p) = <<>>
      BY ONLY p \in Nat, p + 1 > p, SubSeqEmpty
    <3> QED
      BY ONLY <3>1, <3>2
  <2>2. CASE d # 0
    <3> DEFINE q == p + d
    <3>1. q \in Nat /\ q <= l /\ p + 1 \in Int
      BY <1>1, <1>4
    <3> HIDE DEF q
    <3>2. \A i \in p + 1 .. q : b[i] \in N!Byte
      BY <1>1, <3>1
    <3>3. SubSeq(b, p + 1, q) \in Seq(N!Byte)
      BY ONLY <3>1, <3>2, SubSeqProperties
    <3> QED
      BY ONLY <3>3 DEF q
  <2> QED
    BY ONLY <2>1, <2>2
<1> HIDE DEF r, u
<1>6. Len(r) \in Nat \ {0} /\ Len(u) \in Nat /\ Len(o) \in Nat
  BY <1>2, <1>3, <1>5
<1>7. o \o u \in Seq(N!Byte) /\ Len(o \o u) = Len(o) + Len(u)
  BY ONLY <1>5, o \in Seq(N!Byte), ConcatProperties
<1>8. Len((o \o u) \o r) = Len(o \o u) + Len(r)
  BY ONLY <1>3, <1>7, ConcatProperties
<1> QED
  BY ONLY <1>2, <1>6, <1>7, <1>8

(* A pointer is followed to a position that needs no more than 10 bits. *)
LEMMA FollowPointerKeeps ==
  ASSUME N!IInv, N!FollowPointer
  PROVE  N!IInv'
<1> DEFINE b == packet
           l == Len(b)
           name == N!NameAt(b, answer + N!StructSize)
<1>1. /\ pc = "name" /\ ipos + 1 < N!Size /\ N!At(ipos) >= 192 /\ ipos' = N!Word(ipos) % 1024
      /\ packet' = packet /\ left' = left /\ pc' = pc /\ ptr' = ptr /\ answer' = answer /\ out' = out
  BY DEF N!FollowPointer, N!InName, N!Inside
<1>2. N!TypeOK /\ left > 0 /\ N!RecordsFound
  BY <1>1 DEF N!IInv
<1>3. b \in Seq(N!Byte) /\ l \in Nat /\ N!Size = l
  BY <1>2, PacketIs
<1>4. ipos \in Nat /\ out \in Seq(N!Byte)
  BY <1>2 DEF N!TypeOK
<1>5. /\ N!At(ipos) = b[ipos + 1] /\ b[ipos + 1] >= 192 /\ ipos + 1 < Len(b)
      /\ N!Word(ipos) = 256 * b[ipos + 1] + b[ipos + 2] /\ N!Word(ipos) \in Nat
  <2>1. N!At(ipos) = b[ipos + 1]
    BY DEF N!At
  <2>2. N!Word(ipos) = 256 * b[ipos + 1] + b[ipos + 2]
    <3>1. ipos + 1 + 1 = ipos + 2
      BY <1>4
    <3> QED
      BY ONLY <3>1 DEF N!Word, N!At
  <2>3. b[ipos + 1] \in Nat /\ b[ipos + 2] \in Nat
    <3>1. ipos < l /\ ipos + 1 \in Nat /\ ipos + 1 < l /\ ipos + 1 + 1 = ipos + 2
      <4> HIDE DEF l
      <4> QED
        BY ONLY <1>1, <1>3, <1>4
    <3>2. b[ipos + 1] \in Nat
      BY ONLY <1>3, <1>4, <3>1, ByteAt
    <3>3. b[ipos + 1 + 1] \in Nat
      BY ONLY <1>3, <3>1, ByteAt
    <3> QED
      BY ONLY <3>1, <3>2, <3>3
  <2> DEFINE x == b[ipos + 1]
             y == b[ipos + 2]
  <2>4. x \in Nat /\ y \in Nat /\ N!Word(ipos) = 256 * x + y
    BY <2>2, <2>3
  <2> HIDE DEF x, y
  <2>5. N!Word(ipos) \in Nat
    BY ONLY <2>4
  <2> QED
    BY ONLY <1>1, <1>3, <2>1, <2>2, <2>5
<1>6. N!TypeOK'
  <2>1. ipos' \in Nat
    BY ONLY <1>1, <1>5
  <2> QED
    BY <1>1, <1>2, <2>1 DEF N!TypeOK
<1>7. N!RecordsFound' /\ N!Passing' /\ N!NamesRead'
  BY <1>1, <1>2 DEF N!RecordsFound, N!Before, N!Passing, N!NamesRead
<1>8. N!Reading'
  <2>1. ASSUME l <= 1024, name # <<>>
        PROVE  \E d \in 0 .. l, n \in 0 .. l, below \in 0 .. l : ReadAs(b, name, out, ipos', d, n, below)
    <3>1. PICK d \in 0 .. l, n \in 0 .. l, below \in 0 .. l : ReadAs(b, name, out, ipos, d, n, below)
      BY <1>1, <2>1, ReadingSays
    <3> DEFINE r == N!Pointer(b, ipos)
    <3>2. /\ r < below
          /\ \E m \in 0 .. l : ReadAs(b, name, out, r, 0, m, r)
      BY ONLY <1>3, <1>4, <1>5, <3>1, RestBehindPointer
    <3>3. r \in Nat /\ (r < 1024 => N!Word(ipos) % 1024 = r)
      BY ONLY <1>3, <1>4, <1>5, PointerIs
    <3>4. l <= 1024
      BY <2>1
    <3> HIDE DEF r, l
    <3>5. r \in 0 .. l /\ ipos' = r /\ 0 \in 0 .. l
      BY ONLY <1>1, <1>3, <3>1, <3>2, <3>3, <3>4
    <3> QED
      BY ONLY <3>2, <3>5
  <2>2. packet' = packet /\ answer' = answer /\ out' = out
    BY <1>1
  <2> QED
    BY ONLY <1>3, <2>1, <2>2, ZenonT(40) DEF N!Reading, N!Size, N!At, ReadAs
<1> QED
  BY <1>1, <1>2, <1>6, <1>7, <1>8 DEF N!IInv

(* At the end, what was copied is the name. *)
LEMMA NameEndsKeeps ==
  ASSUME N!IInv, N!NameEnds
  PROVE  N!IInv'
<1> DEFINE b == packet
           name == N!NameAt(b, answer + N!StructSize)
<1>1. /\ pc = "name" /\ ~ (ipos + 1 < N!Size /\ N!At(ipos) # 0) /\ Len(out) < OutSize
      /\ out' = Append(out, 0) /\ pc' = "read" /\ ipos' = ipos
      /\ packet' = packet /\ left' = left /\ ptr' = ptr /\ answer' = answer
  BY DEF N!NameEnds, N!AtEnd, N!Inside
<1>2. N!TypeOK /\ left > 0 /\ N!RecordsFound
  BY <1>1 DEF N!IInv
<1>3. b \in Seq(N!Byte) /\ Len(b) \in Nat /\ N!Size = Len(b) /\ OutSize \in Nat
  BY <1>2, PacketIs, NamesAssumption
<1>4. ipos \in Nat /\ out \in Seq(N!Byte)
  BY <1>2 DEF N!TypeOK
<1>5. N!TypeOK'
  <2>1. out' \in Seq(N!Byte) /\ Len(out') = Len(out) + 1
    BY <1>1, <1>4 DEF N!Byte
  <2>2. Len(out) \in Nat
    BY <1>4
  <2>3. Len(out') <= OutSize
    BY ONLY <1>1, <1>3, <2>1, <2>2
  <2> QED
    BY <1>1, <1>2, <1>4, <2>1, <2>3 DEF N!TypeOK
<1>6. N!RecordsFound' /\ N!Passing' /\ N!Reading'
  BY <1>1, <1>2 DEF N!RecordsFound, N!Before, N!Passing, N!Reading
<1>7. N!NamesRead'
  <2> SUFFICES ASSUME Len(b) <= 1024, name # <<>> PROVE Append(out, 0) = name
    BY <1>1, <1>3 DEF N!NamesRead, N!Size
  <2>1. PICK d \in 0 .. Len(b), n \in 0 .. Len(b), below \in 0 .. Len(b) : ReadAs(b, name, out, ipos, d, n, below)
    BY <1>1, ReadingSays
  <2>2. ~ (ipos + 1 < Len(b) /\ b[ipos + 1] # 0)
    BY <1>1, <1>3 DEF N!At
  <2> QED
    BY ONLY <1>3, <1>4, <2>1, <2>2, RestAtEnd
<1> QED
  BY <1>1, <1>2, <1>5, <1>6, <1>7 DEF N!IInv

(* If the buffer is full, there is more of the name. *)
LEMMA NameTooLongKeeps ==
  ASSUME N!IInv, N!NameTooLong
  PROVE  N!IInv'
<1> DEFINE b == packet
           name == N!NameAt(b, answer + N!StructSize)
<1>1. /\ pc = "name" /\ Len(out) = OutSize /\ pc' = "unread"
      /\ packet' = packet /\ left' = left /\ ptr' = ptr /\ answer' = answer /\ ipos' = ipos /\ out' = out
  BY DEF N!NameTooLong, N!AtEnd, N!InName
<1>2. N!TypeOK /\ left > 0 /\ N!RecordsFound
  BY <1>1 DEF N!IInv
<1>3. b \in Seq(N!Byte) /\ N!Size = Len(b)
  BY <1>2, PacketIs
<1>4. ipos \in Nat /\ out \in Seq(N!Byte)
  BY <1>2 DEF N!TypeOK
<1>5. N!TypeOK'
  BY <1>1, <1>2 DEF N!TypeOK
<1>6. N!RecordsFound' /\ N!Passing' /\ N!Reading'
  BY <1>1, <1>2 DEF N!RecordsFound, N!Before, N!Passing, N!Reading
<1>7. N!NamesRead'
  <2> SUFFICES ASSUME Len(b) <= 1024, name # <<>> PROVE Len(name) > OutSize
    BY <1>1, <1>3 DEF N!NamesRead, N!Size
  <2>1. PICK d \in 0 .. Len(b), n \in 0 .. Len(b), below \in 0 .. Len(b) : ReadAs(b, name, out, ipos, d, n, below)
    BY <1>1, ReadingSays
  <2>2. Len(name) > Len(out)
    BY ONLY <1>3, <1>4, <2>1, RestIsMore
  <2> QED
    BY ONLY <1>1, <2>2
<1> QED
  BY <1>1, <1>2, <1>5, <1>6, <1>7 DEF N!IInv

(* The next record starts where the last one ended. *)
LEMMA NextRecordKeeps ==
  ASSUME N!IInv, N!NextRecord
  PROVE  N!IInv'
<1> DEFINE k == N!Before
<1>1. /\ pc \in {"read", "unread"} /\ left' = left - 1 /\ pc' = IF left = 1 THEN "end" ELSE "owner"
      /\ packet' = packet /\ ptr' = ptr /\ answer' = answer /\ ipos' = ipos /\ out' = out
  BY DEF N!NextRecord
<1>2. N!TypeOK /\ left > 0 /\ N!RecordsFound
  BY <1>1 DEF N!IInv
<1>3. left \in Nat \ {0} /\ Records \in Nat /\ left <= Records /\ ptr \in Nat
  BY <1>2, NamesAssumption DEF N!TypeOK
<1>4. left' \in 0 .. Records /\ (left # 1 => left' > 0)
  BY <1>1, <1>3
<1>5. N!TypeOK'
  BY <1>1, <1>2, <1>4 DEF N!TypeOK
<1>6. N!Before' = k + 1
  BY <1>1, <1>3 DEF N!Before
<1>7. N!Passing'
  <2> SUFFICES ASSUME N!InAscii(packet, k + 1)
               PROVE  LET start == N!Section(packet)[k + 1]
                      IN  start <= ptr /\ \A i \in start .. ptr - 1 : i < N!Size /\ N!At(i) \in 1 .. 191
    BY <1>1, <1>6 DEF N!Passing, N!Size, N!At
  <2>1. ptr = N!Section(packet)[k + 1]
    BY <1>1, <1>2 DEF N!RecordsFound
  <2> QED
    BY <1>3, <2>1
<1>8. N!RecordsFound' /\ N!Reading' /\ N!NamesRead'
  BY <1>1 DEF N!RecordsFound, N!Reading, N!NamesRead
<1> QED
  BY <1>1, <1>4, <1>5, <1>7, <1>8 DEF N!IInv

(* Each step keeps the invariant of the reading. *)
LEMMA NamesKeep ==
  ASSUME N!IInv, [N!Next]_(N!vars)
  PROVE  N!IInv'
<1>1. CASE N!OwnerByte
  BY <1>1, OwnerByteKeeps
<1>2. CASE \E s \in ptr .. ptr + 2 : N!FindAnswer(s)
  BY <1>2, FindAnswerKeeps
<1>3. CASE N!NoAnswer
  BY <1>3, NoAnswerKeeps
<1>4. CASE N!CopyByte
  BY <1>4, CopyByteKeeps
<1>5. CASE N!FollowPointer
  BY <1>5, FollowPointerKeeps
<1>6. CASE N!NameEnds
  BY <1>6, NameEndsKeeps
<1>7. CASE N!NameTooLong
  BY <1>7, NameTooLongKeeps
<1>8. CASE N!NextRecord
  BY <1>8, NextRecordKeeps
<1>9. CASE UNCHANGED N!vars
  <2>1. /\ packet' = packet /\ left' = left /\ pc' = pc /\ ptr' = ptr
        /\ answer' = answer /\ ipos' = ipos /\ out' = out
    BY <1>9 DEF N!vars
  <2>2. N!TypeOK' /\ N!RecordsFound' /\ N!NamesRead' /\ (pc' # "end" => left' > 0)
    BY <2>1 DEF N!IInv, N!TypeOK, N!RecordsFound, N!NamesRead, N!Size, N!Before
  <2>3. N!Passing'
    BY <2>1 DEF N!IInv, N!Passing, N!Size, N!At, N!Before
  <2>4. N!Reading'
    BY <2>1, ZenonT(40) DEF N!IInv, N!Reading, N!Size, N!At
  <2> QED
    BY <2>2, <2>3, <2>4 DEF N!IInv
<1> QED
  BY <1>1, <1>2, <1>3, <1>4, <1>5, <1>6, <1>7, <1>8, <1>9 DEF N!Next, N!Over

(* In any packet, of any size and from any server, the records are found   *)
(* where they are, and the names in them are read as what they stand for.  *)
THEOREM ReadsPackets == N!Spec => []PacketsRead
<1>1. N!Init => N!IInv
  BY NamesStart
<1>2. N!IInv /\ [N!Next]_(N!vars) => N!IInv'
  BY NamesKeep
<1>3. N!IInv => PacketsRead
  BY DEF N!IInv, PacketsRead
<1> QED
  BY <1>1, <1>2, <1>3, PTL DEF N!Spec

=============================================================================
