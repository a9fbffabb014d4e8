--------------------------- MODULE StartupProofs ----------------------------
(***************************************************************************)
(* What holds of a process for any text on the command line, any widths of *)
(* integers and any connections: it listens on what was written, and       *)
(* closes what it opened, once.                                            *)
(***************************************************************************)
EXTENDS Startup, WellFoundedInduction, SequenceTheorems, FiniteSetTheorems, TLAPS

-----------------------------------------------------------------------------
(* Numbers *)

(* A non-empty set of natural numbers has a least element. *)
LEMMA LeastNumber ==
  ASSUME NEW S \in SUBSET Nat, S # {}
  PROVE  \E m \in S : \A n \in S : m <= n
<1>1. PICK m \in S : \A n \in S : ~ (<<n, m>> \in OpToRel(<, Nat))
  BY NatLessThanWellFounded, WFMin
<1>2. ASSUME NEW n \in S PROVE m <= n
  <2>1. ~ (<<n, m>> \in OpToRel(<, Nat))
    BY <1>1
  <2>2. ~ (n < m)
    BY <2>1 DEF OpToRel
  <2> QED
    BY <2>2
<1> QED
  BY <1>2

(* The first and the last of some positions in a text. *)
LEMMA FirstAndLast ==
  ASSUME NEW n \in Nat, NEW S \in SUBSET (1 .. n), S # {}
  PROVE  /\ Min(S) \in S /\ \A i \in S : Min(S) <= i
         /\ Max(S) \in S /\ \A i \in S : i <= Max(S)
<1>1. \E m \in S : \A i \in S : m <= i
  BY LeastNumber
<1>2. \E m \in S : \A i \in S : i <= m
  <2> DEFINE T == {n - i : i \in S}
  <2>1. T \in SUBSET Nat /\ T # {}
    <3>1. \A i \in S : n - i \in Nat
      OBVIOUS
    <3> QED
      BY <3>1
  <2>2. PICK k \in T : \A j \in T : k <= j
    BY <2>1, LeastNumber
  <2>3. PICK m \in S : k = n - m
    BY <2>2
  <2>4. ASSUME NEW i \in S PROVE i <= m
    <3>1. n - m <= n - i
      BY <2>2, <2>3
    <3> QED
      BY <3>1
  <2> QED
    BY <2>4
<1> QED
  BY <1>1, <1>2 DEF Min, Max

(* A number that fits is its own remainder. *)
LEMMA OwnRemainder ==
  ASSUME NEW m \in Nat \ {0}, NEW n \in 0 .. m - 1
  PROVE  n % m = n
OBVIOUS

(* sscanf reads a port as what it is. *)
LEMMA PortAsInt ==
  ASSUME NEW p \in 0 .. PortMax
  PROVE  AsInt(p) = p /\ AsInt(p) % (PortMax + 1) = p
<1>1. 2 * (IntMax + 1) \in Nat \ {0} /\ p \in 0 .. 2 * (IntMax + 1) - 1 /\ p <= IntMax
  BY WidthAssumption
<1>2. p % (2 * (IntMax + 1)) = p
  BY <1>1, OwnRemainder
<1>3. AsInt(p) = p
  BY <1>1, <1>2, WidthAssumption DEF AsInt
<1>4. PortMax + 1 \in Nat \ {0} /\ p \in 0 .. (PortMax + 1) - 1
  BY WidthAssumption
<1> QED
  BY <1>3, <1>4, OwnRemainder

LEMMA IntIsInt ==
  ASSUME NEW n \in Int
  PROVE  AsInt(n) \in Int /\ AsInt(n) % (PortMax + 1) \in 0 .. PortMax
<1>1. n % (2 * (IntMax + 1)) \in Int
  BY WidthAssumption
<1>2. AsInt(n) \in Int
  BY <1>1, WidthAssumption DEF AsInt
<1> QED
  BY <1>2, WidthAssumption

-----------------------------------------------------------------------------
(* Texts *)

(* An address of IPv6 holds a colon and no bracket. *)
LEMMA IPv6Text ==
  ASSUME NEW a \in Seq(Token), IsIPv6(a)
  PROVE  Colons(a) # {} /\ \A i \in DOMAIN a : a[i] # Left /\ a[i] # Right
<1> DEFINE colon == {i \in DOMAIN a : a[i] = Colon}
           quad == {i \in DOMAIN a : a[i] = Quad}
           gap == {i \in colon : i + 1 \in colon}
           width == Len(a) - Cardinality(colon) + Cardinality(quad)
<1>1. /\ \A i \in DOMAIN a : a[i] \in Group \cup {Colon, Quad}
      /\ quad \subseteq {Len(a)}
      /\ \A i \in 1 .. Len(a) - 1 : i \in colon \/ i + 1 \in colon
      /\ (gap = {} /\ width = Groups) \/ Cardinality(gap) = 1
  BY DEF IsIPv6
<1>2. Len(a) \in Nat
  OBVIOUS
<1>3. ASSUME colon = {} PROVE FALSE
  <2>1. gap = {}
    BY <1>3
  <2>2. Cardinality({}) = 0
    BY FS_EmptySet
  <2>3. Cardinality(gap) # 1
    BY <2>1, <2>2
  <2>4. Len(a) <= 1
    <3>1. ASSUME Len(a) >= 2 PROVE FALSE
      <4>1. 1 \in 1 .. Len(a) - 1
        BY <1>2, <3>1
      <4> QED
        BY <1>1, <1>3, <4>1
    <3> QED
      BY <1>2, <3>1
  <2>5. Cardinality({Len(a)}) = 1
    BY FS_Singleton
  <2>6. quad = {} \/ quad = {Len(a)}
    BY <1>1
  <2>7. Cardinality(quad) = 0 \/ Cardinality(quad) = 1
    BY <2>2, <2>5, <2>6
  <2>8. Len(a) - Cardinality(colon) + Cardinality(quad) = Groups
    BY <1>1, <2>3
  <2>9. Cardinality(colon) = 0
    BY <1>3, <2>2
  <2> HIDE DEF colon, quad, gap
  <2> QED
    BY <1>2, <2>4, <2>7, <2>8, <2>9, WidthAssumption
<1> QED
  BY <1>1, <1>3, TokenAssumption DEF Colons

LEMMA NotBoth ==
  ASSUME NEW a \in Seq(Token), IsIPv6(a)
  PROVE  ~ IsIPv4(a)
BY IPv6Text, TokenAssumption DEF IsIPv4, Colons

(* The last colon of a text, and whether it is the only one. *)
LEMMA ColonAt ==
  ASSUME NEW text \in Seq(Token), NEW k \in DOMAIN text, text[k] = Colon,
         \A i \in k + 1 .. Len(text) : text[i] # Colon
  PROVE  /\ Colons(text) # {}
         /\ LastColon(text) = k
         /\ FirstColon(text) = LastColon(text) <=> \A i \in 1 .. k - 1 : text[i] # Colon
<1>1. Colons(text) \in SUBSET (1 .. Len(text)) /\ k \in Colons(text) /\ Len(text) \in Nat
  BY DEF Colons
<1> DEFINE f == Min(Colons(text))
           l == Max(Colons(text))
<1>2. f \in Colons(text) /\ (\A i \in Colons(text) : f <= i) /\ l \in Colons(text) /\ \A i \in Colons(text) : i <= l
  BY <1>1, FirstAndLast
<1> HIDE DEF f, l
<1>3. l = k
  BY <1>1, <1>2 DEF Colons
<1>4. f = k <=> \A i \in 1 .. k - 1 : text[i] # Colon
  BY <1>1, <1>2 DEF Colons
<1> QED
  BY <1>1, <1>3, <1>4 DEF LastColon, FirstColon, f, l

LEMMA PortIsNumber ==
  ASSUME NEW p \in Int
  PROVE  IsNumber(p) /\ p \in Token
BY TokenAssumption DEF IsNumber, Token

(* What is decoded of an address and a port behind the last colon. *)
LEMMA PortBehind ==
  ASSUME NEW text \in Seq(Token), NEW p \in 0 .. PortMax, Len(text) >= 2,
         text[Len(text) - 1] = Colon, text[Len(text)] = p
  PROVE  /\ Colons(text) # {}
         /\ LastColon(text) = Len(text) - 1
         /\ FirstColon(text) = LastColon(text) <=> \A i \in 1 .. Len(text) - 2 : text[i] # Colon
         /\ SubSeq(text, 1, LastColon(text) - 1) = SubSeq(text, 1, Len(text) - 2)
         /\ SubSeq(text, LastColon(text) + 1, Len(text)) # <<>>
         /\ SubSeq(text, LastColon(text) + 1, Len(text))[1] = p
         /\ IsNumber(p) /\ AsInt(p) <= PortMax /\ AsInt(p) % (PortMax + 1) = p
<1> DEFINE k == Len(text) - 1
<1>1. k \in DOMAIN text /\ Len(text) \in Nat /\ p # Colon
  <2>1. Len(text) \in Nat /\ DOMAIN text = 1 .. Len(text)
    OBVIOUS
  <2>2. p \in Int /\ Colon \notin Int
    BY TokenAssumption
  <2> QED
    BY <2>1, <2>2
<1>2. /\ Colons(text) # {}
      /\ LastColon(text) = k
      /\ FirstColon(text) = LastColon(text) <=> \A i \in 1 .. Len(text) - 2 : text[i] # Colon
  <2>1. \A i \in k + 1 .. Len(text) : text[i] # Colon
    BY <1>1
  <2>2. k - 1 = Len(text) - 2
    BY <1>1
  <2> QED
    BY <1>1, <2>1, <2>2, ColonAt
<1>3. SubSeq(text, k + 1, Len(text)) # <<>> /\ SubSeq(text, k + 1, Len(text))[1] = p
  BY <1>1
<1>5. k - 1 = Len(text) - 2
  BY <1>1
<1>4. IsNumber(p) /\ AsInt(p) <= PortMax /\ AsInt(p) % (PortMax + 1) = p
  BY PortIsNumber, PortAsInt, WidthAssumption
<1> QED
  BY <1>2, <1>3, <1>4, <1>5

LEMMA DecodeIPv4 ==
  ASSUME NEW text \in Seq(Token), NEW p \in 0 .. PortMax, Len(text) >= 2,
         text[Len(text) - 1] = Colon, text[Len(text)] = p,
         \A i \in 1 .. Len(text) - 2 : text[i] # Colon,
         NEW a, a = SubSeq(text, 1, Len(text) - 2), IsIPv4(a)
  PROVE  Decode(text) = [addr |-> a, port |-> p]
BY PortBehind DEF Decode

LEMMA DecodeIPv6 ==
  ASSUME NEW text \in Seq(Token), NEW p \in 0 .. PortMax, Len(text) >= 2,
         text[Len(text) - 1] = Colon, text[Len(text)] = p,
         NEW i \in 1 .. Len(text) - 2, text[i] = Colon,
         NEW a, a = Strip(SubSeq(text, 1, Len(text) - 2)), IsIPv6(a)
  PROVE  Decode(text) = [addr |-> a, port |-> p]
<1>1. FirstColon(text) # LastColon(text)
  BY PortBehind
<1> QED
  BY <1>1, PortBehind DEF Decode

(* Brackets are taken off, and nothing else is. *)
LEMMA Stripped ==
  ASSUME NEW a \in Seq(Token), a # <<>>, \A i \in DOMAIN a : a[i] # Left /\ a[i] # Right
  PROVE  Strip(a) = a /\ Strip(<<Left>> \o a \o <<Right>>) = a
<1>1. Len(a) \in Nat \ {0} /\ a[1] # Left /\ a[Len(a)] # Right
  OBVIOUS
<1>2. Strip(a) = a
  <2>1. Head(a) = a[1] /\ SubSeq(a, 1, Len(a)) = a
    OBVIOUS
  <2> QED
    BY <1>1, <2>1 DEF Strip, Last
<1> DEFINE b == <<Left>> \o a \o <<Right>>
<1>3. b \in Seq(Token)
  BY DEF Token
<1>4. /\ Len(b) = Len(a) + 2 /\ b # <<>>
      /\ Head(b) = Left /\ b[Len(b)] = Right
      /\ \A i \in 1 .. Len(a) : b[i + 1] = a[i]
  BY <1>1
<1>5. SubSeq(b, 2, Len(b) - 1) = a
  <2> HIDE DEF b
  <2>1. SubSeq(b, 2, Len(b) - 1) \in Seq(Token) /\ Len(SubSeq(b, 2, Len(b) - 1)) = Len(a)
    BY <1>1, <1>3, <1>4
  <2>2. \A i \in 1 .. Len(a) : SubSeq(b, 2, Len(b) - 1)[i] = a[i]
    BY <1>1, <1>3, <1>4
  <2> QED
    BY <2>1, <2>2, SeqEqual
<1>6. 2 <= Len(b)
  BY <1>1, <1>4
<1> HIDE DEF b
<1>7. Strip(b) = a
  BY <1>4, <1>5, <1>6 DEF Strip, Last
<1> QED
  BY <1>2, <1>7 DEF b

(* An address and port that are written in any of the forms are decoded.   *)
LEMMA Understood ==
  ASSUME NEW text \in Seq(Token), NEW a \in Seq(Token), NEW p \in 0 .. PortMax, Writes(text, a, p)
  PROVE  Decode(text) = [addr |-> a, port |-> p]
<1> p \in Int /\ p \in Token /\ Colon \in Token /\ Left \in Token /\ Right \in Token
  BY DEF Token
<1>1. CASE IsIPv4(a) /\ text = a \o <<Colon, p>>
  <2>1. a = <<Quad>>
    BY <1>1 DEF IsIPv4
  <2>2. Len(text) = 3 /\ text[1] = Quad /\ text[2] = Colon /\ text[3] = p
    BY <1>1, <2>1
  <2>3. SubSeq(text, 1, Len(text) - 2) = <<Quad>>
    <3>1. Len(a) = 1 /\ Len(text) - 2 = 1
      BY <2>1, <2>2
    <3>2. SubSeq(text, 1, Len(text) - 2) = SubSeq(a, 1, Len(a))
      BY <1>1, <3>1, SubSeqOfConcat1
    <3> QED
      BY <2>1, <3>2, SubSeqFull
  <2>4. \A i \in 1 .. Len(text) - 2 : text[i] # Colon
    BY <2>2, TokenAssumption
  <2>5. Len(text) >= 2 /\ text[Len(text) - 1] = Colon /\ text[Len(text)] = p
    BY <2>2
  <2>6. IsIPv4(SubSeq(text, 1, Len(text) - 2))
    BY <1>1, <2>1, <2>3
  <2> QED
    BY <2>1, <2>3, <2>4, <2>5, <2>6, DecodeIPv4
<1>2. ASSUME IsIPv6(a) PROVE Colons(a) # {} /\ a # <<>> /\ Strip(a) = a /\ Strip(<<Left>> \o a \o <<Right>>) = a
  <2>1. Colons(a) # {} /\ \A i \in DOMAIN a : a[i] # Left /\ a[i] # Right
    BY <1>2, IPv6Text
  <2>2. a # <<>>
    BY <2>1 DEF Colons
  <2> QED
    BY <2>1, <2>2, Stripped
<1>3. ASSUME IsIPv6(a), NEW b \in Seq(Token), b = a \/ b = <<Left>> \o a \o <<Right>>, text = b \o <<Colon, p>>
      PROVE  Decode(text) = [addr |-> a, port |-> p]
  <2>1. PICK i \in 1 .. Len(a) : a[i] = Colon
    BY <1>2, <1>3 DEF Colons
  <2>2. \E j \in 1 .. Len(b) : b[j] = Colon
    <3>1. CASE b = a
      BY <2>1, <3>1
    <3>2. CASE b = <<Left>> \o a \o <<Right>>
      <4>1. i + 1 \in 1 .. Len(b) /\ b[i + 1] = Colon
        BY <2>1, <3>2
      <4> QED
        BY <4>1
    <3> QED
      BY <1>3, <3>1, <3>2
  <2>3. /\ Len(text) = Len(b) + 2 /\ text[Len(text) - 1] = Colon /\ text[Len(text)] = p
        /\ \A j \in 1 .. Len(b) : text[j] = b[j]
    BY <1>3
  <2>4. SubSeq(text, 1, Len(text) - 2) = b
    BY <1>3, <2>3
  <2>5. Len(b) \in Nat
    OBVIOUS
  <2>6. \E j \in 1 .. Len(text) - 2 : text[j] = Colon
    BY <2>2, <2>3, <2>5
  <2>7. Strip(b) = a
    BY <1>2, <1>3
  <2>8. Len(text) >= 2 /\ IsIPv6(Strip(SubSeq(text, 1, Len(text) - 2)))
    <3>1. Len(text) >= 2
      BY <2>3, <2>5
    <3>2. Strip(SubSeq(text, 1, Len(text) - 2)) = a
      BY <2>4, <2>7
    <3>3. IsIPv6(a)
      BY <1>3
    <3> QED
      BY ONLY <3>1, <3>2, <3>3
  <2>9. a = Strip(SubSeq(text, 1, Len(text) - 2))
    BY <2>4, <2>7
  <2>10. PICK j \in 1 .. Len(text) - 2 : text[j] = Colon
    BY <2>6
  <2>11. IsIPv6(a)
    BY <1>3
  <2>12. Decode(text) = [addr |-> a, port |-> p]
    BY ONLY text \in Seq(Token), p \in 0 .. PortMax, <2>3, <2>8, <2>9, <2>10, <2>11, DecodeIPv6
  <2> QED
    BY <2>12
<1>4. CASE IsIPv6(a) /\ text = a \o <<Colon, p>>
  BY <1>3, <1>4
<1>5. CASE IsIPv6(a) /\ text = <<Left>> \o a \o <<Right, Colon, p>>
  <2> DEFINE b == <<Left>> \o a \o <<Right>>
  <2>1. b \in Seq(Token) /\ <<Left>> \o a \o <<Right, Colon, p>> = b \o <<Colon, p>>
    BY SMTT(20)
  <2> QED
    BY <1>3, <1>5, <2>1
<1> QED
  BY <1>1, <1>4, <1>5 DEF Writes

(* What is left of a text without its brackets is a part of it.            *)
LEMMA StripPart ==
  ASSUME NEW text \in Seq(Token), Strip(text) # <<>>
  PROVE  \E i \in 1 .. 2, j \in {Len(text) - 1, Len(text)} :
           /\ i <= j /\ Strip(text) = SubSeq(text, i, j)
           /\ i = 2 => text[1] = Left
           /\ j = Len(text) - 1 => text[Len(text)] = Right
<1> DEFINE from == IF text # <<>> /\ Head(text) = Left THEN 2 ELSE 1
           to == IF from <= Len(text) /\ Last(text) = Right THEN Len(text) - 1 ELSE Len(text)
<1>1. Strip(text) = SubSeq(text, from, to)
  BY DEF Strip
<1>2. from \in 1 .. 2 /\ to \in {Len(text) - 1, Len(text)} /\ Len(text) \in Nat
  OBVIOUS
<1>3. from = 2 => text[1] = Left
  OBVIOUS
<1>4. to = Len(text) - 1 => text[Len(text)] = Right
  BY <1>2 DEF Last
<1> HIDE DEF from, to
<1>5. from <= to
  <2>1. to \in Int /\ from \in Int
    BY <1>2
  <2>2. from > to => SubSeq(text, from, to) = <<>>
    BY <2>1, SubSeqEmpty
  <2> QED
    BY <1>1, <2>1, <2>2
<1> QED
  BY <1>1, <1>2, <1>3, <1>4, <1>5

(* An address and port that were decoded stand in the text, as they should *)
(* be written.                                                             *)
LEMMA DecodedStands ==
  ASSUME NEW text \in Seq(Token), Decode(text) # Failed
  PROVE  /\ Decode(text) \in [addr : Seq(Token), port : 0 .. PortMax]
         /\ IsIPv4(Decode(text).addr) \/ IsIPv6(Decode(text).addr)
         /\ StartsWith(text, Decode(text))
<1> DEFINE c == LastColon(text)
           before == SubSeq(text, 1, c - 1)
           rest == SubSeq(text, c + 1, Len(text))
           v4 == FirstColon(text) = LastColon(text)
           address == IF v4 THEN before ELSE Strip(before)
           port == AsInt(rest[1]) % (PortMax + 1)
<1>1. /\ Colons(text) # {}
      /\ IF v4 THEN IsIPv4(address) ELSE IsIPv6(address)
      /\ rest # <<>> /\ IsNumber(rest[1])
      /\ Decode(text) = [addr |-> address, port |-> port]
  BY DEF Decode
<1>2. c \in 1 .. Len(text) /\ text[c] = Colon /\ Len(text) \in Nat
  <2>1. Colons(text) \in SUBSET (1 .. Len(text)) /\ Len(text) \in Nat
    BY DEF Colons
  <2>2. Max(Colons(text)) \in Colons(text)
    BY <1>1, <2>1, FirstAndLast
  <2> QED
    BY <2>1, <2>2 DEF LastColon, Colons
<1> HIDE DEF c, v4
<1>3. c < Len(text) /\ rest[1] = text[c + 1]
  BY <1>1, <1>2
<1>4. text[c + 1] \in Int
  BY <1>1, <1>2, <1>3, TokenAssumption DEF IsNumber, Token
<1>5. before \in Seq(Token) /\ Len(before) = c - 1 /\ \A i \in 1 .. c - 1 : before[i] = text[i]
  BY <1>2
<1>6. port \in 0 .. PortMax /\ (text[c + 1] \in 0 .. PortMax => port = text[c + 1])
  BY <1>3, <1>4, IntIsInt, PortAsInt
<1> HIDE DEF before, rest, port
<1>7. \E i \in 1 .. 2, j \in {c - 2, c - 1} :
        /\ 1 <= j /\ i <= j /\ address = SubSeq(text, i, j)
        /\ i = 2 => text[1] = Left /\ IsIPv6(address)
        /\ j = c - 2 => text[c - 1] = Right /\ IsIPv6(address)
  <2>1. CASE v4
    <3>1. address = before /\ before = <<Quad>>
      BY <1>1, <2>1 DEF IsIPv4
    <3>2. c - 1 = 1
      BY <1>2, <1>5, <3>1
    <3>3. address = SubSeq(text, 1, c - 1)
      BY <3>1 DEF before
    <3> QED
      BY <1>2, <3>2, <3>3
  <2>2. CASE ~ v4
    <3>1. address = Strip(before) /\ IsIPv6(address)
      BY <1>1, <2>2
    <3>2. ASSUME address = <<>> PROVE FALSE
      <4>1. IsIPv6(<<>>) /\ <<>> \in Seq(Token)
        BY <3>1, <3>2
      <4>2. Colons(<<>>) # {}
        BY ONLY <4>1, IPv6Text
      <4> QED
        BY <4>2 DEF Colons
    <3>3. PICK i \in 1 .. 2, j \in {Len(before) - 1, Len(before)} :
           /\ i <= j /\ Strip(before) = SubSeq(before, i, j)
           /\ i = 2 => before[1] = Left
           /\ j = Len(before) - 1 => before[Len(before)] = Right
      BY <1>5, <3>1, <3>2, StripPart
    <3>4. j \in {c - 2, c - 1} /\ 1 <= j /\ j <= c - 1 /\ i <= j /\ j \in Int /\ i \in Int
      BY <1>2, <1>5, <3>3
    <3>5. SubSeq(before, i, j) = SubSeq(text, i, j)
      <4>1. /\ SubSeq(before, i, j) \in Seq(Token) /\ SubSeq(text, i, j) \in Seq(Token)
            /\ Len(SubSeq(before, i, j)) = j - i + 1 /\ Len(SubSeq(text, i, j)) = j - i + 1
        BY <1>2, <1>5, <3>3, <3>4
      <4>2. \A n \in 1 .. j - i + 1 : SubSeq(before, i, j)[n] = SubSeq(text, i, j)[n]
        BY <1>2, <1>5, <3>3, <3>4
      <4> QED
        BY <4>1, <4>2, SeqEqual
    <3>6. i = 2 => text[1] = Left
      BY <1>2, <1>5, <3>3, <3>4
    <3>7. j = c - 2 => text[c - 1] = Right
      BY <1>2, <1>5, <3>3, <3>4
    <3> QED
      BY <3>1, <3>3, <3>4, <3>5, <3>6, <3>7
  <2> QED
    BY <2>1, <2>2
<1>8. PICK i \in 1 .. 2, j \in {c - 2, c - 1} :
        /\ 1 <= j /\ i <= j /\ address = SubSeq(text, i, j)
        /\ i = 2 => text[1] = Left /\ IsIPv6(address)
        /\ j = c - 2 => text[c - 1] = Right /\ IsIPv6(address)
  BY <1>7
<1>9. address \in Seq(Token)
  <2>1. i \in Int /\ j \in Int /\ 1 <= i /\ j <= Len(text)
    BY <1>2, <1>8
  <2>2. SubSeq(text, i, j) \in Seq(Token)
    BY <2>1
  <2> QED
    BY <1>8, <2>2
<1>10. Decode(text) \in [addr : Seq(Token), port : 0 .. PortMax]
  BY <1>1, <1>6, <1>9
<1>11. IsIPv4(Decode(text).addr) \/ IsIPv6(Decode(text).addr)
  BY <1>1
<1> HIDE DEF address
<1>12. j \in 1 .. Len(text) - 2 /\ c \in {j + 1, j + 2} /\ (c = j + 2 => c - 1 = j + 1 /\ j = c - 2)
  BY <1>2, <1>3, <1>8
<1>13. IsNumber(text[c + 1])
  BY <1>1, <1>3
<1>14. StartsWith(text, [addr |-> address, port |-> port])
  BY <1>2, <1>3, <1>6, <1>8, <1>12, <1>13 DEF StartsWith
<1> QED
  BY <1>1, <1>10, <1>11, <1>14

(* What is logged of an address and port is read as them.                  *)
LEMMA FormatDecoded ==
  ASSUME NEW r \in [addr : Seq(Token), port : 0 .. PortMax], IsIPv4(r.addr) \/ IsIPv6(r.addr)
  PROVE  Decode(Format(r)) = r
<1>1. r.addr \in Seq(Token) /\ r.port \in 0 .. PortMax /\ r = [addr |-> r.addr, port |-> r.port]
  OBVIOUS
<1>2. r.port \in Token /\ Colon \in Token /\ Left \in Token /\ Right \in Token
  BY <1>1 DEF Token
<1>3. Format(r) \in Seq(Token)
  BY <1>1, <1>2 DEF Format
<1>4. Writes(Format(r), r.addr, r.port)
  <2>1. CASE IsIPv4(r.addr)
    BY <2>1 DEF Writes, Format
  <2>2. CASE IsIPv6(r.addr)
    <3>1. Format(r) = (<<Left>> \o r.addr \o <<Right>>) \o <<Colon, r.port>>
      BY <1>1, <2>2, NotBoth DEF Format
    <3>2. (<<Left>> \o r.addr \o <<Right>>) \o <<Colon, r.port>> = <<Left>> \o r.addr \o <<Right, Colon, r.port>>
      BY <1>1, <1>2
    <3> QED
      BY <2>2, <3>1, <3>2 DEF Writes
  <2> QED
    BY <2>1, <2>2
<1> QED
  BY <1>1, <1>3, <1>4, Understood

-----------------------------------------------------------------------------
(* The process *)

LEMMA InitInvariant ==
  ASSUME Init
  PROVE  IInv
<1>1. TypeOK
  BY InputAssumption DEF Init, TypeOK
<1>2. Opens
  BY DEF Init, Opens, Descriptor
<1>3. Decoded
  BY DEF Init, Decoded
<1> QED
  BY <1>1, <1>2, <1>3 DEF IInv

(* What the steps do to the descriptors. *)
LEMMA OpenedIs ==
  ASSUME TypeOK, NEW d \in Descriptor
  PROVE  /\ Opened(d) \in [Descriptor -> {"unused", "open", "closed", "twice"}]
         /\ Opened(d)[d] = "open"
         /\ \A e \in Descriptor \ {d} : Opened(d)[e] = fds[e]
BY DEF TypeOK, Opened

LEMMA ClosedIs ==
  ASSUME TypeOK, NEW D \in SUBSET Descriptor
  PROVE  /\ Closed(D) \in [Descriptor -> {"unused", "open", "closed", "twice"}]
         /\ \A d \in Descriptor \ D : Closed(D)[d] = fds[d]
         /\ \A d \in D : /\ fds[d] = "open" => Closed(D)[d] = "closed"
                         /\ fds[d] = "unused" => Closed(D)[d] = "unused"
BY DEF TypeOK, Closed

LEMMA NextInvariant ==
  ASSUME IInv, [Next]_vars
  PROVE  IInv'
<1> USE DEF IInv
<1> "epoll" \in Descriptor /\ "listen" \in Descriptor /\ Conn \subseteq Descriptor
    /\ "epoll" \notin Conn /\ "listen" \notin Conn /\ Descriptor = {"epoll", "listen"} \cup Conn
  BY ConnAssumption DEF Descriptor
<1>1. CASE CountArgs
  <2>1. TypeOK'
    BY <1>1 DEF CountArgs, ExitWith, args, TypeOK
  <2>2. Opens'
    BY <1>1 DEF CountArgs, ExitWith, args, TypeOK, Opens
  <2>3. Decoded'
    BY <1>1 DEF CountArgs, ExitWith, args, Decoded
  <2> QED
    BY <2>1, <2>2, <2>3
<1>2. CASE DecodeAddress
  <2>1. TypeOK'
    <3>1. entrance' = Failed \/ entrance' \in [addr : Seq(Token), port : 0 .. PortMax]
      BY <1>2, DecodedStands DEF DecodeAddress, TypeOK
    <3> QED
      BY <1>2, <3>1 DEF DecodeAddress, ExitWith, TypeOK
  <2>2. Opens'
    BY <1>2 DEF DecodeAddress, ExitWith, TypeOK, Opens
  <2>3. Decoded'
    BY <1>2 DEF DecodeAddress, ExitWith, Decoded
  <2> QED
    BY <2>1, <2>2, <2>3
<1>3. CASE Daemon
  <2>1. TypeOK'
    BY <1>3 DEF Daemon, ExitWith, args, TypeOK
  <2>2. Opens'
    BY <1>3 DEF Daemon, ExitWith, args, TypeOK, Opens
  <2>3. Decoded'
    BY <1>3 DEF Daemon, ExitWith, args, Decoded
  <2> QED
    BY <2>1, <2>2, <2>3
<1>4. CASE EventsSetup
  <2>1. TypeOK'
    BY <1>4, OpenedIs DEF EventsSetup, args, TypeOK
  <2>2. Opens'
    BY <1>4, OpenedIs DEF EventsSetup, args, TypeOK, Opens
  <2>3. Decoded'
    BY <1>4 DEF EventsSetup, args, Decoded
  <2> QED
    BY <2>1, <2>2, <2>3
<1>5. CASE OpenSocket
  <2>1. TypeOK'
    BY <1>5, OpenedIs, ClosedIs DEF OpenSocket, ExitWith, args, TypeOK
  <2>2. Opens'
    BY <1>5, OpenedIs, ClosedIs DEF OpenSocket, ExitWith, args, TypeOK, Opens
  <2>3. Decoded'
    BY <1>5 DEF OpenSocket, ExitWith, args, Decoded
  <2> QED
    BY <2>1, <2>2, <2>3
<1>6. ASSUME NEW step, NEW next, <<step, next>> \in {<<"reuse", "bind">>, <<"bind", "backlog">>, <<"backlog", "loop">>},
             Prepare(step, next)
      PROVE  IInv'
  <2>1. step \in {"reuse", "bind", "backlog"} /\ next \in {"bind", "backlog", "loop"}
    BY <1>6
  <2>2. Decoded'
    BY <1>6, <2>1 DEF Prepare, ExitWith, args, Decoded
  <2>3. CASE pc' = next /\ listed' = (IF next = "loop" THEN {"listen"} ELSE {}) /\ UNCHANGED fds
    <3>1. TypeOK'
      BY <1>6, <2>1, <2>3 DEF Prepare, args, TypeOK
    <3>2. Opens'
      BY <1>6, <2>1, <2>3 DEF Prepare, args, TypeOK, Opens
    <3> QED
      BY <2>2, <3>1, <3>2
  <2>4. CASE ExitWith(Closed({"listen", "epoll"})) /\ UNCHANGED listed
    <3> DEFINE f == Closed({"listen", "epoll"})
    <3>1. /\ f \in [Descriptor -> {"unused", "open", "closed", "twice"}]
          /\ \A d \in Conn : f[d] = fds[d]
          /\ \A d \in {"listen", "epoll"} : /\ fds[d] = "open" => f[d] = "closed"
                                            /\ fds[d] = "unused" => f[d] = "unused"
      BY ClosedIs
    <3>2. pc' = "exit" /\ fds' = f /\ pc = step /\ UNCHANGED <<input, entrance, listed>>
      BY <1>6, <2>4 DEF Prepare, ExitWith, args
    <3> HIDE DEF f
    <3>3. TypeOK'
      BY <3>1, <3>2 DEF TypeOK
    <3>4. Opens'
      <4>1. fds["listen"] = "open" /\ fds["epoll"] \in {"open", "unused"} /\ listed = {} /\ \A c \in Conn : fds[c] = "unused"
        BY <2>1, <3>2 DEF TypeOK, Opens
      <4>2. \A d \in Descriptor : f[d] # "twice" /\ f[d] # "open"
        BY <3>1, <4>1
      <4> QED
        BY <3>2, <4>1, <4>2 DEF Opens
    <3> QED
      BY <2>2, <3>3, <3>4
  <2> QED
    BY <1>6, <2>3, <2>4 DEF Prepare
<1>7. ASSUME NEW c \in Conn, OpenStream(c) PROVE IInv'
  <2>1. TypeOK'
    BY <1>7, OpenedIs DEF OpenStream, args, TypeOK
  <2>2. Opens'
    BY <1>7, OpenedIs DEF OpenStream, args, TypeOK, Opens
  <2>3. Decoded'
    BY <1>7 DEF OpenStream, args, Decoded
  <2> QED
    BY <2>1, <2>2, <2>3
<1>8. ASSUME NEW c \in Conn, RemoveStream(c) PROVE IInv'
  <2>1. TypeOK'
    BY <1>8, ClosedIs DEF RemoveStream, args, TypeOK
  <2>2. Opens'
    BY <1>8, ClosedIs DEF RemoveStream, args, TypeOK, Opens
  <2>3. Decoded'
    BY <1>8 DEF RemoveStream, args, Decoded
  <2> QED
    BY <2>1, <2>2, <2>3
<1>9. CASE LoopFails
  BY <1>9 DEF LoopFails, args, TypeOK, Opens, Decoded
<1>10. ASSUME NEW d \in Descriptor, Drain(d) PROVE IInv'
  <2>1. TypeOK'
    BY <1>10, ClosedIs DEF Drain, args, TypeOK
  <2>2. Opens'
    BY <1>10, ClosedIs DEF Drain, args, TypeOK, Opens
  <2>3. Decoded'
    BY <1>10 DEF Drain, args, Decoded
  <2> QED
    BY <2>1, <2>2, <2>3
<1>11. CASE Drained
  BY <1>11 DEF Drained, args, TypeOK, Opens, Decoded
<1>12. CASE CloseEvents
  <2>1. TypeOK'
    BY <1>12, ClosedIs DEF CloseEvents, ExitWith, args, TypeOK
  <2>2. Opens'
    BY <1>12, ClosedIs DEF CloseEvents, ExitWith, args, TypeOK, Opens
  <2>3. Decoded'
    BY <1>12 DEF CloseEvents, ExitWith, args, Decoded
  <2> QED
    BY <2>1, <2>2, <2>3
<1>13. CASE UNCHANGED vars
  BY <1>13 DEF vars, args, TypeOK, Opens, Decoded
<1> QED
  BY <1>1, <1>2, <1>3, <1>4, <1>5, <1>6, <1>7, <1>8, <1>9, <1>10, <1>11, <1>12, <1>13
  DEF Next, Starts, Ends, Over

-----------------------------------------------------------------------------
(* Theorems *)

(* At each step of main and proxy_task it is known what is open, and who   *)
(* must close it; and what was decoded is what main was given.             *)
THEOREM Invariant == Spec => []IInv
<1>1. Init => IInv
  BY InitInvariant
<1>2. IInv /\ [Next]_vars => IInv'
  BY NextInvariant
<1> QED
  BY <1>1, <1>2, PTL DEF Spec

(* On every way out of main and proxy_task, all that was opened has been   *)
(* closed, and nothing twice.                                              *)
THEOREM ClosesOnce == Spec => []ClosedOnce
<1>1. IInv => ClosedOnce
  BY DEF IInv, Opens, ClosedOnce
<1> QED
  BY <1>1, Invariant, PTL

(* The address and port that ip_port_decode makes of any text stand at its *)
(* beginning, and format_ip_port writes them so that they are read again.  *)
THEOREM Listens == Spec => []ListensAsAsked
<1>1. IInv => ListensAsAsked
  BY DecodedStands, FormatDecoded DEF IInv, TypeOK, Decoded, ListensAsAsked
<1> QED
  BY <1>1, Invariant, PTL

(* An address and port that are well written are decoded as such.          *)
THEOREM WrittenUnderstood == Spec => WrittenIsRead
<1> DEFINE Read ==
      pc = "decode" =>
        \A a \in PartsOf(input), p \in 0 .. PortMax :
          Writes(input, a, p) => entrance' = [addr |-> a, port |-> p]
<1>1. ASSUME IInv, [Next]_vars PROVE [Read]_vars
  <2>1. CASE DecodeAddress
    <3> SUFFICES ASSUME NEW a \in PartsOf(input), NEW p \in 0 .. PortMax, Writes(input, a, p)
                 PROVE  entrance' = [addr |-> a, port |-> p]
      OBVIOUS
    <3>1. input \in Seq(Token)
      BY <1>1 DEF IInv, TypeOK
    <3>2. a \in Seq(Token)
      <4>1. PICK i \in 1 .. 2, j \in 0 .. Len(input) : a = SubSeq(input, i, j)
        BY DEF PartsOf
      <4>2. i \in Int /\ j \in Int /\ \A n \in i .. j : input[n] \in Token
        BY <3>1
      <4> QED
        BY <4>1, <4>2, SubSeqProperties
    <3> QED
      BY <2>1, <3>1, <3>2, Understood DEF DecodeAddress
  <2>2. CASE ~ DecodeAddress
    <3>1. pc # "decode" \/ UNCHANGED vars
      BY <1>1, <2>2 DEF Next, Starts, Ends, Over, CountArgs, Daemon, EventsSetup, OpenSocket, Prepare,
           OpenStream, RemoveStream, LoopFails, Drain, Drained, CloseEvents
    <3> QED
      BY <3>1
  <2> QED
    BY <2>1, <2>2
<1> QED
  BY <1>1, Invariant, PTL DEF Spec, WrittenIsRead

=============================================================================
