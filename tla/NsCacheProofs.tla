--------------------------- MODULE NsCacheProofs ---------------------------
(***************************************************************************)
(* What holds of the name server cache for any number of records, any life *)
(* and any clock: the invariant, and that it keeps the promise of          *)
(* AgedAnswers.                                                            *)
(***************************************************************************)
EXTENDS NsCache, TLAPS

LEMMA InitHolds == Init => IInv
<1> SUFFICES ASSUME Init PROVE IInv
  OBVIOUS
<1>1. TypeOK
  <2>1. clock \in Nat
    BY RecordsAssumption DEF Init
  <2>2. cache \in [Slot -> [name : ShortName \cup {NoName}, addr : Addr \cup {NoAddr}, expiry : Nat]]
    BY DEF Init
  <2> QED
    BY <2>1, <2>2 DEF Init, TypeOK
<1>2. \A i \in Slot : cache[i].expiry = 0
  BY DEF Init
<1>3. \A i \in Slot, h \in ShortName : ~ Good(i, h, clock)
  BY <1>1, <1>2 DEF Good, TypeOK
<1> QED
  BY <1>1, <1>2, <1>3 DEF Init, IInv, Said, Latest, OneRecordPerName, Asking

LEMMA TypePreserved == TypeOK /\ [Next]_vars => TypeOK'
<1> SUFFICES ASSUME TypeOK, [Next]_vars PROVE TypeOK'
  OBVIOUS
<1> USE DEF TypeOK, history
<1>1. CASE Tick
  BY <1>1, RecordsAssumption DEF Tick
<1>2. ASSUME NEW h \in Hostname, Hit(h) PROVE TypeOK'
  BY <1>2 DEF Hit, Hostname
<1>3. ASSUME NEW h \in Hostname, Miss(h) PROVE TypeOK'
  BY <1>3 DEF Miss, Hostname
<1>4. CASE LookupFails
  BY <1>4 DEF LookupFails
<1>5. ASSUME NEW a \in Addr, LookupAnswers(a) PROVE TypeOK'
  <2>1. PICK i \in Slot :
          cache' = [cache EXCEPT ![i] = [name |-> hostname, addr |-> a, expiry |-> now + Life]]
    BY <1>5 DEF LookupAnswers
  <2>2. cache' \in [Slot -> [name : ShortName \cup {NoName}, addr : Addr \cup {NoAddr}, expiry : Nat]]
    BY <2>1, <1>5, RecordsAssumption DEF LookupAnswers
  <2> QED
    BY <2>2, <1>5 DEF LookupAnswers
<1>6. ASSUME NEW a \in Addr, LookupLongAnswers(a) PROVE TypeOK'
  BY <1>6 DEF LookupLongAnswers
<1>7. CASE UNCHANGED vars
  BY <1>7 DEF vars
<1> QED
  BY <1>1, <1>2, <1>3, <1>4, <1>5, <1>6, <1>7 DEF Next

(* A lookup that answers leaves every other record, and its own record     *)
(* holds the answer.                                                       *)
LEMMA Recorded ==
  ASSUME TypeOK, NEW a \in Addr, LookupAnswers(a)
  PROVE  \E i \in Slot :
           /\ cache'[i].name = hostname /\ cache'[i].addr = a /\ cache'[i].expiry = now + Life
           /\ \A j \in Slot : j # i => cache'[j] = cache[j]
BY DEF LookupAnswers, TypeOK

LEMMA NextHolds == IInv /\ [Next]_vars => IInv'
<1> SUFFICES ASSUME IInv, [Next]_vars PROVE IInv'
  OBVIOUS
<1>0. TypeOK /\ TypeOK'
  BY TypePreserved DEF IInv
<1>1. CASE Tick
  <2>0. ~ stepped' => ~ (clock' < clock) /\ ~ stepped
    BY <1>1, Zenon DEF Tick
  <2>1. ~ stepped' => clock' >= clock /\ ~ stepped
    BY <2>0, <1>0 DEF TypeOK
  <2>2. \A i \in Slot : cache[i].expiry \in Nat
    BY <1>0 DEF TypeOK
  <2>3. ~ stepped' => \A h \in ShortName, i \in Slot : Good(i, h, clock)' => Good(i, h, clock)
    BY <2>1, <2>2, <1>1, <1>0 DEF Tick, Good, TypeOK
  <2>4. Latest' /\ OneRecordPerName'
    BY <2>1, <2>3, <1>1 DEF IInv, Latest, OneRecordPerName, Tick, history
  <2>5. Asking'
    BY <2>1, <1>1, <1>0 DEF IInv, Asking, Tick, Good, TypeOK
  <2> QED
    BY <1>0, <2>4, <2>5, <1>1 DEF IInv, Said, Tick, history
<1>2. ASSUME NEW h \in Hostname, Hit(h) PROVE IInv'
  BY <1>0, <1>2 DEF IInv, Hit, Said, Latest, OneRecordPerName, Asking, Good, history
<1>3. ASSUME NEW h \in Hostname, Miss(h) PROVE IInv'
  BY <1>0, <1>3 DEF IInv, Miss, Said, Latest, OneRecordPerName, Asking, Good, history, TypeOK
<1>4. CASE LookupFails
  BY <1>0, <1>4 DEF IInv, LookupFails, Said, Latest, OneRecordPerName, Asking, Good, history
<1>5. ASSUME NEW a \in Addr, LookupAnswers(a) PROVE IInv'
  <2>1. /\ pc = "lookup" /\ pc' = "idle" /\ hostname \in ShortName
        /\ told' = [told EXCEPT ![hostname] = @ \cup {a}]
        /\ latest' = [latest EXCEPT ![hostname] = [addr |-> a, at |-> clock]]
        /\ clock' = clock /\ stepped' = stepped /\ hostname' = hostname
    BY <1>5 DEF LookupAnswers
  <2>2. PICK i \in Slot :
          /\ cache'[i].name = hostname /\ cache'[i].addr = a /\ cache'[i].expiry = now + Life
          /\ \A j \in Slot : j # i => cache'[j] = cache[j]
    BY <1>0, <1>5, Recorded
  <2>3. Said'
    <3>1. \A h \in ShortName : told[h] \subseteq told'[h]
      BY <2>1, <1>0 DEF TypeOK
    <3>2. a \in told'[hostname]
      BY <2>1, <1>0 DEF TypeOK
    <3> QED
      BY <2>1, <2>2, <3>1, <3>2, <1>0 DEF IInv, Said
  (* No other record is good for the name: none was when the time was read. *)
  <2>4. ~ stepped => \A j \in Slot : j # i => ~ Good(j, hostname, clock)'
    <3>1. ~ stepped => now <= clock /\ \A j \in Slot : ~ Good(j, hostname, now)
      BY <2>1 DEF IInv, Asking
    <3>2. \A j \in Slot : cache[j].expiry \in Nat
      BY <1>0 DEF TypeOK
    <3> QED
      BY <3>1, <3>2, <2>1, <2>2, <1>0 DEF Good, TypeOK
  <2>5. \A h \in ShortName : \A j \in Slot :
          Good(j, h, clock)' => (j = i /\ h = hostname) \/ (j # i /\ Good(j, h, clock))
    BY <2>1, <2>2 DEF Good
  <2>6. Latest'
    <3>1. \A h \in ShortName : h # hostname => latest'[h] = latest[h]
      BY <2>1, <1>0 DEF TypeOK
    <3>2. latest'[hostname].addr = a /\ latest'[hostname].at = clock
      BY <2>1, <1>0 DEF TypeOK
    <3>3. ~ stepped => now + Life <= clock + Life
      BY <2>1, <1>0, RecordsAssumption DEF IInv, Asking, TypeOK
    <3> SUFFICES ASSUME ~ stepped, NEW h \in ShortName, NEW j \in Slot, Good(j, h, clock)'
                 PROVE  cache'[j].addr = latest'[h].addr /\ cache'[j].expiry <= latest'[h].at + Life
      BY <2>1 DEF Latest
    <3>4. CASE j = i
      BY <3>2, <3>3, <3>4, <2>2, <2>5
    <3>5. CASE j # i
      <4>1. h # hostname
        BY <2>1, <2>4, <3>5 DEF Good
      <4> QED
        BY <4>1, <3>1, <3>5, <2>2, <2>5 DEF IInv, Latest
    <3> QED
      BY <3>4, <3>5
  <2>7. OneRecordPerName'
    BY <2>1, <2>4, <2>5 DEF IInv, OneRecordPerName
  <2>8. Asking'
    BY <2>1 DEF Asking
  <2> QED
    BY <1>0, <2>3, <2>6, <2>7, <2>8 DEF IInv
<1>6. ASSUME NEW a \in Addr, LookupLongAnswers(a) PROVE IInv'
  BY <1>0, <1>6 DEF IInv, LookupLongAnswers, Said, Latest, OneRecordPerName, Asking, Good, history
<1>7. CASE UNCHANGED vars
  BY <1>0, <1>7 DEF IInv, vars, Said, Latest, OneRecordPerName, Asking, Good, history
<1> QED
  BY <1>1, <1>2, <1>3, <1>4, <1>5, <1>6, <1>7 DEF Next

(* The records, the clock and the answers fit together in every state.     *)
THEOREM Invariant == Spec => []IInv
BY InitHolds, NextHolds, PTL DEF Spec

(* As long as the clock is not set back, there is one good record for a    *)
(* name at most.                                                           *)
THEOREM HasOneRecordPerName == Spec => []OneRecordPerName
<1>1. IInv => OneRecordPerName
  BY DEF IInv
<1> QED
  BY <1>1, Invariant, PTL

-----------------------------------------------------------------------------
(* A good record holds what AgedAnswers allows to remember. *)
LEMMA HitRemembers ==
  ASSUME IInv, NEW h \in Hostname, Hit(h)
  PROVE  Aged!Remember
<1>1. PICK i \in Slot : Good(i, h, clock) /\ reply' = cache[i].addr
  BY DEF Hit
<1>2. h \in ShortName /\ cache[i].expiry > clock /\ cache[i].name = h
  BY <1>1 DEF Hit, Good
<1>3. reply' \in told[h]
  BY <1>1, <1>2 DEF IInv, Said, TypeOK
<1>4. ~ stepped => reply' = latest[h].addr /\ clock < latest[h].at + Life
  BY <1>1, <1>2, RecordsAssumption DEF IInv, Latest, TypeOK
<1> QED
  BY <1>2, <1>3, <1>4 DEF Hit, Aged!Remember, history

LEMMA StepsAged == IInv /\ [Next]_vars => [Aged!Next]_Aged!vars
<1> SUFFICES ASSUME IInv, [Next]_vars PROVE [Aged!Next]_Aged!vars
  OBVIOUS
<1> USE DEF Aged!Next, history
<1>1. CASE Tick
  BY <1>1, RecordsAssumption DEF Tick, Aged!Tick
<1>2. ASSUME NEW h \in Hostname, Hit(h) PROVE Aged!Next
  BY <1>2, HitRemembers
<1>3. ASSUME NEW h \in Hostname, Miss(h) PROVE Aged!Next
  BY <1>3 DEF Miss, Aged!Ask, Aged!Hostname, Hostname
<1>4. CASE LookupFails
  BY <1>4 DEF LookupFails, Aged!Fail
<1>5. ASSUME NEW a \in Addr, LookupAnswers(a) PROVE Aged!Next
  BY <1>5 DEF LookupAnswers, Aged!Learn
<1>6. ASSUME NEW a \in Addr, LookupLongAnswers(a) PROVE Aged!Next
  BY <1>6 DEF LookupLongAnswers, Aged!Relay
<1>7. CASE UNCHANGED vars
  BY <1>7 DEF vars, Aged!vars
<1> QED
  BY <1>1, <1>2, <1>3, <1>4, <1>5, <1>6, <1>7 DEF Next

(* The table of records keeps the promise of the cache: answers are for    *)
(* the right name, and the latest and young unless the clock is set back.  *)
THEOREM Implementation == Spec => ImplementsAged
<1>1. Init => Aged!Init
  BY RecordsAssumption DEF Init, Aged!Init, Aged!Hostname, Hostname
<1> QED
  BY <1>1, StepsAged, Invariant, PTL DEF Spec, ImplementsAged, Aged!Spec

=============================================================================
