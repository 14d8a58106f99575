--------------------------- MODULE PushDataProofs ---------------------------
(***************************************************************************)
(* What the operators of PushData return, for the proofs about PushStore   *)
(* and PushSource.                                                         *)
(***************************************************************************)
EXTENDS PushData, SequenceTheorems, TLAPS

-----------------------------------------------------------------------------
(***************************************************************************)
(* The live set and the index.                                             *)
(***************************************************************************)

\* The events of a batch are a function from some ids to payloads.
LEMMA EventsType ==
  ASSUME NEW events \in Events
  PROVE  /\ DOMAIN events \in SUBSET SessionIds
         /\ \A i \in DOMAIN events : events[i] \in Payload
BY DEF Events

\* Filtering a batch leaves a batch's events.
LEMMA EventsOfType ==
  ASSUME NEW events \in Events, NEW S
  PROVE  /\ EventsOf(events, S) \in Events
         /\ DOMAIN EventsOf(events, S) = DOMAIN events \cap S
<1> DEFINE D == DOMAIN events \cap S
<1>1. EventsOf(events, S) = [i \in D |-> events[i]]
  BY DEF EventsOf
<1>2. D \in SUBSET SessionIds /\ \A i \in D : events[i] \in Payload
  BY EventsType
<1>3. EventsOf(events, S) \in [D -> Payload]
  BY <1>1, <1>2
<1>4. QED
  BY <1>1, <1>2, <1>3 DEF Events

\* An upsert yields a live set in which the ids of the batch are live.
LEMMA UpsertedType ==
  ASSUME NEW s \in LiveSet, NEW events \in Events
  PROVE  /\ Upserted(s, events) \in LiveSet
         /\ \A i \in SessionIds :
              Upserted(s, events)[i] # NoSession
                <=> i \in DOMAIN events \/ s[i] # NoSession
BY EventsType, DataAssumption DEF LiveSet, Upserted, Payload

\* Reindexing yields an index with the batch's producers on the batch's ids.
LEMMA ReindexedType ==
  ASSUME NEW o \in ProducerIndex, NEW events \in Events
  PROVE  /\ Reindexed(o, events) \in ProducerIndex
         /\ \A i \in SessionIds \ DOMAIN events : Reindexed(o, events)[i] = o[i]
BY EventsType DEF ProducerIndex, Reindexed, Payload

\* Taking sessions out of a live set leaves a live set.
LEMMA WithoutType ==
  ASSUME NEW s \in LiveSet, NEW S
  PROVE  /\ Without(s, S) \in LiveSet
         /\ \A i \in SessionIds :
              Without(s, S)[i] # NoSession <=> i \notin S /\ s[i] # NoSession
BY DEF LiveSet, Without

\* Dropping the entries of absent sessions leaves an index.
LEMMA IndexOfLiveType ==
  ASSUME NEW o \in ProducerIndex, NEW s
  PROVE  /\ IndexOfLive(o, s) \in ProducerIndex
         /\ \A i \in SessionIds : IndexOfLive(o, s)[i] # NoProducer
                                    => s[i] # NoSession
BY DEF ProducerIndex, IndexOfLive

-----------------------------------------------------------------------------
(***************************************************************************)
(* The tombstone list.                                                     *)
(***************************************************************************)

\* Forgetting leaves a list of ids, no longer than it was, without
\* duplicates, that has lost the id forgotten and no other.
LEMMA ForgottenProper ==
  ASSUME NEW s \in Seq(SessionIds), NEW i \in SessionIds, Distinct(s)
  PROVE  /\ Forgotten(s, i) \in Seq(SessionIds)
         /\ Len(Forgotten(s, i)) <= Len(s)
         /\ Distinct(Forgotten(s, i))
         /\ Tombstones(Forgotten(s, i)) = Tombstones(s) \ {i}
<1>1. CASE i \notin Tombstones(s)
  BY <1>1 DEF Forgotten
<1>2. CASE i \in Tombstones(s)
  <2> DEFINE k == CHOOSE n \in DOMAIN s : s[n] = i
             f == SubSeq(s, 1, k - 1)
             g == SubSeq(s, k + 1, Len(s))
  <2>1. k \in 1..Len(s) /\ s[k] = i
    BY <1>2 DEF Tombstones
  <2> HIDE DEF k
  <2>2. /\ f \in Seq(SessionIds) /\ Len(f) = k - 1
        /\ \A j \in 1..Len(f) : f[j] = s[j]
    BY <2>1, SubSeqProperties
  <2>3. /\ g \in Seq(SessionIds) /\ Len(g) = Len(s) - k
        /\ \A j \in 1..Len(g) : g[j] = s[j + k]
    BY <2>1, SubSeqProperties
  <2>4. Forgotten(s, i) = f \o g
    BY <1>2 DEF Forgotten, k
  <2> HIDE DEF f, g
  <2>5. /\ f \o g \in Seq(SessionIds)
        /\ Len(f \o g) = Len(s) - 1
        /\ \A j \in 1..(Len(s) - 1) :
             (f \o g)[j] = IF j < k THEN s[j] ELSE s[j + 1]
    BY <2>1, <2>2, <2>3, ConcatProperties
  <2>6. DOMAIN (f \o g) = 1..(Len(s) - 1) /\ DOMAIN s = 1..Len(s)
    BY <2>5, LenProperties
  <2> DEFINE h == f \o g
             old(j) == IF j < k THEN j ELSE j + 1
  <2>7. ASSUME NEW j \in DOMAIN h
        PROVE  j \in Int /\ old(j) \in DOMAIN s \ {k} /\ h[j] = s[old(j)]
    BY <2>1, <2>5, <2>6
  <2>7a. ASSUME NEW n \in DOMAIN s \ {k}
         PROVE  \E j \in DOMAIN h : h[j] = s[n]
    <3> HIDE DEF h
    <3>1. DOMAIN h = 1..(Len(s) - 1)
      BY <2>6 DEF h
    <3>2. n \in 1..Len(s) /\ n # k
      BY <2>6
    <3>3. CASE n < k
      <4>1. n \in 1..(Len(s) - 1)
        BY <2>1, <3>2, <3>3
      <4>2. h[n] = s[n]
        BY <2>5, <3>3, <4>1 DEF h
      <4>3. QED
        BY <3>1, <4>1, <4>2
    <3>4. CASE n > k
      <4>1. n - 1 \in 1..(Len(s) - 1) /\ ~(n - 1 < k) /\ n - 1 + 1 = n
        BY <2>1, <3>2, <3>4
      <4>2. h[n - 1] = s[n]
        BY <2>5, <4>1 DEF h
      <4>3. QED
        BY <3>1, <4>1, <4>2
    <3>5. QED
      BY <2>1, <3>2, <3>3, <3>4
  <2> HIDE DEF h
  <2>8. Distinct(h) /\ Tombstones(h) = Tombstones(s) \ {i}
    <3>1. ASSUME NEW j \in DOMAIN h, h[j] = i
          PROVE  FALSE
      BY <2>1, <2>6, <2>7, <3>1 DEF Distinct
    <3>2. ASSUME NEW j \in DOMAIN h, NEW n \in DOMAIN h, h[j] = h[n]
          PROVE  j = n
      <4>1. old(j) = old(n)
        BY <2>7, <3>2 DEF Distinct
      <4>2. j \in Int /\ n \in Int
        BY <2>7
      <4>3. QED
        BY <2>1, <4>1, <4>2
    <3>3. \A n \in Tombstones(h) : n \in Tombstones(s) \ {i}
      BY <2>7, <3>1 DEF Tombstones
    <3>4. \A n \in Tombstones(s) \ {i} : n \in Tombstones(h)
      BY <2>1, <2>7a DEF Tombstones
    <3>5. QED
      BY <3>2, <3>3, <3>4 DEF Distinct
  <2>9. QED
    BY <2>4, <2>5, <2>8 DEF h
<1>3. QED
  BY <1>1, <1>2

\* Capping leaves a list of ids within the cap, without duplicates, that
\* still ends with the newest tombstone.
LEMMA CappedProper ==
  ASSUME NEW s \in Seq(SessionIds), Distinct(s)
  PROVE  /\ Capped(s) \in Seq(SessionIds)
         /\ Len(Capped(s)) <= MAX_REMOVED
         /\ Distinct(Capped(s))
         /\ s # <<>> => s[Len(s)] \in Tombstones(Capped(s))
         /\ Tombstones(Capped(s)) \subseteq Tombstones(s)
<1>1. CASE Len(s) <= MAX_REMOVED
  BY <1>1, DataAssumption DEF Capped, Tombstones
<1>2. CASE Len(s) > MAX_REMOVED
  <2> DEFINE m == Len(s) - MAX_REMOVED + 1
             f == SubSeq(s, m, Len(s))
  <2>1. m \in 1..Len(s)
    BY <1>2, DataAssumption
  <2>2. /\ f \in Seq(SessionIds) /\ Len(f) = MAX_REMOVED
        /\ \A j \in 1..Len(f) : f[j] = s[j + m - 1]
    BY <2>1, DataAssumption, SubSeqProperties
  <2>3. Capped(s) = f
    BY <1>2 DEF Capped
  <2>4. DOMAIN f = 1..MAX_REMOVED /\ DOMAIN s = 1..Len(s)
    BY <2>2, LenProperties
  <2> HIDE DEF f
  <2>5. Distinct(f)
    <3>1. ASSUME NEW j \in DOMAIN f
          PROVE  j + m - 1 \in DOMAIN s /\ f[j] = s[j + m - 1]
      BY <2>1, <2>2, <2>4, DataAssumption
    <3>2. ASSUME NEW j \in DOMAIN f, NEW n \in DOMAIN f, f[j] = f[n]
          PROVE  j = n
      <4>1. j + m - 1 = n + m - 1
        BY <3>1, <3>2 DEF Distinct
      <4>2. j \in Int /\ n \in Int /\ m \in Int
        BY <2>1, <2>4, DataAssumption
      <4>3. QED
        BY <4>1, <4>2
    <3>3. QED
      BY <3>2 DEF Distinct
  <2>6. f[MAX_REMOVED] = s[Len(s)] /\ MAX_REMOVED \in DOMAIN f
    BY <2>2, <2>4, DataAssumption
  <2>7. \A j \in DOMAIN f : \E n \in DOMAIN s : f[j] = s[n]
    <3> TAKE j \in DOMAIN f
    <3>1. j + m - 1 \in DOMAIN s /\ f[j] = s[j + m - 1]
      BY <2>1, <2>2, <2>4, DataAssumption
    <3>2. QED
      BY <3>1
  <2>8. QED
    BY <2>2, <2>3, <2>5, <2>6, <2>7, DataAssumption DEF Tombstones
<1>3. QED
  BY <1>1, <1>2, DataAssumption

\* Remembering leaves a list of ids within the cap, without duplicates, that
\* holds the id just removed.
LEMMA RememberedProper ==
  ASSUME NEW s \in Seq(SessionIds), NEW i \in SessionIds, Distinct(s),
         Len(s) <= MAX_REMOVED
  PROVE  /\ Remembered(s, i) \in Seq(SessionIds)
         /\ Len(Remembered(s, i)) <= MAX_REMOVED
         /\ Distinct(Remembered(s, i))
         /\ i \in Tombstones(Remembered(s, i))
         /\ Tombstones(Remembered(s, i)) \subseteq Tombstones(s) \cup {i}
<1>1. CASE i \in Tombstones(s)
  BY <1>1 DEF Remembered
<1>2. CASE i \notin Tombstones(s)
  <2> DEFINE f == Append(s, i)
  <2>1. /\ f \in Seq(SessionIds) /\ Len(f) = Len(s) + 1
        /\ \A j \in 1..Len(s) : f[j] = s[j]
        /\ f[Len(s) + 1] = i
    BY AppendProperties
  <2>2. DOMAIN f = 1..(Len(s) + 1) /\ DOMAIN s = 1..Len(s)
    BY <2>1, LenProperties
  <2>3. Remembered(s, i) = Capped(f)
    BY <1>2 DEF Remembered
  <2> HIDE DEF f
  <2>4. Distinct(f)
    BY <1>2, <2>1, <2>2 DEF Distinct, Tombstones
  <2>5. f # <<>> /\ f[Len(f)] = i
    BY <2>1
  <2>6. Tombstones(f) \subseteq Tombstones(s) \cup {i}
    BY <2>1, <2>2 DEF Tombstones
  <2>7. QED
    BY <2>1, <2>3, <2>4, <2>5, <2>6, CappedProper
<1>3. QED
  BY <1>1, <1>2

=============================================================================
