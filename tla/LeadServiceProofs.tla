-------------------------- MODULE LeadServiceProofs --------------------------
(***************************************************************************)
(* Proofs about LeadService: what the answer 201 promises, and that cache  *)
(* and answers are never ahead of the table, for any number of concurrent  *)
(* requests and publish attempts.                                          *)
(***************************************************************************)
EXTENDS LeadService, Integers, FiniteSetTheorems, TLAPS

\* The invariant but for what it says of the number of records.
RowInv == TypeOK /\ InProgress /\ CreatedMeansAnnounced /\ NeverAhead

\* The records one write leaves in the topic are the old ones and copies of the new.
LEMMA StoredRecords ==
  ASSUME topic \in Seq(Leads), NEW l \in Leads, NEW w \in WriteOutcomes,
         topic' = Stored(topic, l, w)
  PROVE  /\ topic' \in Seq(Leads)
         /\ Announced' = IF w.copies > 0 THEN Announced \cup {l} ELSE Announced
<1> DEFINE copies == [i \in 1..w.copies |-> l]
<1>1. w.copies \in Nat
  BY ProducerAssumption DEF WriteOutcomes
<1>2. copies \in Seq(Leads) /\ Len(copies) = w.copies
  BY <1>1
<1>3. topic' = topic \o copies
  BY DEF Stored
<1>4. \A i \in 1..w.copies : copies[i] = l
  OBVIOUS
<1> HIDE DEF copies
<1>5. /\ topic' \in Seq(Leads) /\ Len(topic') = Len(topic) + w.copies
      /\ \A k \in 1..Len(topic) : topic'[k] = topic[k]
      /\ \A k \in 1..w.copies : topic'[Len(topic) + k] = l
  <2>1. topic' \in Seq(Leads) /\ Len(topic') = Len(topic) + w.copies
    BY <1>2, <1>3
  <2>2. ASSUME NEW k \in 1..Len(topic) PROVE topic'[k] = topic[k]
    BY <1>1, <1>2, <1>3
  <2>3. ASSUME NEW k \in 1..w.copies PROVE topic'[Len(topic) + k] = l
    <3>1. topic'[Len(topic) + k] = copies[k]
      BY <1>1, <1>2, <1>3
    <3> QED BY <1>4, <3>1
  <2> QED BY <2>1, <2>2, <2>3
<1>6. Announced' \subseteq IF w.copies > 0 THEN Announced \cup {l} ELSE Announced
  <2> SUFFICES ASSUME NEW k \in 1..Len(topic')
               PROVE  topic'[k] \in Announced \/ (w.copies > 0 /\ topic'[k] = l)
    BY DEF Announced
  <2>1. CASE k <= Len(topic)
    BY <1>5, <2>1 DEF Announced
  <2>2. CASE k > Len(topic)
    <3>1. k - Len(topic) \in 1..w.copies /\ k = Len(topic) + (k - Len(topic))
      BY <1>1, <1>5, <2>2
    <3> QED BY <1>1, <1>5, <3>1
  <2> QED BY <2>1, <2>2
<1>7. Announced \subseteq Announced'
  BY <1>1, <1>5 DEF Announced
<1>8. w.copies > 0 => l \in Announced'
  <2> SUFFICES ASSUME w.copies > 0 PROVE l \in Announced'
    OBVIOUS
  <2>1. 1 \in 1..w.copies /\ Len(topic) + 1 \in 1..Len(topic')
    BY <1>1, <1>5
  <2> QED BY <1>5, <2>1 DEF Announced
<1> QED BY <1>5, <1>6, <1>7, <1>8

\* The row of a lead only goes from none to new to converted: what it has been
\* it has been for good.
LEMMA HasBeenStays ==
  ASSUME NEW l \in Leads, NEW status \in Status, HasBeen(l, status),
         \/ leads'[l] = leads[l] \/ leads[l] = "none" \/ leads'[l] = "converted"
  PROVE  HasBeen(l, status)'
BY DEF HasBeen, Status

\* Writing to the cache what the row is, or was, does not put it ahead.
LEMMA SetLeadStep ==
  ASSUME IInv, NEW l \in Leads, NEW status \in Status, SetLead(l, status), HasBeen(l, status)
  PROVE  cache' \in [Leads -> Status] /\ \A k \in Leads : HasBeen(k, cache'[k])
<1>1. cache \in [Leads -> Status] /\ \A k \in Leads : HasBeen(k, cache[k])
  BY DEF IInv, TypeOK, NeverAhead
<1>2. CASE cache' = cache
  BY <1>1, <1>2
<1>3. CASE cache' = [cache EXCEPT ![l] = status]
  <2>1. ASSUME NEW k \in Leads PROVE HasBeen(k, cache'[k])
    BY <1>1, <1>3
  <2> QED BY <1>1, <1>3, <2>1
<1> QED BY <1>2, <1>3 DEF SetLead

\* Steps that leave the topic alone, take no row away and answer no Create with 201.
LEMMA SilentStep ==
  ASSUME IInv, UNCHANGED topic, \A l \in Leads : leads[l] # "none" => leads'[l] # "none",
         \A l \in Leads : create'[l] = "created" => create[l] = "created"
  PROVE  CreatedMeansAnnounced'
<1>1. Announced' = Announced /\ Announced \subseteq Leads
  BY DEF Announced, IInv, TypeOK
<1> QED BY <1>1 DEF IInv, CreatedMeansAnnounced

\* Steps that change neither the rows, nor the cache, nor what Gets have in hand.
LEMMA QuietStep ==
  ASSUME IInv, UNCHANGED <<leads, cache, target, found>>
  PROVE  NeverAhead'
BY DEF IInv, NeverAhead, HasBeen

\* Every step of a Create request.
LEMMA CreateStep ==
  ASSUME IInv, NEW l \in Leads, Create(l)
  PROVE  RowInv'
<1> USE DEF IInv, RowInv, Answer, getVars
<1>1. ASSUME Reject(l) \/ AbortCreate(l) PROVE RowInv'
  <2>1. TypeOK' /\ InProgress'
    BY <1>1 DEF Reject, AbortCreate, TypeOK, InProgress
  <2>2. CreatedMeansAnnounced'
    BY <1>1, SilentStep DEF Reject, AbortCreate, TypeOK
  <2> QED BY <1>1, <2>1, <2>2, QuietStep DEF Reject, AbortCreate
<1>2. ASSUME Insert(l) \/ InsertFail(l) PROVE RowInv'
  <2>1. /\ create[l] = "start" /\ leads[l] = "none"
        /\ leads' \in {leads, [leads EXCEPT ![l] = "new"]}
        /\ create' \in {[create EXCEPT ![l] = "cache"], [create EXCEPT ![l] = "error"]}
        /\ create' = [create EXCEPT ![l] = "cache"] => leads' = [leads EXCEPT ![l] = "new"]
        /\ UNCHANGED <<sends, topic, cache, getVars>>
    BY <1>2 DEF Insert, InsertFail, InProgress, TypeOK
  <2>2. TypeOK'
    BY <2>1 DEF TypeOK, Status
  <2>3. InProgress'
    BY <2>1 DEF TypeOK, InProgress
  <2>4. CreatedMeansAnnounced'
    BY <2>1, SilentStep DEF TypeOK
  <2>5. ASSUME NEW k \in Leads PROVE leads'[k] = leads[k] \/ leads[k] = "none"
    BY <2>1 DEF TypeOK
  <2>6. NeverAhead'
    BY <2>1, <2>5, HasBeenStays DEF TypeOK, NeverAhead
  <2> QED BY <2>2, <2>3, <2>4, <2>6
<1>3. ASSUME CacheNew(l) PROVE RowInv'
  <2>1. SetLead(l, "new") /\ leads[l] # "none" /\ UNCHANGED <<leads, topic, getVars>>
    BY <1>3 DEF CacheNew, InProgress
  <2>2. cache' \in [Leads -> Status] /\ \A k \in Leads : HasBeen(k, cache'[k])
    BY <2>1, SetLeadStep DEF HasBeen, Status
  <2>3. NeverAhead'
    BY <2>1, <2>2 DEF NeverAhead, HasBeen
  <2>4. sends' \in [Leads -> 0..PublishAttempts]
    BY <1>3, ProducerAssumption DEF CacheNew, TypeOK
  <2>5. TypeOK' /\ InProgress'
    BY <1>3, <2>1, <2>2, <2>4 DEF CacheNew, TypeOK, InProgress
  <2>6. CreatedMeansAnnounced'
    BY <1>3, SilentStep DEF CacheNew, TypeOK
  <2> QED BY <2>3, <2>5, <2>6
<1>4. ASSUME Publish(l) PROVE RowInv'
  <2>1. create[l] = "publish" /\ leads[l] # "none" /\ UNCHANGED <<leads, cache, getVars>>
    BY <1>4 DEF Publish, InProgress
  <2>2. PICK w \in WriteOutcomes :
          /\ topic' = Stored(topic, l, w)
          /\ \/ w.acked /\ Answer(l, "created") /\ UNCHANGED sends
             \/ TriesAgain(w, sends[l]) /\ sends' = [sends EXCEPT ![l] = @ + 1] /\ UNCHANGED create
             \/ ~w.acked /\ Answer(l, "error") /\ UNCHANGED sends
    BY <1>4 DEF Publish
  <2>3. topic' \in Seq(Leads)
        /\ Announced' = IF w.copies > 0 THEN Announced \cup {l} ELSE Announced
    BY <2>2, StoredRecords DEF TypeOK
  <2>4. sends' \in [Leads -> 0..PublishAttempts]
    <3>1. TriesAgain(w, sends[l]) => sends[l] + 1 \in 0..PublishAttempts
      BY ProducerAssumption DEF TypeOK, TriesAgain, GivesUp
    <3> QED BY <2>2, <3>1 DEF TypeOK
  <2>5. TypeOK' /\ InProgress'
    <3>1. create' \in {create, [create EXCEPT ![l] = "created"], [create EXCEPT ![l] = "error"]}
      BY <2>2
    <3>2. TypeOK'
      BY <2>1, <2>3, <2>4, <3>1 DEF TypeOK
    <3>3. InProgress'
      BY <2>1, <3>1 DEF TypeOK, InProgress
    <3> QED BY <3>2, <3>3
  <2>6. w.acked => w.copies > 0
    BY DEF WriteOutcomes
  <2>7. CreatedMeansAnnounced'
    BY <2>1, <2>2, <2>3, <2>6 DEF TypeOK, CreatedMeansAnnounced
  <2> QED BY <2>1, <2>5, <2>7, QuietStep
<1> QED BY <1>1, <1>2, <1>3, <1>4 DEF Create

\* Every step of a Get request: what it puts in the cache is what the row was when
\* it was queried.
LEMMA GetStep ==
  ASSUME IInv, NEW g \in Readers, Get(g)
  PROVE  RowInv'
<1> USE DEF IInv, RowInv, createVars
<1>1. UNCHANGED <<create, sends, topic, leads>>
  BY DEF Get, Hit, Miss, Query, QueryFail, Fill, AbortGet
<1>2. InProgress' /\ CreatedMeansAnnounced'
  BY <1>1, SilentStep DEF InProgress
<1>3. ASSUME NEW l \in Leads, Hit(g, l) \/ Miss(g, l) PROVE TypeOK' /\ NeverAhead'
  <2>1. /\ get' \in [Readers -> {"idle", "query", "fill"}]
        /\ target' \in [Readers -> Leads] /\ found' \in [Readers -> Status]
        /\ cache' = cache
    <3>1. cache[l] \in Status /\ "none" \in Status
      BY DEF TypeOK, Status
    <3>2. CASE Hit(g, l)
      BY <3>1, <3>2 DEF Hit, TypeOK
    <3>3. CASE Miss(g, l)
      BY <3>1, <3>3 DEF Miss, TypeOK
    <3> QED BY <1>3, <3>2, <3>3
  <2>2. TypeOK'
    BY <1>1, <2>1 DEF TypeOK
  <2>3. NeverAhead'
    BY <1>3 DEF Hit, Miss, TypeOK, NeverAhead, HasBeen
  <2> QED BY <2>2, <2>3
<1>4. ASSUME Query(g) \/ QueryFail(g) \/ AbortGet(g) PROVE TypeOK' /\ NeverAhead'
  <2>1. get' \in [Readers -> {"idle", "query", "fill"}] /\ found' \in [Readers -> Status]
        /\ cache' = cache /\ target' = target
    <3>1. leads[target[g]] \in Status /\ "none" \in Status
      BY DEF TypeOK, Status
    <3>2. CASE Query(g)
      BY <3>1, <3>2 DEF Query, TypeOK
    <3>3. CASE QueryFail(g) \/ AbortGet(g)
      BY <3>1, <3>3 DEF QueryFail, AbortGet, TypeOK
    <3> QED BY <1>4, <3>2, <3>3
  <2>2. TypeOK'
    BY <1>1, <2>1 DEF TypeOK
  <2>3. NeverAhead'
    BY <1>4 DEF Query, QueryFail, AbortGet, TypeOK, Status, NeverAhead, HasBeen
  <2> QED BY <2>2, <2>3
<1>5. ASSUME Fill(g) PROVE TypeOK' /\ NeverAhead'
  <2>1. SetLead(target[g], found[g]) /\ HasBeen(target[g], found[g])
    BY <1>5 DEF Fill, NeverAhead
  <2>2. cache' \in [Leads -> Status] /\ \A k \in Leads : HasBeen(k, cache'[k])
    BY <2>1, SetLeadStep DEF TypeOK
  <2>3. TypeOK'
    BY <1>1, <1>5, <2>2 DEF Fill, TypeOK
  <2>4. NeverAhead'
    BY <1>5, <2>2 DEF Fill, NeverAhead, HasBeen
  <2> QED BY <2>3, <2>4
<1> QED BY <1>2, <1>3, <1>4, <1>5 DEF Get

\* The conversion by customer-service and the expiry of a cache entry.
LEMMA OtherStep ==
  ASSUME IInv, NEW l \in Leads, Convert(l) \/ Expire(l)
  PROVE  RowInv'
<1> USE DEF IInv, RowInv, createVars, getVars
<1>1. TypeOK' /\ InProgress'
  BY DEF Convert, Expire, TypeOK, Status, InProgress
<1>2. CreatedMeansAnnounced'
  BY SilentStep DEF Convert, Expire, TypeOK
<1>3. CASE Convert(l)
  <2>1. ASSUME NEW k \in Leads PROVE leads'[k] = leads[k] \/ leads'[k] = "converted"
    BY <1>3 DEF Convert, TypeOK
  <2> QED BY <1>1, <1>2, <1>3, <2>1, HasBeenStays DEF Convert, TypeOK, NeverAhead
<1>4. CASE Expire(l)
  BY <1>1, <1>2, <1>4 DEF Expire, TypeOK, NeverAhead, HasBeen
<1> QED BY <1>3, <1>4

-----------------------------------------------------------------------------
(* The records of a lead *)

\* The records of the attempts made so far.
LEMMA Copies ==
  ASSUME NEW n \in 1..PublishAttempts
  PROVE  /\ (n - 1) * WriterCopies + WriterCopies = n * WriterCopies
         /\ n * WriterCopies <= PublishAttempts * WriterCopies
         /\ (n - 1) * WriterCopies \in Nat /\ PublishAttempts * WriterCopies \in Nat
BY ProducerAssumption

\* A write adds at most WriterCopies records, all of them of its own lead.
LEMMA RecordsStored ==
  ASSUME topic \in Seq(Leads), NEW l \in Leads, NEW w \in WriteOutcomes,
         topic' = Stored(topic, l, w), NEW k \in Leads
  PROVE  /\ k # l => RecordsOf(k)' = RecordsOf(k)
         /\ Cardinality(RecordsOf(k)) \in Nat /\ Cardinality(RecordsOf(k)') \in Nat
         /\ Cardinality(RecordsOf(k)') <= Cardinality(RecordsOf(k)) + WriterCopies
<1> DEFINE copies == [i \in 1..w.copies |-> l]
           added == (Len(topic) + 1)..(Len(topic) + w.copies)
<1>1. w.copies \in Nat /\ w.copies <= WriterCopies /\ WriterCopies \in Nat
  BY ProducerAssumption DEF WriteOutcomes
<1>2. copies \in Seq(Leads) /\ Len(copies) = w.copies /\ \A i \in 1..w.copies : copies[i] = l
  BY <1>1
<1>3. topic' = topic \o copies
  BY DEF Stored
<1> HIDE DEF copies
<1>4. /\ Len(topic) \in Nat /\ Len(topic') = Len(topic) + w.copies
      /\ \A i \in 1..Len(topic) : topic'[i] = topic[i]
      /\ \A i \in added : topic'[i] = l
  BY <1>1, <1>2, <1>3
<1>5. /\ RecordsOf(k)' \subseteq RecordsOf(k) \cup added
      /\ k # l => RecordsOf(k)' = RecordsOf(k)
  BY <1>1, <1>4 DEF RecordsOf
<1>6. IsFiniteSet(added) /\ Cardinality(added) = w.copies
  <2>1. Len(topic) + 1 \in Int /\ Len(topic) + w.copies \in Int
    BY <1>1, <1>4
  <2>2. \A a, b \in Int : IsFiniteSet(a..b) /\ Cardinality(a..b) = IF a > b THEN 0 ELSE b - a + 1
    BY FS_Interval
  <2>3. /\ IsFiniteSet(added)
        /\ Cardinality(added) = IF Len(topic) + 1 > Len(topic) + w.copies THEN 0
                                ELSE (Len(topic) + w.copies) - (Len(topic) + 1) + 1
    BY <2>1, <2>2
  <2> HIDE DEF added
  <2>4. CASE w.copies = 0
    BY <1>4, <2>3, <2>4
  <2>5. CASE w.copies > 0
    BY <1>1, <1>4, <2>3, <2>5
  <2> QED BY <1>1, <2>3, <2>4, <2>5
<1>7. IsFiniteSet(RecordsOf(k))
  <2>1. IsFiniteSet(1..Len(topic))
    BY <1>4, FS_Interval
  <2> QED BY <2>1, FS_Subset DEF RecordsOf
<1> HIDE DEF added
<1>8. /\ IsFiniteSet(RecordsOf(k) \cup added)
      /\ Cardinality(RecordsOf(k) \cup added) <= Cardinality(RecordsOf(k)) + Cardinality(added)
  <2>1. IsFiniteSet(RecordsOf(k) \cap added)
    BY <1>6, FS_Intersection
  <2>2. /\ IsFiniteSet(RecordsOf(k) \cup added)
        /\ Cardinality(RecordsOf(k) \cup added)
             = Cardinality(RecordsOf(k)) + Cardinality(added) - Cardinality(RecordsOf(k) \cap added)
    BY <1>6, <1>7, FS_Union
  <2>3. /\ Cardinality(RecordsOf(k)) \in Nat /\ Cardinality(added) \in Nat
        /\ Cardinality(RecordsOf(k) \cap added) \in Nat
    BY <1>6, <1>7, <2>1, FS_CardinalityType
  <2> QED BY <2>2, <2>3
<1>9. /\ IsFiniteSet(RecordsOf(k)')
      /\ Cardinality(RecordsOf(k)') <= Cardinality(RecordsOf(k) \cup added)
  BY <1>5, <1>8, FS_Subset
<1>10. /\ Cardinality(RecordsOf(k)) \in Nat /\ Cardinality(RecordsOf(k)') \in Nat
       /\ Cardinality(RecordsOf(k) \cup added) \in Nat
  BY <1>7, <1>8, <1>9, FS_CardinalityType
<1> QED BY <1>1, <1>5, <1>6, <1>8, <1>9, <1>10

\* Steps that write no record and begin no publish.
LEMMA UnwrittenStep ==
  ASSUME IInv, UNCHANGED <<topic, sends>>,
         \A l \in Leads : create'[l] \in {"start", "cache", "publish"} =>
           create'[l] = create[l] \/ (create[l] = "start" /\ create'[l] = "cache")
  PROVE  OneAnnouncementPerLead'
<1>1. \A l \in Leads : RecordsOf(l)' = RecordsOf(l)
  BY DEF RecordsOf
<1> QED BY <1>1 DEF IInv, OneAnnouncementPerLead

\* The first attempt is still to be made.
LEMMA CacheNewRecords ==
  ASSUME IInv, NEW l \in Leads, CacheNew(l)
  PROVE  OneAnnouncementPerLead'
<1>1. /\ create \in [Leads -> {"start", "cache", "publish", "created", "rejected", "error"}]
      /\ sends \in [Leads -> 0..PublishAttempts] /\ OneAnnouncementPerLead
  BY DEF IInv, TypeOK
<1>2. /\ create[l] = "cache" /\ create' = [create EXCEPT ![l] = "publish"]
      /\ sends' = [sends EXCEPT ![l] = 1] /\ topic' = topic
  BY DEF CacheNew, Answer
<1>3. \A k \in Leads : RecordsOf(k)' = RecordsOf(k)
  BY <1>2 DEF RecordsOf
<1>4. Cardinality(RecordsOf(l)) = 0 /\ (1 - 1) * WriterCopies = 0
  <2>1. RecordsOf(l) = {}
    BY <1>1, <1>2 DEF OneAnnouncementPerLead
  <2>2. Cardinality(RecordsOf(l)) = 0
    BY <2>1, FS_EmptySet, Zenon
  <2>3. (1 - 1) * WriterCopies = 0
    BY ProducerAssumption
  <2> QED BY <2>2, <2>3
<1> SUFFICES ASSUME NEW k \in Leads
             PROVE  /\ Cardinality(RecordsOf(k)) <= PublishAttempts * WriterCopies
                    /\ create'[k] \in {"start", "cache"} => RecordsOf(k) = {}
                    /\ create'[k] = "publish" =>
                         /\ sends'[k] > 0
                         /\ Cardinality(RecordsOf(k)) <= (sends'[k] - 1) * WriterCopies
  BY <1>3 DEF OneAnnouncementPerLead
<1>5. CASE k = l
  <2>1. create'[k] = "publish" /\ sends'[k] = 1
    BY <1>1, <1>2, <1>5
  <2>2. Cardinality(RecordsOf(k)) <= PublishAttempts * WriterCopies
    BY <1>1 DEF OneAnnouncementPerLead
  <2> QED BY <1>4, <1>5, <2>1, <2>2
<1>6. CASE k # l
  <2>1. create'[k] = create[k] /\ sends'[k] = sends[k]
    BY <1>1, <1>2, <1>6
  <2> QED BY <1>1, <2>1 DEF OneAnnouncementPerLead
<1> QED BY <1>5, <1>6

\* One attempt: at most WriterCopies records, and it was not the last plus one.
LEMMA PublishRecords ==
  ASSUME IInv, NEW l \in Leads, Publish(l)
  PROVE  OneAnnouncementPerLead'
<1>1. /\ create \in [Leads -> {"start", "cache", "publish", "created", "rejected", "error"}]
      /\ sends \in [Leads -> 0..PublishAttempts] /\ topic \in Seq(Leads)
      /\ OneAnnouncementPerLead
  BY DEF IInv, TypeOK
<1>2. PICK w \in WriteOutcomes :
        /\ topic' = Stored(topic, l, w)
        /\ \/ /\ create' \in {[create EXCEPT ![l] = "created"], [create EXCEPT ![l] = "error"]}
              /\ sends' = sends
           \/ create' = create /\ sends' = [sends EXCEPT ![l] = @ + 1]
  BY DEF Publish, Answer
<1>3. \A k \in Leads :
        /\ k # l => RecordsOf(k)' = RecordsOf(k)
        /\ Cardinality(RecordsOf(k)) \in Nat /\ Cardinality(RecordsOf(k)') \in Nat
        /\ Cardinality(RecordsOf(k)') <= Cardinality(RecordsOf(k)) + WriterCopies
  BY <1>1, <1>2, RecordsStored
<1>4. create[l] = "publish" /\ sends[l] \in 1..PublishAttempts
      /\ Cardinality(RecordsOf(l)) <= (sends[l] - 1) * WriterCopies
  BY <1>1, ProducerAssumption DEF Publish, OneAnnouncementPerLead
<1>5. /\ Cardinality(RecordsOf(l)') <= sends[l] * WriterCopies
      /\ Cardinality(RecordsOf(l)') <= PublishAttempts * WriterCopies
  <2>1. /\ (sends[l] - 1) * WriterCopies + WriterCopies = sends[l] * WriterCopies
        /\ sends[l] * WriterCopies <= PublishAttempts * WriterCopies
        /\ (sends[l] - 1) * WriterCopies \in Nat /\ PublishAttempts * WriterCopies \in Nat
    BY <1>4, Copies
  <2>2. WriterCopies \in Nat /\ sends[l] * WriterCopies \in Nat
    BY <2>1, ProducerAssumption
  <2> QED BY <1>3, <1>4, <2>1, <2>2
<1> SUFFICES ASSUME NEW k \in Leads
             PROVE  /\ Cardinality(RecordsOf(k)') <= PublishAttempts * WriterCopies
                    /\ create'[k] \in {"start", "cache"} => RecordsOf(k)' = {}
                    /\ create'[k] = "publish" =>
                         /\ sends'[k] > 0
                         /\ Cardinality(RecordsOf(k)') <= (sends'[k] - 1) * WriterCopies
  BY DEF OneAnnouncementPerLead
<1>6. CASE k # l
  <2>1. create'[k] = create[k] /\ sends'[k] = sends[k]
    BY <1>1, <1>2, <1>6
  <2>2. RecordsOf(k)' = RecordsOf(k)
    BY <1>3, <1>6
  <2> QED BY <1>1, <2>1, <2>2 DEF OneAnnouncementPerLead
<1>7. CASE k = l /\ create'[l] \in {"created", "error"}
  BY <1>5, <1>7
<1>8. CASE k = l /\ create' = create /\ sends' = [sends EXCEPT ![l] = @ + 1]
  <2>1. create'[k] = "publish" /\ sends'[k] = sends[l] + 1 /\ sends[l] \in Nat
    BY <1>1, <1>4, <1>8
  <2>2. sends'[k] > 0 /\ sends'[k] - 1 = sends[l]
    BY <2>1
  <2> QED BY <1>5, <1>8, <2>1, <2>2
<1> QED BY <1>1, <1>2, <1>6, <1>7, <1>8

\* Every step keeps to one PublishJSON per lead.
LEMMA RecordsStep == IInv /\ [Next]_vars => OneAnnouncementPerLead'
<1> SUFFICES ASSUME IInv, [Next]_vars PROVE OneAnnouncementPerLead'
  OBVIOUS
<1> USE DEF createVars, getVars
<1>1. create \in [Leads -> {"start", "cache", "publish", "created", "rejected", "error"}]
  BY DEF IInv, TypeOK
<1>2. ASSUME NEW l \in Leads, Create(l) PROVE OneAnnouncementPerLead'
  <2>1. CASE Reject(l) \/ Insert(l) \/ InsertFail(l) \/ AbortCreate(l)
    <3>1. /\ UNCHANGED <<topic, sends>>
          /\ \/ create' \in {[create EXCEPT ![l] = "rejected"], [create EXCEPT ![l] = "error"]}
             \/ create[l] = "start" /\ create' = [create EXCEPT ![l] = "cache"]
      BY <2>1 DEF Reject, Insert, InsertFail, AbortCreate, Answer
    <3>2. \A k \in Leads : create'[k] \in {"start", "cache", "publish"} =>
            create'[k] = create[k] \/ (create[k] = "start" /\ create'[k] = "cache")
      BY <1>1, <3>1
    <3> QED BY <3>1, <3>2, UnwrittenStep
  <2> QED BY <1>2, <2>1, CacheNewRecords, PublishRecords DEF Create
<1>3. CASE \/ \E l \in Leads : Convert(l) \/ Expire(l)
           \/ \E g \in Readers : Get(g)
           \/ UNCHANGED vars
  <2>1. UNCHANGED <<topic, sends, create>>
    BY <1>3 DEF Convert, Expire, Get, Hit, Miss, Query, QueryFail, Fill, AbortGet, vars
  <2> QED BY <2>1, UnwrittenStep
<1> QED BY <1>2, <1>3 DEF Next

-----------------------------------------------------------------------------
(* The invariant *)

\* Every step preserves the invariant.
LEMMA IInvStep == IInv /\ [Next]_vars => IInv'
<1> SUFFICES ASSUME IInv, [Next]_vars PROVE IInv'
  OBVIOUS
<1>1. CASE UNCHANGED vars
  <2>1. TypeOK' /\ InProgress'
    BY <1>1 DEF vars, createVars, getVars, IInv, TypeOK, InProgress
  <2> QED BY <1>1, <2>1, SilentStep, QuietStep, RecordsStep DEF vars, createVars, getVars, IInv
<1>2. CASE Next
  <2>1. RowInv'
    BY <1>2, CreateStep, GetStep, OtherStep DEF Next
  <2> QED BY <2>1, RecordsStep DEF IInv, RowInv
<1> QED BY <1>1, <1>2

\* The invariant holds in the initial states.
LEMMA InitIInv == Init => IInv
<1> SUFFICES ASSUME Init PROVE IInv
  OBVIOUS
<1>1. TypeOK
  BY ProducerAssumption DEF Init, TypeOK, Status
<1>2. Announced = {}
  BY DEF Init, Announced
<1>3. OneAnnouncementPerLead
  <2>1. \A l \in Leads : RecordsOf(l) = {} /\ create[l] = "start"
    BY DEF Init, RecordsOf
  <2>2. \A l \in Leads : Cardinality(RecordsOf(l)) = 0
    BY <2>1, FS_EmptySet, Zenon
  <2>3. 0 <= PublishAttempts * WriterCopies
    BY ProducerAssumption
  <2> QED BY <2>1, <2>2, <2>3 DEF OneAnnouncementPerLead
<1> QED BY <1>1, <1>2, <1>3
        DEF Init, IInv, InProgress, CreatedMeansAnnounced, NeverAhead, HasBeen

\* The invariant holds in every reachable state; the theorems below are its parts.
THEOREM Inductive == Spec => []IInv
BY InitIInv, IInvStep, PTL DEF Spec

-----------------------------------------------------------------------------

\* A lead whose Create was answered 201 is in lead.created, and a record of
\* lead.created names a lead with a row (service.go, Create).
THEOREM CreatedIsAnnounced == Spec => []CreatedMeansAnnounced
<1>1. IInv => CreatedMeansAnnounced
  BY DEF IInv
<1> QED BY <1>1, Inductive, PTL

\* Neither the cache nor an answer of Get is ahead of the table, however fills,
\* conversions and expiries of one lead overlap (service.go, Get).
THEOREM CacheNeverAhead == Spec => []NeverAhead
<1>1. IInv => NeverAhead
  BY DEF IInv
<1> QED BY <1>1, Inductive, PTL

\* One request announces a lead, and its copies in lead.created are those of one
\* PublishJSON, whatever other requests and retries do (service.go, Create).
THEOREM OneAnnouncement == Spec => []OneAnnouncementPerLead
<1>1. IInv => OneAnnouncementPerLead
  BY DEF IInv
<1> QED BY <1>1, Inductive, PTL
=============================================================================
