--------------------------- MODULE CdcTailProofs ---------------------------
(***************************************************************************)
(* TLAPS proofs about CdcTail: what the Streaming page may rely on, for    *)
(* any partitions and any size of the buffer, and any number of published  *)
(* records, failures and attachments.                                      *)
(*                                                                         *)
(* The argument is about one sequence, Flow: all the tail has in hand, as  *)
(* it was polled.  A poll appends to it, decoding moves within it, and     *)
(* only a full buffer drops its first record.                              *)
(***************************************************************************)
EXTENDS CdcTail, FiniteSetTheorems, SequenceTheorems, WellFoundedInduction, TLAPS

-----------------------------------------------------------------------------
(* The invariants *)

\* A polled record as DecodeBegins will take it, when it is the i-th of the batch.
Coming(i) ==
    [seq       |-> lastSeq + i,
     partition |-> batch[i][1],
     offset    |-> batch[i][2],
     backfill  |-> batch[i][2] < until[batch[i][1]],
     in        |-> attached]

\* All the tail has in hand, in the order it was polled: the buffer, the record
\* being decoded, and the rest of the batch.
FlowLen == Len(buffer) + Len(decoding) + Len(batch)
Flow ==
    [i \in 1..FlowLen |->
        IF i <= Len(buffer) THEN buffer[i]
        ELSE IF i <= Len(buffer) + Len(decoding) THEN decoding[i - Len(buffer)]
        ELSE Coming(i - Len(buffer) - Len(decoding))]

Going       == tail.pc \in {"poll", "ingest"}
Start(p)    == Max({0, until[p] - BackfillEach})
Alike(r, s) == r.in = s.in /\ r.partition = s.partition

\* Polled records are all ingested before anything else happens; and the bound.
HandsAreFree ==
    /\ tail.pc # "ingest" => batch = <<>> /\ decoding = <<>>
    /\ \A p \in Partitions : EndOf(p) <= MaxPublished

\* Numbered without a gap, and as many kept as there is room for.
LastDue == lastSeq + Len(batch)
FlowCounts ==
    /\ \A i \in 1..FlowLen : Flow[i].seq = LastDue - FlowLen + i
    /\ Len(decoding) <= lastSeq
    /\ Len(buffer) = IF lastSeq - Len(decoding) <= BufferSize
                     THEN lastSeq - Len(decoding) ELSE BufferSize

\* Attachment after attachment; in each, a partition's records follow one another.
FlowRuns ==
    \A i, j \in 1..FlowLen : i < j =>
        /\ Flow[i].in <= Flow[j].in
        /\ Alike(Flow[i], Flow[j]) => Flow[i].offset < Flow[j].offset
        /\ /\ Alike(Flow[i], Flow[j])
           /\ \A k \in (i + 1)..(j - 1) : ~Alike(Flow[i], Flow[k])
           => Flow[j].offset = Flow[i].offset + 1

\* Of this attachment, each partition's last record in hand is the one before the
\* consumer's position, and none is from before where it was put.
FlowReachesPosition ==
    Going =>
        /\ \A p \in Partitions : Start(p) <= position[p]
        /\ \A i \in 1..FlowLen : Flow[i].in = attached =>
            /\ Start(Flow[i].partition) <= Flow[i].offset
            /\ Flow[i].offset < position[Flow[i].partition]
            /\ (\A k \in (i + 1)..FlowLen : ~Alike(Flow[i], Flow[k]))
                => Flow[i].offset + 1 = position[Flow[i].partition]

\* Every record in hand is in the log, flagged by when it was published.
FlowIsFlagged ==
    \A i \in 1..FlowLen :
        /\ Flow[i].in <= attached
        /\ tail.pc = "seek" => Flow[i].in < attached
        /\ Flow[i].offset < EndOf(Flow[i].partition)
        /\ Flow[i].backfill <=>
            log[Flow[i].partition][Flow[i].offset + 1] < Flow[i].in

\* The ends that an attachment read part what was published before it from what was
\* published since.
EndsPartTheLog ==
    \A p \in Partitions : \A k \in 1..EndOf(p) :
        /\ tail.pc = "seek" => (k <= tail.ends[p] <=> log[p][k] < attached)
        /\ Going            => (k <= until[p] <=> log[p][k] < attached)

\* While an attachment reads back, all it has read is in hand.
HasRead(p) ==
    \A o \in Start(p)..(position[p] - 1) : \E i \in 1..FlowLen :
        Flow[i].in = attached /\ Flow[i].partition = p /\ Flow[i].offset = o
ReadsBack ==
    /\ Going /\ Cardinality(Partitions) <= BufferSize
    /\ \A p \in Partitions : position[p] <= until[p]
BackfillInHand == ReadsBack => \A p \in Partitions : HasRead(p)

\* The inductive invariant.
TailInv ==
    /\ TailTypeOK
    /\ HandsAreFree
    /\ FlowCounts
    /\ FlowRuns
    /\ FlowReachesPosition
    /\ FlowIsFlagged
    /\ EndsPartTheLog
    /\ BackfillInHand

-----------------------------------------------------------------------------
(* The operators *)

\* The greater of two.
LEMMA MaxOfTwo ==
  ASSUME NEW a \in Int, NEW b \in Int
  PROVE  Max({a, b}) = IF a >= b THEN a ELSE b
  BY DEF Max

\* The least of two, and of three.
LEMMA MinOfTwo ==
  ASSUME NEW a \in Int, NEW b \in Int
  PROVE  Min({a, b}) = IF a <= b THEN a ELSE b
  BY DEF Min

LEMMA MinOfThree ==
  ASSUME NEW a \in Int, NEW b \in Int, NEW c \in Int
  PROVE  Min({a, b, c}) = IF a <= b /\ a <= c THEN a ELSE IF b <= c THEN b ELSE c
<1> DEFINE m == IF a <= b /\ a <= c THEN a ELSE IF b <= c THEN b ELSE c
<1>1. m \in {a, b, c} /\ \A y \in {a, b, c} : m <= y
  OBVIOUS
<1>2. \A x \in {a, b, c} : (\A y \in {a, b, c} : x <= y) => x = m
  OBVIOUS
<1>3. QED
  <2> HIDE DEF m
  <2>1. Min({a, b, c}) = m
    BY <1>1, <1>2 DEF Min
  <2>2. QED
    BY <2>1 DEF m

\* A quotient times its divisor.
LEMMA QuotientFits ==
  ASSUME NEW b \in Nat, NEW c \in Nat, c > 0
  PROVE  b \div c \in Nat /\ c * (b \div c) <= b /\ (c <= b => b \div c > 0)
  OBVIOUS

\* Every partition has its share of the buffer, and if the buffer has room for one
\* record of each, the shares fit.
LEMMA ShareFits ==
  /\ Cardinality(Partitions) \in Nat /\ Cardinality(Partitions) > 0
  /\ BackfillEach \in Nat /\ BackfillEach > 0
  /\ Cardinality(Partitions) <= BufferSize =>
        Cardinality(Partitions) * BackfillEach <= BufferSize
<1> DEFINE c == Cardinality(Partitions)
           q == BufferSize \div c
<1>1. c \in Nat /\ c > 0
  BY TailAssumption, FS_CardinalityType, FS_EmptySet
<1>2. BufferSize \in Nat
  BY TailAssumption
<1>3. q \in Nat /\ c * q <= BufferSize /\ (c <= BufferSize => q > 0)
  <2> HIDE DEF c
  <2>1. QED
    BY <1>1, <1>2, QuotientFits
<1>4. BackfillEach = IF 1 >= q THEN 1 ELSE q
  <2> HIDE DEF q
  <2>1. Max({1, q}) = IF 1 >= q THEN 1 ELSE q
    BY <1>3, MaxOfTwo
  <2>2. BackfillEach = Max({1, q})
    BY DEF BackfillEach, q
  <2>3. QED
    BY <2>1, <2>2
<1>5. BackfillEach \in Nat /\ BackfillEach > 0
  <2> HIDE DEF q
  <2>1. QED
    BY <1>3, <1>4
<1>6. c <= BufferSize => BackfillEach = q
  <2> HIDE DEF q, c
  <2>1. QED
    BY <1>3, <1>4
<1>7. QED
  <2> HIDE DEF q, c
  <2>1. c <= BufferSize => c * BackfillEach <= BufferSize
    BY <1>3, <1>6
  <2>2. QED
    BY <1>1, <1>5, <2>1 DEF c

\* Where an attachment puts the consumer.
LEMMA StartIs ==
  ASSUME NEW e \in Nat
  PROVE  Max({0, e - BackfillEach}) = IF e >= BackfillEach THEN e - BackfillEach ELSE 0
<1>1. e - BackfillEach \in Int /\ BackfillEach \in Nat
  BY ShareFits
<1>2. Max({0, e - BackfillEach}) = IF 0 >= e - BackfillEach THEN 0 ELSE e - BackfillEach
  BY <1>1, MaxOfTwo
<1>3. QED
  BY <1>1, <1>2

\* The ends are lengths, and the parts of a record are of their kinds.
LEMMA TailTypes ==
  ASSUME TailTypeOK
  PROVE  /\ \A p \in Partitions :
                /\ EndOf(p) \in Nat /\ position[p] \in Nat /\ until[p] \in Nat
                /\ tail.ends[p] \in Nat
                /\ position[p] <= EndOf(p) /\ until[p] <= EndOf(p) /\ tail.ends[p] <= EndOf(p)
                /\ \A k \in 1..EndOf(p) : log[p][k] \in Nat /\ log[p][k] <= attached
         /\ Len(buffer) \in Nat /\ Len(decoding) \in Nat /\ Len(batch) \in Nat
         /\ \A i \in 1..Len(buffer) : buffer[i] \in Record
         /\ \A i \in 1..Len(decoding) : decoding[i] \in Record
         /\ \A i \in 1..Len(batch) : batch[i] \in Partitions \X Nat
<1>1. ASSUME NEW p \in Partitions
      PROVE  /\ EndOf(p) \in Nat /\ position[p] \in Nat /\ until[p] \in Nat
             /\ tail.ends[p] \in Nat
             /\ position[p] <= EndOf(p) /\ until[p] <= EndOf(p) /\ tail.ends[p] <= EndOf(p)
             /\ \A k \in 1..EndOf(p) : log[p][k] \in Nat /\ log[p][k] <= attached
  <2>1. log[p] \in Seq(0..attached)
    BY DEF TailTypeOK
  <2>2. EndOf(p) \in Nat
    BY <2>1 DEF EndOf
  <2>3. {tail.ends[p], position[p], until[p]} \subseteq 0..EndOf(p)
    BY DEF TailTypeOK
  <2>4. \A k \in 1..EndOf(p) : log[p][k] \in 0..attached
    BY <2>1, <2>2, ElementOfSeq, Zenon DEF EndOf
  <2>5. attached \in Nat
    BY DEF TailTypeOK
  <2>6. QED
    BY <2>2, <2>3, <2>4, <2>5
<1>2. Len(buffer) \in Nat /\ Len(decoding) \in Nat /\ Len(batch) \in Nat
  BY DEF TailTypeOK
<1>3. \A i \in 1..Len(buffer) : buffer[i] \in Record
  BY DEF TailTypeOK
<1>4. \A i \in 1..Len(decoding) : decoding[i] \in Record
  BY DEF TailTypeOK
<1>5. \A i \in 1..Len(batch) : batch[i] \in Partitions \X Nat
  BY DEF TailTypeOK
<1>6. QED
  BY <1>1, <1>2, <1>3, <1>4, <1>5

\* What is in hand is a sequence of records.
LEMMA FlowType ==
  ASSUME TailTypeOK
  PROVE  /\ FlowLen \in Nat
         /\ \A i \in 1..FlowLen :
                /\ Flow[i] \in Record
                /\ Flow[i].partition \in Partitions /\ Flow[i].offset \in Nat
                /\ Flow[i].in \in Nat /\ Flow[i].seq \in Nat /\ Flow[i].backfill \in BOOLEAN
<1>0. lastSeq \in Nat /\ attached \in Nat
  BY DEF TailTypeOK
<1> USE TailTypes
<1>1. FlowLen \in Nat
  BY DEF FlowLen
<1>2. \A i \in 1..Len(batch) : Coming(i) \in Record
  <2>1. SUFFICES ASSUME NEW i \in 1..Len(batch) PROVE Coming(i) \in Record
    OBVIOUS
  <2>2. batch[i][1] \in Partitions /\ batch[i][2] \in Nat
    OBVIOUS
  <2>3. lastSeq + i \in Nat /\ attached \in Nat
    BY <1>0
  <2>4. (batch[i][2] < until[batch[i][1]]) \in BOOLEAN
    OBVIOUS
  <2>5. QED
    BY <2>2, <2>3, <2>4, Zenon DEF Coming, Record
<1>3. ASSUME NEW i \in 1..FlowLen PROVE Flow[i] \in Record
  <2>1. CASE i <= Len(buffer)
    <3>1. i \in 1..Len(buffer)
      BY <2>1, <1>1
    <3>2. Flow[i] = buffer[i]
      BY <2>1 DEF Flow
    <3>3. QED
      BY <3>1, <3>2
  <2>2. CASE ~(i <= Len(buffer)) /\ i <= Len(buffer) + Len(decoding)
    <3>1. i - Len(buffer) \in 1..Len(decoding)
      BY <2>2, <1>1
    <3>2. Flow[i] = decoding[i - Len(buffer)]
      BY <2>2 DEF Flow
    <3>3. QED
      BY <3>1, <3>2
  <2>3. CASE ~(i <= Len(buffer)) /\ ~(i <= Len(buffer) + Len(decoding))
    <3>1. i - Len(buffer) - Len(decoding) \in 1..Len(batch)
      BY <2>3, <1>1 DEF FlowLen
    <3>2. Flow[i] = Coming(i - Len(buffer) - Len(decoding))
      BY <2>3 DEF Flow
    <3>3. QED
      BY <3>1, <3>2, <1>2
  <2>4. QED
    BY <2>1, <2>2, <2>3
<1>4. ASSUME NEW r \in Record
      PROVE  /\ r.partition \in Partitions /\ r.offset \in Nat
             /\ r.in \in Nat /\ r.seq \in Nat /\ r.backfill \in BOOLEAN
  BY Zenon DEF Record
<1>5. QED
  BY <1>1, <1>3, <1>4

-----------------------------------------------------------------------------
(* What a step does to what is in hand *)

\* Nothing is taken and nothing leaves.
LEMMA FlowStays ==
  ASSUME UNCHANGED <<buffer, decoding, batch>>,
         TailTypeOK,
         batch = <<>> \/ UNCHANGED <<lastSeq, until, attached>>
  PROVE  FlowLen' = FlowLen /\ Flow' = Flow
<1>1. FlowLen' = FlowLen
  BY DEF FlowLen
<1>2. CASE batch = <<>>
  <2>1. \A i \in 1..FlowLen :
            i <= Len(buffer) \/ i <= Len(buffer) + Len(decoding)
    BY <1>2, TailTypes DEF FlowLen
  <2>2. QED
    BY <1>1, <2>1 DEF Flow
<1>3. CASE UNCHANGED <<lastSeq, until, attached>>
  BY <1>1, <1>3, Zenon DEF Flow, Coming
<1>4. QED
  BY <1>1, <1>2, <1>3

\* Decoding begins with the record that comes next.
LEMMA FlowBegins ==
  ASSUME DecodeBegins, TailTypeOK
  PROVE  FlowLen' = FlowLen /\ Flow' = Flow /\ Len(batch') = Len(batch) - 1
         /\ Len(decoding) = 0 /\ Len(decoding') = 1 /\ Len(batch) > 0
<1> USE TailTypes
<1>0. batch \in Seq(Partitions \X Nat)
  BY DEF TailTypeOK
<1>1. Len(batch) > 0 /\ Len(batch') = Len(batch) - 1
  BY <1>0, HeadTailProperties, EmptySeq DEF DecodeBegins
<1>2. \A i \in 1..Len(batch') : batch'[i] = batch[i + 1]
  BY <1>0, <1>1 DEF DecodeBegins
<1>3. Head(batch) = batch[1]
  OBVIOUS
<1>4. decoding = <<>> /\ decoding' = <<Coming(1)>>
  BY <1>3, Zenon DEF DecodeBegins, Coming
<1>5. Len(decoding) = 0 /\ Len(decoding') = 1 /\ decoding'[1] = Coming(1)
  <2> HIDE DEF Coming
  <2>1. QED
    BY <1>4
<1>6. UNCHANGED <<buffer, until, attached>> /\ lastSeq' = lastSeq + 1 /\ lastSeq \in Nat
  BY DEF DecodeBegins, TailTypeOK
<1>7. FlowLen' = FlowLen
  BY <1>1, <1>5, <1>6 DEF FlowLen
<1>8. ASSUME NEW i \in 1..Len(batch')
      PROVE  Coming(i)' = Coming(i + 1)
  <2>1. i \in Int /\ lastSeq' + i = lastSeq + (i + 1)
    BY <1>1, <1>6
  <2>2. batch'[i] = batch[i + 1]
    BY <1>2
  <2>3. QED
    BY <2>1, <2>2, <1>6, Zenon DEF Coming
<1>9. ASSUME NEW i \in 1..FlowLen
      PROVE  Flow'[i] = Flow[i]
  <2> DEFINE n == Len(buffer)
  <2>1. CASE i <= n
    BY <2>1, <1>6, <1>7 DEF Flow
  <2>2. CASE i = n + 1
    <3>1. Flow'[i] = decoding'[i - n]
      BY <2>2, <1>5, <1>6, <1>7 DEF Flow
    <3>2. Flow[i] = Coming(i - n - Len(decoding))
      BY <2>2, <1>5 DEF Flow
    <3>3. i - n = 1 /\ i - n - Len(decoding) = 1
      BY <2>2, <1>5
    <3>4. QED
      BY <3>1, <3>2, <3>3, <1>5
  <2>3. CASE i > n + 1
    <3>0. i - n - 1 \in 1..Len(batch')
      <4>1. i <= n + Len(batch) /\ i \in Int /\ n \in Nat
        BY <1>5 DEF FlowLen
      <4>2. QED
        BY <4>1, <2>3, <1>1
    <3>1. PICK m \in 1..Len(batch') : m = i - n - 1
      BY <3>0
    <3>2. ~(i <= Len(buffer')) /\ ~(i <= Len(buffer') + Len(decoding'))
          /\ i - Len(buffer') - Len(decoding') = m
      BY <2>3, <1>5, <1>6, <3>1
    <3>3. Flow'[i] = Coming(m)'
      BY <3>2, <1>7, Zenon DEF Flow, Coming
    <3>4. Flow[i] = Coming(m + 1)
      BY <2>3, <1>5, <3>1 DEF Flow
    <3>5. QED
      BY <3>3, <3>4, <1>8
  <2>4. QED
    BY <2>1, <2>2, <2>3
<1>10. Flow' = Flow
  <2>1. Flow' = [i \in 1..FlowLen |-> Flow'[i]]
    BY <1>7 DEF Flow
  <2>2. Flow = [i \in 1..FlowLen |-> Flow[i]]
    BY DEF Flow
  <2>3. QED
    BY <2>1, <2>2, <1>9
<1>11. QED
  BY <1>1, <1>5, <1>7, <1>10

\* One record at a time.
LEMMA OneDecodes ==
  ASSUME DecodeEnds, TailTypeOK
  PROVE  Len(decoding) = 1
<1>1. decoding \in Seq(Record) /\ decoding # <<>>
  BY DEF DecodeEnds, TailTypeOK
<1>2. Len(decoding) <= 1 /\ Len(decoding) \in Nat
  BY TailTypes DEF TailTypeOK
<1>3. Len(decoding) # 0
  BY <1>1, EmptySeq
<1>4. \A n \in Nat : n <= 1 /\ n # 0 => n = 1
  OBVIOUS
<1>5. QED
  BY <1>2, <1>3, <1>4, Zenon

\* A decoded record goes to the buffer, from whose front one leaves when it is full.
LEMMA FlowEnds ==
  ASSUME DecodeEnds, TailTypeOK
  PROVE  \E d \in 0..1 :
            /\ d = 1 <=> Len(buffer) = BufferSize
            /\ Len(decoding) = 1 /\ Len(decoding') = 0 /\ batch' = batch
            /\ Len(buffer') = Len(buffer) + 1 - d
            /\ FlowLen' = FlowLen - d
            /\ \A i \in 1..FlowLen' : i + d \in 1..FlowLen /\ Flow'[i] = Flow[i + d]
<1> USE TailTypes
<1> DEFINE r   == decoding[1]
           all == Append(buffer, r)
           n   == Len(buffer)
<1>0. BufferSize \in Nat /\ BufferSize > 0 /\ n <= BufferSize /\ n \in Nat
  BY TailAssumption DEF TailTypeOK
<1>1. Len(decoding) = 1 /\ r \in Record
  <2>1. Len(decoding) = 1
    BY OneDecodes
  <2>2. 1 \in 1..Len(decoding)
    BY <2>1
  <2>3. QED
    BY <2>1, <2>2
<1>2. Len(decoding') = 0
  BY DEF DecodeEnds
<1>3. buffer \in Seq(Record)
  BY DEF TailTypeOK
<1>4. all \in Seq(Record) /\ Len(all) = n + 1 /\ \A i \in 1..n : all[i] = buffer[i]
  BY <1>1, <1>3, AppendProperties
<1>5. all[n + 1] = r
  BY <1>1, <1>3, AppendProperties
<1>6. PICK d \in 0..1 : d = 1 <=> n = BufferSize
  <2>1. CASE n = BufferSize
    BY <2>1
  <2>2. CASE n # BufferSize
    BY <2>2
  <2>3. QED
    BY <2>1, <2>2
<1>7. buffer' = SubSeq(all, d + 1, n + 1)
  <2>1. (IF Len(all) > BufferSize THEN 2 ELSE 1) = d + 1
    <3> HIDE DEF all
    <3>1. QED
      BY <1>0, <1>4, <1>6
  <2>2. buffer' = SubSeq(all, IF Len(all) > BufferSize THEN 2 ELSE 1, Len(all))
    BY Zenon DEF DecodeEnds, Appended
  <2>3. QED
    <3> HIDE DEF all
    <3>1. QED
      BY <2>1, <2>2, <1>4
<1>8. Len(buffer') = n + 1 - d /\ \A i \in 1..(n + 1 - d) : buffer'[i] = all[i + d]
  <2> HIDE DEF all
  <2>1. d \in {0, 1}
    BY <1>6
  <2>2. QED
    BY <2>1, <1>4, <1>7
<1>9. batch' = batch /\ UNCHANGED <<lastSeq, until, attached>>
  BY DEF DecodeEnds
<1>10. FlowLen' = FlowLen - d
  BY <1>1, <1>2, <1>8, <1>9 DEF FlowLen
<1>11. \A i \in Int : Coming(i)' = Coming(i)
  BY <1>9, Zenon DEF Coming
<1>12. ASSUME NEW i \in 1..FlowLen'
       PROVE  i + d \in 1..FlowLen /\ Flow'[i] = Flow[i + d]
  <2>0. FlowLen \in Nat /\ FlowLen = n + 1 + Len(batch)
    BY <1>1, FlowType DEF FlowLen
  <2>1. i + d \in 1..FlowLen /\ i \in Int
    BY <1>6, <1>10, <2>0
  <2>2. CASE i + d <= n
    <3>1. i <= n + 1 - d /\ i \in 1..(n + 1 - d) /\ i + d \in 1..n
      BY <2>2, <2>1, <1>6
    <3>2. Flow'[i] = buffer'[i]
      BY <3>1, <1>8 DEF Flow
    <3>3. Flow[i + d] = buffer[i + d]
      BY <2>2, <2>1 DEF Flow
    <3>4. QED
      <4> HIDE DEF all
      <4>1. QED
        BY <2>1, <3>1, <3>2, <3>3, <1>4, <1>8
  <2>3. CASE i + d = n + 1
    <3>1. i <= n + 1 - d /\ i \in 1..(n + 1 - d)
      BY <2>3, <2>1, <1>6
    <3>2. Flow'[i] = buffer'[i]
      BY <3>1, <1>8 DEF Flow
    <3>3. buffer'[i] = r
      <4> HIDE DEF all, r
      <4>1. QED
        BY <3>1, <2>3, <1>5, <1>8
    <3>4. Flow[i + d] = decoding[i + d - n] /\ i + d - n = 1
      BY <2>3, <2>1, <1>1 DEF Flow
    <3>5. QED
      BY <2>1, <3>2, <3>3, <3>4
  <2>4. CASE i + d > n + 1
    <3>1. ~(i <= Len(buffer')) /\ ~(i <= Len(buffer') + Len(decoding'))
          /\ i - Len(buffer') - Len(decoding') = i + d - n - 1
      BY <2>4, <2>1, <1>2, <1>6, <1>8
    <3>a. i + d - n - 1 \in Int
      BY <2>1, <1>0, <1>6
    <3>2. PICK m \in Int : m = i + d - n - 1
      BY <3>a
    <3>3. Flow'[i] = Coming(m)'
      BY <3>1, <3>2, Zenon DEF Flow, Coming
    <3>4. Flow[i + d] = Coming(m)
      BY <2>4, <2>1, <3>2, <1>1 DEF Flow
    <3>5. QED
      BY <2>1, <3>3, <3>4, <1>11
  <2>5. QED
    BY <2>1, <2>2, <2>3, <2>4, <1>6
<1>13. QED
  BY <1>1, <1>2, <1>6, <1>8, <1>9, <1>10, <1>12

\* A poll: so many records of each partition, from the position on.
PollOf(k, b) ==
    /\ \A i, j, m \in 1..k : i < j /\ j < m /\ b[i] = b[m] => b[j] = b[i]
    /\ position' = [p \in Partitions |-> position[p] + Cardinality({i \in 1..k : b[i] = p})]
    /\ \A p \in Partitions : position'[p] <= EndOf(p)
    /\ batch' = Polled(b)

\* How many of the first n records of a poll are of a partition.
CountOf(b, p, n) == Cardinality({j \in 1..n : b[j] = p})

\* It starts at nothing and goes up by one at each of them.
LEMMA CountIs ==
  ASSUME NEW b, NEW p, NEW n \in Nat
  PROVE  /\ IsFiniteSet({j \in 1..n : b[j] = p}) /\ CountOf(b, p, n) \in Nat
         /\ n = 0 => CountOf(b, p, n) = 0
         /\ b[n + 1] = p => CountOf(b, p, n + 1) = CountOf(b, p, n) + 1
         /\ b[n + 1] # p => CountOf(b, p, n + 1) = CountOf(b, p, n)
<1> DEFINE S == {j \in 1..n : b[j] = p}
           T == {j \in 1..(n + 1) : b[j] = p}
<1>1. IsFiniteSet(S) /\ Cardinality(S) \in Nat
  <2>1. IsFiniteSet(1..n) /\ S \in SUBSET (1..n)
    BY FS_Interval
  <2>2. QED
    <3> HIDE DEF S
    <3>1. QED
      BY <2>1, FS_Subset, FS_CardinalityType
<1>2. n = 0 => Cardinality(S) = 0
  <2>1. n = 0 => S = {}
    OBVIOUS
  <2>2. QED
    BY <2>1, FS_EmptySet
<1>3. b[n + 1] = p => Cardinality(T) = Cardinality(S) + 1
  <2>1. SUFFICES ASSUME b[n + 1] = p PROVE Cardinality(T) = Cardinality(S) + 1
    OBVIOUS
  <2>2. T = S \cup {n + 1} /\ n + 1 \notin S
    BY <2>1
  <2>3. QED
    <3> HIDE DEF S, T
    <3>1. QED
      BY <1>1, <2>2, FS_AddElement
<1>4. b[n + 1] # p => T = S
  OBVIOUS
<1>5. QED
  <2> HIDE DEF S, T
  <2>1. CountOf(b, p, n) = Cardinality(S) /\ CountOf(b, p, n + 1) = Cardinality(T)
    BY DEF CountOf, S, T
  <2>2. IsFiniteSet({j \in 1..n : b[j] = p})
    BY <1>1 DEF S
  <2>3. QED
    BY <1>1, <1>2, <1>3, <1>4, <2>1, <2>2

\* More records, no fewer of a partition.
LEMMA CountGrows ==
  ASSUME NEW b, NEW p, NEW n \in Nat, NEW m \in Nat, n <= m
  PROVE  CountOf(b, p, n) <= CountOf(b, p, m)
<1> DEFINE S == {j \in 1..n : b[j] = p}
           T == {j \in 1..m : b[j] = p}
<1>1. S \subseteq T
  OBVIOUS
<1>2. IsFiniteSet(T)
  BY CountIs
<1>3. QED
  <2> HIDE DEF S, T
  <2>1. Cardinality(S) <= Cardinality(T)
    BY <1>1, <1>2, FS_Subset
  <2>2. QED
    BY <2>1 DEF CountOf, S, T

\* Where none is of the partition, the count stays.
LEMMA CountRests ==
  ASSUME NEW b, NEW p, NEW n \in Nat, NEW m \in Nat, n <= m,
         \A j \in (n + 1)..m : b[j] # p
  PROVE  CountOf(b, p, n) = CountOf(b, p, m)
<1>1. {j \in 1..n : b[j] = p} = {j \in 1..m : b[j] = p}
  OBVIOUS
<1>2. QED
  BY <1>1 DEF CountOf

\* What a poll does to what is in hand, with the records of each partition counted.
PollsInto(k, b) ==
    /\ \A p \in Partitions :
            /\ position'[p] = position[p] + CountOf(b, p, k)
            /\ position'[p] <= EndOf(p)
    /\ Len(batch) = 0 /\ Len(batch') = k
    /\ FlowLen \in Nat /\ FlowLen' = FlowLen + k
    /\ \A i \in 1..FlowLen : i \in 1..FlowLen' /\ Flow'[i] = Flow[i]
    /\ \A j \in 1..FlowLen' : j \in 1..FlowLen \/ \E m \in 1..k : j = FlowLen + m
    /\ \A m \in 1..k :
            /\ FlowLen + m \in 1..FlowLen' /\ b[m] \in Partitions
            /\ Flow'[FlowLen + m].seq = lastSeq + m
            /\ Flow'[FlowLen + m].partition = b[m]
            /\ Flow'[FlowLen + m].offset = position[b[m]] + CountOf(b, b[m], m - 1)
            /\ Flow'[FlowLen + m].in = attached
            /\ Flow'[FlowLen + m].backfill
                    <=> position[b[m]] + CountOf(b, b[m], m - 1) < until[b[m]]

\* What a poll adds is behind what is in hand, and is what comes.
LEMMA FlowPolls ==
  ASSUME TailTypeOK, batch = <<>>, decoding = <<>>,
         UNCHANGED <<buffer, decoding, until, attached, lastSeq>>,
         NEW k \in 1..BufferSize, NEW b \in [1..k -> Partitions], PollOf(k, b)
  PROVE  batch' \in Seq(Partitions \X Nat) /\ PollsInto(k, b)
<1> DEFINE n == Len(buffer)
           new(m) == <<b[m], position[b[m]] + CountOf(b, b[m], m - 1)>>
<1>0. k \in Nat /\ n \in Nat /\ BufferSize \in Nat
  BY TailTypes, TailAssumption
<1>1. batch' = [m \in 1..k |-> new(m)]
  BY DEF PollOf, Polled, CountOf
<1>2. \A m \in 1..k : new(m) \in Partitions \X Nat
  <2>1. SUFFICES ASSUME NEW m \in 1..k PROVE new(m) \in Partitions \X Nat
    OBVIOUS
  <2>2. b[m] \in Partitions /\ position[b[m]] \in Nat
    BY TailTypes
  <2>3. CountOf(b, b[m], m - 1) \in Nat
    <3>1. m - 1 \in Nat
      BY <1>0
    <3>2. QED
      BY <3>1, CountIs, Zenon
  <2>4. QED
    BY <2>2, <2>3
<1>3. batch' \in Seq(Partitions \X Nat) /\ Len(batch') = k
  <2> HIDE DEF new
  <2>1. QED
    BY <1>0, <1>1, <1>2
<1>4. Len(batch) = 0 /\ Len(decoding) = 0 /\ Len(decoding') = 0 /\ buffer' = buffer
  OBVIOUS
<1>5. FlowLen = n /\ FlowLen' = n + k
  BY <1>0, <1>3, <1>4 DEF FlowLen
<1>6. ASSUME NEW i \in 1..FlowLen PROVE Flow'[i] = Flow[i]
  <2>1. i \in 1..FlowLen' /\ i <= n /\ i <= Len(buffer')
    BY <1>0, <1>4, <1>5
  <2>2. QED
    BY <2>1, Zenon DEF Flow
<1>7. ASSUME NEW m \in 1..k
      PROVE  FlowLen + m \in 1..FlowLen' /\ Flow'[FlowLen + m] = Coming(m)'
  <2>1. n + m \in 1..FlowLen' /\ ~(n + m <= Len(buffer'))
        /\ ~(n + m <= Len(buffer') + Len(decoding'))
        /\ n + m - Len(buffer') - Len(decoding') = m
    BY <1>0, <1>4, <1>5
  <2>2. PICK i \in 1..FlowLen' : i = n + m
    BY <2>1
  <2>3. ~(i <= Len(buffer')) /\ ~(i <= Len(buffer') + Len(decoding'))
        /\ i - Len(buffer') - Len(decoding') = m
    BY <1>0, <1>4, <2>2
  <2>4. Flow'[i] = Coming(m)'
    BY <2>3, Zenon DEF Flow, Coming
  <2>5. QED
    BY <2>1, <2>2, <2>4, <1>5
<1>8. ASSUME NEW m \in 1..k
      PROVE  /\ Flow'[FlowLen + m].seq = lastSeq + m
             /\ Flow'[FlowLen + m].partition = b[m]
             /\ Flow'[FlowLen + m].offset = position[b[m]] + CountOf(b, b[m], m - 1)
             /\ Flow'[FlowLen + m].in = attached
             /\ Flow'[FlowLen + m].backfill
                    <=> position[b[m]] + CountOf(b, b[m], m - 1) < until[b[m]]
  <2>1. batch'[m][1] = b[m] /\ batch'[m][2] = position[b[m]] + CountOf(b, b[m], m - 1)
    BY <1>1
  <2>2. PICK r : r = Flow'[FlowLen + m]
    OBVIOUS
  <2>3. r =          [seq       |-> lastSeq + m,
                      partition |-> b[m],
                      offset    |-> position[b[m]] + CountOf(b, b[m], m - 1),
                      backfill  |-> position[b[m]] + CountOf(b, b[m], m - 1) < until[b[m]],
                      in        |-> attached]
    <3>1. r = Coming(m)'
      BY <1>7, <2>2, Zenon
    <3>2. QED
      BY <2>1, <3>1, Zenon DEF Coming
  <2>4. /\ r.seq = lastSeq + m /\ r.partition = b[m]
        /\ r.offset = position[b[m]] + CountOf(b, b[m], m - 1)
        /\ r.in = attached
    BY <2>3
  <2>5. r.backfill = (position[b[m]] + CountOf(b, b[m], m - 1) < until[b[m]])
    BY <2>3, Zenon
  <2>6. QED
    BY <2>2, <2>4, <2>5, Zenon
<1>9. \A j \in 1..FlowLen' : j \in 1..FlowLen \/ \E m \in 1..k : j = FlowLen + m
  <2>1. SUFFICES ASSUME NEW j \in 1..FlowLen', j \notin 1..FlowLen
                 PROVE  \E m \in 1..k : j = FlowLen + m
    OBVIOUS
  <2>2. j - FlowLen \in 1..k /\ j = FlowLen + (j - FlowLen)
    BY <1>0, <1>5, <2>1
  <2>3. QED
    BY <2>2
<1>10. \A i \in 1..FlowLen : i \in 1..FlowLen'
  BY <1>0, <1>5
<1>11. \A p \in Partitions :
                /\ position'[p] = position[p] + CountOf(b, p, k)
                /\ position'[p] <= EndOf(p)
  BY DEF PollOf, CountOf
<1>12. \A m \in 1..k : b[m] \in Partitions
  OBVIOUS
<1>13. FlowLen \in Nat /\ FlowLen' = FlowLen + k
  BY <1>0, <1>5
<1>14. PollsInto(k, b)
  <2> HIDE DEF n, new
  <2>1. QED
    BY <1>3, <1>4, <1>6, <1>7, <1>8, <1>9, <1>10, <1>11, <1>12, <1>13, Zenon DEF PollsInto
<1>15. QED
  BY <1>3, <1>14

-----------------------------------------------------------------------------
(* Every step keeps the types *)

TailPcs == {"attach", "seek", "raised", "sleep", "poll", "ingest"}

\* A sequence is one of a larger set.
LEMMA SeqWidens ==
  ASSUME NEW S, NEW T, S \subseteq T, NEW s \in Seq(S)
  PROVE  s \in Seq(T)
  OBVIOUS

\* What is appended goes to the end.
LEMMA PublishIs ==
  ASSUME TailTypeOK, NEW q \in Partitions, Publish(q)
  PROVE  /\ log' \in [Partitions -> Seq(0..attached)]
         /\ \A p \in Partitions :
                /\ EndOf(p)' \in Nat
                /\ EndOf(p) <= EndOf(p)' /\ (p # q => EndOf(p)' = EndOf(p))
                /\ EndOf(q)' = EndOf(q) + 1
                /\ \A k \in 1..EndOf(p) : log'[p][k] = log[p][k]
                /\ \A k \in 1..EndOf(p)' : k <= EndOf(p) \/ log'[p][k] = attached
<1>1. log \in [Partitions -> Seq(0..attached)] /\ attached \in Nat
  BY DEF TailTypeOK
<1>2. log' = [log EXCEPT ![q] = Append(log[q], attached)]
  BY DEF Publish
<1>3. attached \in 0..attached /\ log[q] \in Seq(0..attached)
  BY <1>1
<1>4. log'[q] = Append(log[q], attached) /\ \A p \in Partitions : p # q => log'[p] = log[p]
  BY <1>1, <1>2
<1>5. /\ log'[q] \in Seq(0..attached) /\ Len(log'[q]) = Len(log[q]) + 1
      /\ \A k \in 1..Len(log[q]) : log'[q][k] = log[q][k]
      /\ log'[q][Len(log[q]) + 1] = attached
  BY <1>3, <1>4, AppendProperties
<1>6. log' \in [Partitions -> Seq(0..attached)]
  <2>1. DOMAIN log' = Partitions /\ log' = [p \in Partitions |-> log'[p]]
    BY <1>1, <1>2
  <2>2. \A p \in Partitions : log'[p] \in Seq(0..attached)
    BY <1>1, <1>4, <1>5, Zenon
  <2>3. QED
    BY <2>1, <2>2
<1>7. ASSUME NEW p \in Partitions
      PROVE  /\ EndOf(p)' \in Nat
             /\ EndOf(p) <= EndOf(p)' /\ (p # q => EndOf(p)' = EndOf(p))
             /\ EndOf(q)' = EndOf(q) + 1
             /\ \A k \in 1..EndOf(p) : log'[p][k] = log[p][k]
             /\ \A k \in 1..EndOf(p)' : k <= EndOf(p) \/ log'[p][k] = attached
  <2>1. EndOf(p) \in Nat /\ EndOf(q) \in Nat
    BY TailTypes
  <2>2. EndOf(q)' = EndOf(q) + 1
    BY <1>5 DEF EndOf
  <2>3. CASE p # q
    <3>1. log'[p] = log[p] /\ EndOf(p)' = EndOf(p)
      BY <2>3, <1>4 DEF EndOf
    <3>2. QED
      BY <2>1, <2>2, <2>3, <3>1
  <2>4. CASE p = q
    <3>1. \A k \in 1..EndOf(q) : log'[q][k] = log[q][k]
      BY <1>5 DEF EndOf
    <3>2. log'[q][EndOf(q) + 1] = attached
      BY <1>5 DEF EndOf
    <3>3. \A k \in 1..EndOf(q)' : k <= EndOf(q) \/ k = EndOf(q) + 1
      BY <2>1, <2>2
    <3>4. QED
      BY <2>1, <2>2, <2>4, <3>1, <3>2, <3>3
  <2>5. QED
    BY <2>3, <2>4
<1>8. QED
  BY <1>6, <1>7

\* A publication keeps the types.
LEMMA PublishTypes ==
  ASSUME TailTypeOK, HandsAreFree, NEW q \in Partitions, Publish(q)
  PROVE  TailTypeOK' /\ HandsAreFree'
<1>1. UNCHANGED <<tail, tailState, position, until, batch, decoding, buffer, lastSeq,
                  attached, breaks>> /\ topic' = TRUE /\ EndOf(q) < MaxPublished
  BY DEF Publish
<1>2. log' \in [Partitions -> Seq(0..attached')]
  BY <1>1, PublishIs
<1>3. \A p \in Partitions : {tail.ends[p], position[p], until[p]} \subseteq 0..EndOf(p)'
  <2>1. SUFFICES ASSUME NEW p \in Partitions
                 PROVE  {tail.ends[p], position[p], until[p]} \subseteq 0..EndOf(p)'
    OBVIOUS
  <2>2. EndOf(p) \in Nat /\ EndOf(p)' \in Nat /\ EndOf(p) <= EndOf(p)'
    BY TailTypes, PublishIs
  <2>3. {tail.ends[p], position[p], until[p]} \subseteq 0..EndOf(p)
    BY DEF TailTypeOK
  <2>4. QED
    BY <2>2, <2>3
<1>4. TailTypeOK'
  BY <1>1, <1>2, <1>3, Zenon DEF TailTypeOK
<1>5. \A p \in Partitions : EndOf(p)' <= MaxPublished
  <2>1. SUFFICES ASSUME NEW p \in Partitions PROVE EndOf(p)' <= MaxPublished
    OBVIOUS
  <2>2. EndOf(p) <= MaxPublished
    BY DEF HandsAreFree
  <2>3. EndOf(p) \in Nat /\ (p # q => EndOf(p)' = EndOf(p)) /\ EndOf(q)' = EndOf(q) + 1
        /\ EndOf(q) \in Nat
    BY TailTypes, PublishIs
  <2>4. MaxPublished \in Nat
    BY TailAssumption
  <2>5. QED
    BY <1>1, <2>2, <2>3, <2>4
<1>6. QED
  BY <1>1, <1>4, <1>5, Zenon DEF HandsAreFree

\* The log, and what the hands hold, stay when they are left alone.
LEMMA HandsRest ==
  ASSUME TailTypeOK, HandsAreFree, UNCHANGED <<log, batch, decoding>>,
         tail'.pc # "ingest" => batch = <<>> /\ decoding = <<>>
  PROVE  HandsAreFree'
<1>1. \A p \in Partitions : EndOf(p)' = EndOf(p)
  BY DEF EndOf
<1>2. QED
  BY <1>1, Zenon DEF HandsAreFree

\* Moving on keeps the type of the loop.
LEMMA TailMoves ==
  ASSUME TailTypeOK, NEW pc \in TailPcs, TailGoes(pc)
  PROVE  tail'.pc = pc /\ tail'.ends = tail.ends
         /\ tail' \in [pc : TailPcs, ends : [Partitions -> 0..MaxPublished]]
<1>1. tail \in [pc : TailPcs, ends : [Partitions -> 0..MaxPublished]]
  BY DEF TailTypeOK, TailPcs
<1>2. tail' = [tail EXCEPT !.pc = pc]
  BY DEF TailGoes
<1>3. QED
  BY <1>1, <1>2

\* So do the steps that only move on,
LEMMA MoveTypes ==
  ASSUME TailTypeOK, HandsAreFree, AttachWaits \/ Retries \/ IngestEnds
  PROVE  TailTypeOK' /\ HandsAreFree'
<1>1. PICK pc \in TailPcs : TailGoes(pc) /\ pc # "ingest"
  <2>1. {"raised", "attach", "poll"} \subseteq TailPcs \ {"ingest"}
    BY DEF TailPcs
  <2>2. QED
    BY <2>1 DEF AttachWaits, Retries, IngestEnds
<1>2. batch = <<>> /\ decoding = <<>>
  BY DEF AttachWaits, Retries, IngestEnds, HandsAreFree
<1>3. UNCHANGED <<topic, log, position, until, batch, decoding, buffer, lastSeq, attached,
                  breaks>>
  BY DEF AttachWaits, Retries, IngestEnds
<1>4. tailState' \in {"starting", "waiting_for_topic", "tailing", "error"}
  BY DEF AttachWaits, Retries, IngestEnds, TailTypeOK
<1>5. tail'.ends = tail.ends
      /\ tail' \in [pc : TailPcs, ends : [Partitions -> 0..MaxPublished]]
  BY <1>1, TailMoves
<1>6. TailTypeOK'
  <2>1. \A p \in Partitions : EndOf(p)' = EndOf(p)
    BY <1>3 DEF EndOf
  <2>2. QED
    BY <1>3, <1>4, <1>5, <2>1, Zenon DEF TailTypeOK, TailPcs
<1>7. QED
  BY <1>2, <1>3, <1>6, HandsRest, Zenon

\* the reading of the ends,
LEMMA AttachReadsTypes ==
  ASSUME TailTypeOK, HandsAreFree, AttachReads
  PROVE  TailTypeOK' /\ HandsAreFree'
<1> DEFINE e == [p \in Partitions |-> EndOf(p)]
<1>1. tail' = [pc |-> "seek", ends |-> e] /\ attached' = attached + 1 /\ tail.pc = "attach"
      /\ UNCHANGED <<topic, log, tailState, position, until, batch, decoding, buffer,
                     lastSeq, breaks>>
  BY DEF AttachReads
<1>2. e \in [Partitions -> 0..MaxPublished]
  <2>1. \A p \in Partitions : EndOf(p) \in 0..MaxPublished
    BY TailTypes, TailAssumption DEF HandsAreFree
  <2>2. QED
    BY <2>1
<1>3. tail'.pc = "seek" /\ tail'.ends = e
      /\ tail' \in [pc : TailPcs, ends : [Partitions -> 0..MaxPublished]]
  <2> HIDE DEF e
  <2>1. QED
    BY <1>1, <1>2 DEF TailPcs
<1>4. log' \in [Partitions -> Seq(0..attached')] /\ attached' \in Nat
  <2>1. attached \in Nat /\ log \in [Partitions -> Seq(0..attached)]
    BY DEF TailTypeOK
  <2>2. 0..attached \subseteq 0..(attached + 1)
    BY <2>1
  <2>3. \A p \in Partitions : log[p] \in Seq(0..(attached + 1))
    BY <2>1, <2>2, SeqWidens
  <2>4. QED
    BY <1>1, <2>1, <2>3
<1>5. \A p \in Partitions : {tail'.ends[p], position[p], until[p]} \subseteq 0..EndOf(p)
  <2>1. SUFFICES ASSUME NEW p \in Partitions
                 PROVE  {tail'.ends[p], position[p], until[p]} \subseteq 0..EndOf(p)
    OBVIOUS
  <2>2. tail'.ends[p] = EndOf(p) /\ EndOf(p) \in Nat
    BY <1>3, TailTypes
  <2>3. {tail.ends[p], position[p], until[p]} \subseteq 0..EndOf(p)
    BY DEF TailTypeOK
  <2>4. QED
    BY <2>2, <2>3
<1>6. TailTypeOK'
  <2>1. \A p \in Partitions : EndOf(p)' = EndOf(p)
    BY <1>1 DEF EndOf
  <2>2. tail' \in [pc : TailPcs, ends : [Partitions -> 0..MaxPublished]]
    BY <1>3
  <2>3. UNCHANGED <<topic, log, tailState, position, until, batch, decoding, buffer,
                    lastSeq, breaks>>
    BY <1>1
  <2>4. QED
    <3> HIDE DEF e
    <3>1. QED
      BY <1>4, <1>5, <2>1, <2>2, <2>3, Zenon DEF TailTypeOK, TailPcs
<1>7. batch = <<>> /\ decoding = <<>>
  BY <1>1 DEF HandsAreFree
<1>8. QED
  BY <1>1, <1>6, <1>7, HandsRest, Zenon

\* Where a consumer is before it was put anywhere.
LEMMA ZeroIs ==
  ASSUME TailTypeOK
  PROVE  Zero \in [Partitions -> 0..MaxPublished] /\ \A p \in Partitions : Zero[p] = 0
  BY TailAssumption DEF Zero

\* the steps that put the consumer somewhere, or give it up,
LEMMA ResetTypes ==
  ASSUME TailTypeOK, HandsAreFree, AttachSeeks \/ Raises \/ Reports
  PROVE  TailTypeOK' /\ HandsAreFree'
<1>1. UNCHANGED <<topic, log, batch, decoding, buffer, lastSeq, attached>>
      /\ tail.pc # "ingest" /\ tail'.pc # "ingest"
  <2>1. CASE AttachSeeks \/ Raises
    BY <2>1 DEF AttachSeeks, Raises
  <2>2. CASE Reports
    <3>1. "sleep" \in TailPcs
      BY DEF TailPcs
    <3>2. QED
      BY <2>2, <3>1, TailMoves DEF Reports
  <2>3. QED
    BY <2>1, <2>2
<1>2. breaks' \in 0..MaxBreaks
  BY TailAssumption DEF AttachSeeks, Raises, Reports, Breaking, TailTypeOK
<1>3. tailState' \in {"starting", "waiting_for_topic", "tailing", "error"}
  BY DEF AttachSeeks, Raises, Reports, TailTypeOK
<1>4. tail' \in [pc : TailPcs, ends : [Partitions -> 0..MaxPublished]]
      /\ (tail'.ends = Zero \/ tail'.ends = tail.ends)
  <2>1. {"poll", "raised", "sleep"} \subseteq TailPcs
    BY DEF TailPcs
  <2>2. CASE AttachSeeks \/ Raises
    BY <2>1, <2>2, ZeroIs DEF AttachSeeks, Raises
  <2>3. CASE Reports
    BY <2>1, <2>3, TailMoves DEF Reports
  <2>4. QED
    BY <2>2, <2>3
<1>5. until' \in [Partitions -> 0..MaxPublished] /\ (until' = until \/ until' = tail.ends)
  <2>1. until' = until \/ until' = tail.ends
    BY DEF AttachSeeks, Raises, Reports
  <2>2. tail.ends \in [Partitions -> 0..MaxPublished]
        /\ until \in [Partitions -> 0..MaxPublished]
    BY DEF TailTypeOK
  <2>3. QED
    BY <2>1, <2>2
<1>6. position' \in [Partitions -> 0..MaxPublished]
      /\ \A p \in Partitions : position'[p] \in 0..EndOf(p)
  <2>1. CASE AttachSeeks
    <3>1. position' = [p \in Partitions |-> Max({0, tail.ends[p] - BackfillEach})]
      BY <2>1 DEF AttachSeeks
    <3>2. ASSUME NEW p \in Partitions
          PROVE  /\ Max({0, tail.ends[p] - BackfillEach}) \in 0..MaxPublished
                 /\ Max({0, tail.ends[p] - BackfillEach}) \in 0..EndOf(p)
      <4>1. tail.ends[p] \in Nat /\ EndOf(p) \in Nat /\ tail.ends[p] <= EndOf(p)
            /\ EndOf(p) <= MaxPublished /\ BackfillEach \in Nat /\ MaxPublished \in Nat
        BY TailTypes, ShareFits, TailAssumption DEF HandsAreFree
      <4>2. Max({0, tail.ends[p] - BackfillEach})
                = IF tail.ends[p] >= BackfillEach THEN tail.ends[p] - BackfillEach ELSE 0
        BY <4>1, StartIs
      <4>3. QED
        BY <4>1, <4>2
    <3>3. QED
      BY <3>1, <3>2
  <2>2. CASE ~AttachSeeks
    <3>1. position' = position \/ position' = Zero
      BY <2>2 DEF Raises, Reports
    <3>2. position \in [Partitions -> 0..MaxPublished]
      BY DEF TailTypeOK
    <3>3. QED
      BY <3>1, <3>2, TailTypes, ZeroIs
  <2>3. QED
    BY <2>1, <2>2
<1>7. \A p \in Partitions : {tail'.ends[p], position'[p], until'[p]} \subseteq 0..EndOf(p)
  <2>1. SUFFICES ASSUME NEW p \in Partitions
                 PROVE  {tail'.ends[p], position'[p], until'[p]} \subseteq 0..EndOf(p)
    OBVIOUS
  <2>2. tail.ends[p] \in 0..EndOf(p) /\ until[p] \in 0..EndOf(p) /\ Zero[p] \in 0..EndOf(p)
    BY TailTypes, ZeroIs
  <2>3. QED
    BY <2>2, <1>4, <1>5, <1>6
<1>8. TailTypeOK'
  <2>1. \A p \in Partitions : EndOf(p)' = EndOf(p)
    BY <1>1 DEF EndOf
  <2>2. {position', until'} \subseteq [Partitions -> 0..MaxPublished]
    BY <1>5, <1>6
  <2>3. QED
    BY <1>1, <1>2, <1>3, <1>4, <1>7, <2>1, <2>2, Zenon DEF TailTypeOK, TailPcs
<1>9. batch = <<>> /\ decoding = <<>>
  BY <1>1 DEF HandsAreFree
<1>10. QED
  BY <1>1, <1>8, <1>9, HandsRest, Zenon

\* a poll,
LEMMA PollTypes ==
  ASSUME TailTypeOK, HandsAreFree, Poll
  PROVE  TailTypeOK' /\ HandsAreFree'
<1>1. batch = <<>> /\ decoding = <<>>
  BY DEF Poll, HandsAreFree
<1>2. UNCHANGED <<topic, log, tailState, until, decoding, buffer, lastSeq, attached, breaks>>
      /\ TailGoes("ingest")
  BY DEF Poll
<1>a. PICK k \in 1..BufferSize : \E b \in [1..k -> Partitions] : PollOf(k, b)
  BY DEF Poll, PollOf
<1>3. PICK b \in [1..k -> Partitions] : PollOf(k, b)
  BY <1>a
<1>4. batch' \in Seq(Partitions \X Nat) /\ Len(batch') = k
  <2>1. batch' \in Seq(Partitions \X Nat) /\ PollsInto(k, b)
    BY <1>1, <1>2, <1>3, FlowPolls
  <2>2. QED
    BY <2>1, Zenon DEF PollsInto
<1>5. Len(batch') <= BufferSize
  BY <1>4, TailAssumption
<1>6. tail'.pc = "ingest" /\ tail'.ends = tail.ends
      /\ tail' \in [pc : TailPcs, ends : [Partitions -> 0..MaxPublished]]
  <2>1. "ingest" \in TailPcs
    BY DEF TailPcs
  <2>2. QED
    BY <1>2, <2>1, TailMoves
<1>7. ASSUME NEW p \in Partitions
      PROVE  position'[p] \in 0..EndOf(p) /\ position'[p] \in 0..MaxPublished
  <2>1. position'[p] = position[p] + CountOf(b, p, k)
    BY <1>3 DEF PollOf, CountOf
  <2>2. CountOf(b, p, k) \in Nat
    <3>1. k \in Nat
      BY TailAssumption
    <3>2. QED
      BY <3>1, CountIs, Zenon
  <2>3. position'[p] <= EndOf(p)
    BY <1>3 DEF PollOf
  <2>4. position[p] \in Nat /\ EndOf(p) \in Nat /\ EndOf(p) <= MaxPublished
        /\ MaxPublished \in Nat
    BY TailTypes, TailAssumption DEF HandsAreFree
  <2>5. QED
    BY <2>1, <2>2, <2>3, <2>4
<1>8. position' \in [Partitions -> 0..MaxPublished]
  <2>1. position' = [p \in Partitions |-> position'[p]]
    BY <1>3 DEF PollOf
  <2>2. QED
    BY <1>7, <2>1
<1>9. \A p \in Partitions : {tail'.ends[p], position'[p], until'[p]} \subseteq 0..EndOf(p)
  <2>1. \A p \in Partitions : {tail.ends[p], position[p], until[p]} \subseteq 0..EndOf(p)
    BY DEF TailTypeOK
  <2>2. QED
    BY <1>2, <1>6, <1>7, <2>1
<1>10. TailTypeOK'
  <2>1. \A p \in Partitions : EndOf(p)' = EndOf(p)
    BY <1>2 DEF EndOf
  <2>2. {position', until'} \subseteq [Partitions -> 0..MaxPublished]
    BY <1>2, <1>8 DEF TailTypeOK
  <2>3. tail' \in [pc : TailPcs, ends : [Partitions -> 0..MaxPublished]]
    BY <1>6
  <2>4. UNCHANGED <<topic, log, tailState, until, decoding, buffer, lastSeq, attached, breaks>>
    BY <1>2
  <2>5. batch' \in Seq(Partitions \X Nat)
    BY <1>4
  <2>6. QED
    BY <1>5, <1>9, <2>1, <2>2, <2>3, <2>4, <2>5, Zenon DEF TailTypeOK, TailPcs
<1>11. HandsAreFree'
  <2>1. \A p \in Partitions : EndOf(p)' = EndOf(p)
    BY <1>2 DEF EndOf
  <2>2. QED
    BY <1>6, <2>1, Zenon DEF HandsAreFree
<1>12. QED
  BY <1>10, <1>11

\* and both halves of decoding.
LEMMA DecodeTypes ==
  ASSUME TailTypeOK, HandsAreFree, DecodeBegins \/ DecodeEnds
  PROVE  TailTypeOK' /\ HandsAreFree'
<1>1. UNCHANGED <<topic, log, tail, tailState, position, until, attached, breaks>>
  BY DEF DecodeBegins, DecodeEnds
<1>2. lastSeq' \in Nat
  <2>1. lastSeq \in Nat
    BY DEF TailTypeOK
  <2>2. lastSeq' = lastSeq \/ lastSeq' = lastSeq + 1
    BY DEF DecodeBegins, DecodeEnds
  <2>3. QED
    BY <2>1, <2>2
<1>3. batch' \in Seq(Partitions \X Nat) /\ Len(batch') <= BufferSize
  <2>1. CASE DecodeEnds
    BY <2>1 DEF DecodeEnds, TailTypeOK
  <2>2. CASE DecodeBegins
    <3>1. batch \in Seq(Partitions \X Nat) /\ batch # <<>> /\ batch' = Tail(batch)
          /\ Len(batch) <= BufferSize /\ BufferSize \in Nat
      BY <2>2, TailAssumption DEF DecodeBegins, TailTypeOK
    <3>2. batch' \in Seq(Partitions \X Nat)
      BY <3>1, HeadTailProperties
    <3>3. Len(batch') = Len(batch) - 1 /\ Len(batch) \in Nat
      BY <2>2, FlowBegins, TailTypes
    <3>4. QED
      BY <3>1, <3>2, <3>3
  <2>3. QED
    BY <2>1, <2>2
<1>4. decoding' \in Seq(Record) /\ Len(decoding') <= 1
  <2>1. CASE DecodeEnds
    BY <2>1 DEF DecodeEnds
  <2>2. CASE DecodeBegins
    <3>1. FlowLen' = FlowLen /\ Flow' = Flow /\ Len(decoding) = 0 /\ Len(batch) > 0
      BY <2>2, FlowBegins
    <3>2. FlowLen = Len(buffer) + Len(batch) /\ Len(buffer) \in Nat /\ Len(batch) \in Nat
      BY <3>1, TailTypes DEF FlowLen
    <3>3. Len(buffer) + 1 \in 1..FlowLen
      BY <3>1, <3>2
    <3>4. Flow[Len(buffer) + 1] = Coming(1)
      BY <3>1, <3>2, <3>3 DEF Flow
    <3>5. Coming(1) \in Record
      BY <3>3, <3>4, FlowType
    <3>6. decoding' = <<Coming(1)>>
      <4>1. Head(batch) = batch[1]
        OBVIOUS
      <4>2. QED
        BY <2>2, <4>1, Zenon DEF DecodeBegins, Coming
    <3>7. QED
      <4> HIDE DEF Coming
      <4>1. QED
        BY <3>5, <3>6
  <2>3. QED
    BY <2>1, <2>2
<1>5. buffer' \in Seq(Record) /\ Len(buffer') <= BufferSize
  <2>1. CASE DecodeBegins
    BY <2>1 DEF DecodeBegins, TailTypeOK
  <2>2. CASE DecodeEnds
    <3> DEFINE r == decoding[1]
               all == Append(buffer, r)
    <3>1. buffer \in Seq(Record) /\ Len(buffer) <= BufferSize
      BY DEF TailTypeOK
    <3>2. r \in Record
      <4>1. 1 \in 1..Len(decoding)
        BY <2>2, OneDecodes
      <4>2. QED
        BY <4>1, TailTypes
    <3>3. all \in Seq(Record) /\ Len(all) = Len(buffer) + 1
      BY <3>1, <3>2, AppendProperties
    <3>4. buffer' = SubSeq(all, IF Len(all) > BufferSize THEN 2 ELSE 1, Len(all))
      BY <2>2, Zenon DEF DecodeEnds, Appended
    <3>5. PICK d \in 0..1 : (d = 1 <=> Len(buffer) = BufferSize)
                            /\ Len(buffer') = Len(buffer) + 1 - d
      BY <2>2, FlowEnds
    <3>6. Len(buffer') <= BufferSize
      BY <3>1, <3>5, TailTypes, TailAssumption
    <3>7. buffer' \in Seq(Record)
      <4> HIDE DEF all
      <4>1. Len(all) \in Nat
        BY <3>3
      <4>2. \A i \in 1..2 : SubSeq(all, i, Len(all)) \in Seq(Record)
        BY <3>3, <4>1
      <4>3. QED
        BY <3>4, <4>2
    <3>8. QED
      BY <3>6, <3>7
  <2>3. QED
    BY <2>1, <2>2
<1>6. TailTypeOK'
  <2>1. \A p \in Partitions : EndOf(p)' = EndOf(p)
    BY <1>1 DEF EndOf
  <2>2. QED
    BY <1>1, <1>2, <1>3, <1>4, <1>5, <2>1, Zenon DEF TailTypeOK
<1>7. HandsAreFree'
  <2>1. \A p \in Partitions : EndOf(p)' = EndOf(p)
    BY <1>1 DEF EndOf
  <2>2. tail.pc = "ingest"
    <3>1. CASE DecodeBegins
      BY <3>1 DEF DecodeBegins
    <3>2. CASE DecodeEnds
      BY <3>2 DEF DecodeEnds, HandsAreFree
    <3>3. QED
      BY <3>1, <3>2
  <2>3. QED
    BY <1>1, <2>1, <2>2, Zenon DEF HandsAreFree
<1>8. QED
  BY <1>6, <1>7

-----------------------------------------------------------------------------
(* Every step keeps what is in hand in order *)

\* What the invariant says of the records in hand, apart from their count.
FlowInv ==
    FlowRuns /\ FlowReachesPosition /\ FlowIsFlagged /\ EndsPartTheLog /\ BackfillInHand

\* A step that leaves what is in hand, the attachment and the position alone.
LEMMA QuietReach ==
  ASSUME FlowInv, FlowLen' = FlowLen, Flow' = Flow, UNCHANGED <<attached, until>>,
         Going' => Going /\ position' = position
  PROVE  FlowRuns' /\ FlowReachesPosition' /\ BackfillInHand'
<1>2. \A p : Start(p)' = Start(p)
  BY DEF Start
<1>3. FlowRuns'
  BY Zenon DEF FlowInv, FlowRuns
<1>4. FlowReachesPosition'
  <2>1. CASE ~Going'
    BY <2>1 DEF FlowReachesPosition
  <2>2. CASE Going'
    BY <2>2, <1>2, Zenon DEF FlowInv, FlowReachesPosition
  <2>3. QED
    BY <2>1, <2>2
<1>7. BackfillInHand'
  <2>1. CASE ~Going'
    BY <2>1 DEF BackfillInHand, ReadsBack
  <2>2. CASE Going'
    <3>1. Going /\ position' = position /\ BackfillInHand
      BY <2>2 DEF FlowInv
    <3>2. ReadsBack' => ReadsBack
      BY <3>1, Zenon DEF ReadsBack
    <3>3. ASSUME NEW p \in Partitions, HasRead(p)
          PROVE  HasRead(p)'
      <4>1. Start(p)' = Start(p) /\ position'[p] = position[p]
        BY <1>2, <3>1
      <4>2. QED
        BY <3>3, <4>1, Zenon DEF HasRead
    <3>4. QED
      BY <3>1, <3>2, <3>3, Zenon DEF BackfillInHand
  <2>3. QED
    BY <2>1, <2>2
<1>8. QED
  BY <1>3, <1>4, <1>7

\* The log too.
LEMMA QuietFlow ==
  ASSUME FlowInv, FlowLen' = FlowLen, Flow' = Flow, UNCHANGED <<log, attached, until>>,
         tail'.pc # "seek", Going' => Going /\ position' = position
  PROVE  FlowInv'
<1>1. \A p \in Partitions : EndOf(p)' = EndOf(p)
  BY DEF EndOf
<1>2. FlowRuns' /\ FlowReachesPosition' /\ BackfillInHand'
  BY QuietReach
<1>5. FlowIsFlagged'
  <2>1. \A i \in 1..FlowLen : EndOf(Flow[i].partition)' = EndOf(Flow[i].partition)
    BY DEF EndOf
  <2>2. QED
    BY <2>1, Zenon DEF FlowInv, FlowIsFlagged, EndOf
<1>6. EndsPartTheLog'
  BY <1>1, Zenon DEF FlowInv, EndsPartTheLog
<1>8. QED
  BY <1>2, <1>5, <1>6 DEF FlowInv

\* The loop, where it neither reads the ends nor seeks.
LEMMA LoopFlow ==
  ASSUME TailInv, AttachWaits \/ Raises \/ Reports \/ Retries \/ IngestEnds
  PROVE  FlowCounts' /\ FlowInv'
<1>1. UNCHANGED <<log, batch, decoding, buffer, lastSeq, until, attached>>
  BY DEF AttachWaits, Raises, Reports, Retries, IngestEnds
<1>2. FlowLen' = FlowLen /\ Flow' = Flow
  BY <1>1, FlowStays DEF TailInv
<1>3. tail'.pc # "seek" /\ (Going' => Going /\ position' = position)
  <2>0. {"raised", "sleep", "attach", "poll"} \subseteq TailPcs
    BY DEF TailPcs
  <2>1. CASE AttachWaits
    BY <2>0, <2>1, TailMoves DEF AttachWaits, TailInv, Going
  <2>2. CASE Raises
    BY <2>2 DEF Raises, Going
  <2>3. CASE Reports
    BY <2>0, <2>3, TailMoves DEF Reports, TailInv, Going
  <2>4. CASE Retries
    BY <2>0, <2>4, TailMoves DEF Retries, TailInv, Going
  <2>5. CASE IngestEnds
    BY <2>0, <2>5, TailMoves DEF IngestEnds, TailInv, Going
  <2>6. QED
    BY <2>1, <2>2, <2>3, <2>4, <2>5
<1>4. FlowCounts'
  BY <1>1, <1>2, Zenon DEF TailInv, FlowCounts, LastDue
<1>5. QED
  BY <1>1, <1>2, <1>3, <1>4, QuietFlow DEF TailInv, FlowInv

\* A record goes from the batch to the decoder.
LEMMA BeginsFlow ==
  ASSUME TailInv, DecodeBegins
  PROVE  FlowCounts' /\ FlowInv'
<1>1. UNCHANGED <<log, tail, position, buffer, until, attached>> /\ lastSeq' = lastSeq + 1
      /\ tail.pc = "ingest"
  BY DEF DecodeBegins
<1>2. FlowLen' = FlowLen /\ Flow' = Flow /\ Len(batch') = Len(batch) - 1
      /\ Len(decoding) = 0 /\ Len(decoding') = 1 /\ Len(batch) > 0
  BY FlowBegins DEF TailInv
<1>3. Len(buffer) \in Nat /\ Len(batch) \in Nat /\ FlowLen \in Nat /\ lastSeq \in Nat
  BY TailTypes, FlowType DEF TailInv, TailTypeOK
<1>4. FlowCounts'
  <2>1. \A i \in 1..FlowLen : Flow[i].seq = LastDue - FlowLen + i
    BY DEF TailInv, FlowCounts
  <2>2. LastDue' = LastDue
    BY <1>1, <1>2, <1>3 DEF LastDue
  <2>3. \A i \in 1..FlowLen' : Flow'[i].seq = LastDue' - FlowLen' + i
    BY <1>2, <2>1, <2>2, Zenon
  <2>4. lastSeq' - Len(decoding') = lastSeq - Len(decoding) /\ Len(decoding') <= lastSeq'
    BY <1>1, <1>2, <1>3
  <2>5. Len(buffer) = IF lastSeq - Len(decoding) <= BufferSize
                      THEN lastSeq - Len(decoding) ELSE BufferSize
    BY DEF TailInv, FlowCounts
  <2>6. Len(buffer') = IF lastSeq' - Len(decoding') <= BufferSize
                       THEN lastSeq' - Len(decoding') ELSE BufferSize
    BY <1>1, <2>4, <2>5, Zenon
  <2>7. QED
    BY <2>3, <2>4, <2>6, Zenon DEF FlowCounts
<1>5. tail'.pc # "seek" /\ (Going' => Going /\ position' = position)
  BY <1>1 DEF Going
<1>6. QED
  BY <1>1, <1>2, <1>4, <1>5, QuietFlow DEF TailInv, FlowInv

\* A publication only adds to the log, past every end that was read.
LEMMA PublishFlow ==
  ASSUME TailInv, NEW q \in Partitions, Publish(q)
  PROVE  FlowCounts' /\ FlowInv'
<1>0. TailTypeOK /\ FlowInv
  BY DEF TailInv, FlowInv
<1>1. UNCHANGED <<tail, position, until, batch, decoding, buffer, lastSeq, attached>>
  BY DEF Publish
<1>2. FlowLen' = FlowLen /\ Flow' = Flow
  BY <1>0, <1>1, FlowStays
<1>3. FlowCounts'
  BY <1>1, <1>2, Zenon DEF TailInv, FlowCounts, LastDue
<1>4. FlowRuns' /\ FlowReachesPosition' /\ BackfillInHand'
  BY <1>0, <1>1, <1>2, QuietReach DEF Going
<1>5. FlowIsFlagged'
  <2>1. SUFFICES ASSUME NEW i \in 1..FlowLen
        PROVE  /\ Flow[i].in <= attached
               /\ tail.pc = "seek" => Flow[i].in < attached
               /\ Flow[i].offset < EndOf(Flow[i].partition)'
               /\ Flow[i].backfill <=>
                    log'[Flow[i].partition][Flow[i].offset + 1] < Flow[i].in
    BY <1>1, <1>2, Zenon DEF FlowIsFlagged, EndOf
  <2>2. PICK p \in Partitions : p = Flow[i].partition
    BY <1>0, FlowType
  <2>3. PICK o \in Nat : o = Flow[i].offset
    BY <1>0, FlowType
  <2>4. /\ Flow[i].in <= attached
        /\ tail.pc = "seek" => Flow[i].in < attached
        /\ o < EndOf(p)
        /\ Flow[i].backfill <=> log[p][o + 1] < Flow[i].in
    BY <2>2, <2>3, Zenon DEF TailInv, FlowIsFlagged
  <2>5. EndOf(p) \in Nat /\ EndOf(p)' \in Nat /\ EndOf(p) <= EndOf(p)'
        /\ \A k \in 1..EndOf(p) : log'[p][k] = log[p][k]
    BY <1>0, TailTypes, PublishIs
  <2>6. o < EndOf(p)' /\ o + 1 \in 1..EndOf(p)
    BY <2>4, <2>5
  <2>7. log'[p][o + 1] = log[p][o + 1]
    BY <2>5, <2>6, Zenon
  <2>8. EndOf(Flow[i].partition)' = EndOf(p)'
    BY <1>2, <2>2, Zenon DEF EndOf
  <2>9. QED
    BY <2>2, <2>3, <2>4, <2>6, <2>7, <2>8, Zenon
<1>6. EndsPartTheLog'
  <2>1. SUFFICES ASSUME NEW p \in Partitions, NEW k \in 1..EndOf(p)'
        PROVE  /\ tail.pc = "seek" => (k <= tail.ends[p] <=> log'[p][k] < attached)
               /\ Going            => (k <= until[p] <=> log'[p][k] < attached)
    BY <1>1, Zenon DEF EndsPartTheLog, Going
  <2>2. EndOf(p) \in Nat /\ EndOf(p)' \in Nat /\ tail.ends[p] \in Nat /\ until[p] \in Nat
        /\ tail.ends[p] <= EndOf(p) /\ until[p] <= EndOf(p) /\ attached \in Nat
    BY <1>0, TailTypes, PublishIs DEF TailTypeOK
  <2>3. CASE k <= EndOf(p)
    <3>1. k \in 1..EndOf(p)
      BY <2>2, <2>3
    <3>2. log'[p][k] = log[p][k]
      BY <1>0, <3>1, PublishIs
    <3>3. QED
      BY <3>1, <3>2, Zenon DEF TailInv, EndsPartTheLog
  <2>4. CASE ~(k <= EndOf(p))
    <3>1. log'[p][k] = attached
      BY <1>0, <2>4, PublishIs
    <3>2. ~(log'[p][k] < attached) /\ ~(k <= tail.ends[p]) /\ ~(k <= until[p])
      BY <2>2, <2>4, <3>1
    <3>3. QED
      BY <3>2
  <2>5. QED
    BY <2>3, <2>4
<1>7. QED
  BY <1>3, <1>4, <1>5, <1>6 DEF FlowInv

\* The ends that are read now part what is published from what will be.
LEMMA ReadsFlow ==
  ASSUME TailInv, AttachReads
  PROVE  FlowCounts' /\ FlowInv'
<1>0. TailTypeOK /\ HandsAreFree
  BY DEF TailInv
<1>1. UNCHANGED <<log, position, until, batch, decoding, buffer, lastSeq>>
      /\ attached' = attached + 1 /\ tail.pc = "attach" /\ tail'.pc = "seek"
      /\ tail'.ends = [p \in Partitions |-> EndOf(p)]
  BY DEF AttachReads
<1>2. FlowLen' = FlowLen /\ Flow' = Flow
  BY <1>0, <1>1, FlowStays DEF HandsAreFree
<1>3. FlowCounts'
  BY <1>1, <1>2, Zenon DEF TailInv, FlowCounts, LastDue
<1>4. FlowRuns'
  BY <1>2, Zenon DEF TailInv, FlowRuns
<1>5. ~Going'
  BY <1>1 DEF Going
<1>6. FlowReachesPosition' /\ BackfillInHand'
  BY <1>5 DEF FlowReachesPosition, BackfillInHand, ReadsBack
<1>7. FlowIsFlagged'
  <2>1. SUFFICES ASSUME NEW i \in 1..FlowLen
        PROVE  /\ Flow[i].in <= attached' /\ Flow[i].in < attached'
               /\ Flow[i].offset < EndOf(Flow[i].partition)
               /\ Flow[i].backfill <=>
                    log[Flow[i].partition][Flow[i].offset + 1] < Flow[i].in
    BY <1>1, <1>2, Zenon DEF FlowIsFlagged, EndOf
  <2>2. /\ Flow[i].in <= attached
        /\ Flow[i].offset < EndOf(Flow[i].partition)
        /\ Flow[i].backfill <=>
                    log[Flow[i].partition][Flow[i].offset + 1] < Flow[i].in
    BY DEF TailInv, FlowIsFlagged
  <2>3. Flow[i].in \in Nat /\ attached \in Nat
    BY <1>0, FlowType DEF TailTypeOK
  <2>4. Flow[i].in <= attached' /\ Flow[i].in < attached'
    BY <1>1, <2>2, <2>3
  <2>5. QED
    BY <2>2, <2>4, Zenon
<1>8. EndsPartTheLog'
  <2>1. SUFFICES ASSUME NEW p \in Partitions, NEW k \in 1..EndOf(p)
                 PROVE  k <= tail'.ends[p] <=> log[p][k] < attached'
    BY <1>1, <1>5, Zenon DEF EndsPartTheLog, EndOf
  <2>2. tail'.ends[p] = EndOf(p) /\ EndOf(p) \in Nat /\ log[p][k] \in Nat
        /\ log[p][k] <= attached /\ attached \in Nat
    BY <1>0, <1>1, TailTypes DEF TailTypeOK
  <2>3. QED
    BY <1>1, <2>2
<1>9. QED
  BY <1>3, <1>4, <1>6, <1>7, <1>8 DEF FlowInv

\* Seeking starts a new run at the share's first record.
LEMMA SeeksFlow ==
  ASSUME TailInv, AttachSeeks
  PROVE  FlowCounts' /\ FlowInv'
<1>0. TailTypeOK /\ HandsAreFree
  BY DEF TailInv
<1>1. UNCHANGED <<log, batch, decoding, buffer, lastSeq, attached>>
      /\ until' = tail.ends /\ tail.pc = "seek" /\ tail'.pc = "poll"
      /\ position' = [p \in Partitions |-> Max({0, tail.ends[p] - BackfillEach})]
  BY DEF AttachSeeks
<1>2. FlowLen' = FlowLen /\ Flow' = Flow
  BY <1>0, <1>1, FlowStays DEF HandsAreFree
<1>3. FlowCounts'
  BY <1>1, <1>2, Zenon DEF TailInv, FlowCounts, LastDue
<1>4. FlowRuns'
  BY <1>2, Zenon DEF TailInv, FlowRuns
<1>5. \A i \in 1..FlowLen : Flow[i].in # attached
  <2>1. SUFFICES ASSUME NEW i \in 1..FlowLen PROVE Flow[i].in # attached
    OBVIOUS
  <2>2. Flow[i].in < attached
    BY <1>1 DEF TailInv, FlowIsFlagged
  <2>3. Flow[i].in \in Nat /\ attached \in Nat
    BY <1>0, FlowType DEF TailTypeOK
  <2>4. QED
    BY <2>2, <2>3
<1>a. ASSUME NEW p \in Partitions
      PROVE  Start(p)' <= position'[p] /\ Start(p)'..(position'[p] - 1) = {}
  <2>1. tail.ends[p] \in Nat
    BY <1>0, TailTypes
  <2>2. Start(p)' = position'[p]
    BY <1>1 DEF Start, BackfillEach
  <2>3. position'[p] = Max({0, tail.ends[p] - BackfillEach}) /\ BackfillEach \in Nat
    BY <1>1, ShareFits
  <2>4. position'[p]
            = IF tail.ends[p] >= BackfillEach THEN tail.ends[p] - BackfillEach ELSE 0
    BY <2>1, <2>3, StartIs, Zenon
  <2>5. position'[p] \in Int
    BY <2>1, <2>3, <2>4
  <2>6. QED
    BY <2>2, <2>5
<1>6. FlowReachesPosition'
  BY <1>1, <1>2, <1>5, <1>a, Zenon DEF FlowReachesPosition
<1>7. FlowIsFlagged'
  <2>1. tail'.pc # "seek"
    BY <1>1
  <2>2. QED
    BY <1>1, <1>2, <2>1, Zenon DEF TailInv, FlowIsFlagged, EndOf
<1>8. EndsPartTheLog'
  <2>1. tail'.pc # "seek"
    BY <1>1
  <2>2. QED
    BY <1>1, <2>1, Zenon DEF TailInv, EndsPartTheLog, EndOf
<1>9. BackfillInHand'
  <2>1. ASSUME NEW p \in Partitions PROVE HasRead(p)'
    BY <1>a, Zenon DEF HasRead
  <2>2. QED
    BY <2>1, Zenon DEF BackfillInHand
<1>10. QED
  BY <1>3, <1>4, <1>6, <1>7, <1>8, <1>9 DEF FlowInv

\* While an attachment reads back, what it has read fits in the buffer: there are
\* no more records than places in the partitions' shares.
LEMMA BackfillFits ==
  ASSUME TailInv, ReadsBack, FlowLen > 0, Flow[1].in = attached
  PROVE  FlowLen <= BufferSize
<1> DEFINE E     == BackfillEach
           place == [i \in 1..FlowLen |->
                        <<Flow[i].partition, Flow[i].offset - Start(Flow[i].partition) + 1>>]
           shares == Partitions \X (1..E)
<1>0. TailTypeOK /\ FlowLen \in Nat /\ attached \in Nat
  BY FlowType DEF TailInv, TailTypeOK
<1>1. ASSUME NEW i \in 1..FlowLen PROVE Flow[i].in = attached
  <2>1. Flow[i].in <= attached /\ Flow[i].in \in Nat /\ Flow[1].in \in Nat
    BY <1>0, FlowType DEF TailInv, FlowIsFlagged
  <2>2. i = 1 \/ Flow[1].in <= Flow[i].in
    <3>1. 1 \in 1..FlowLen /\ (i = 1 \/ 1 < i)
      BY <1>0
    <3>2. QED
      BY <3>1, Zenon DEF TailInv, FlowRuns
  <2>3. QED
    BY <1>0, <2>1, <2>2
<1>2. ASSUME NEW p \in Partitions
      PROVE  Start(p) \in Nat /\ until[p] - Start(p) <= E /\ position[p] <= until[p]
             /\ position[p] \in Nat /\ until[p] \in Nat /\ E \in Nat
  <2>1. until[p] \in Nat /\ position[p] \in Nat /\ E \in Nat
    BY <1>0, TailTypes, ShareFits
  <2>2. Start(p) = IF until[p] >= E THEN until[p] - E ELSE 0
    BY <2>1, StartIs, Zenon DEF Start
  <2>3. position[p] <= until[p]
    BY DEF ReadsBack
  <2>4. QED
    <3> HIDE DEF E
    <3>1. QED
      BY <2>1, <2>2, <2>3
<1>3. ASSUME NEW i \in 1..FlowLen
      PROVE  /\ Flow[i].partition \in Partitions /\ Flow[i].offset \in Nat
             /\ Flow[i].offset - Start(Flow[i].partition) + 1 \in 1..E
  <2>1. Flow[i].partition \in Partitions /\ Flow[i].offset \in Nat
    BY <1>0, FlowType
  <2>2. /\ Start(Flow[i].partition) <= Flow[i].offset
        /\ Flow[i].offset < position[Flow[i].partition]
    BY <1>1, Zenon DEF TailInv, FlowReachesPosition, ReadsBack
  <2>3. PICK p \in Partitions : p = Flow[i].partition
    BY <2>1
  <2>4. Start(p) \in Nat /\ until[p] - Start(p) <= E /\ position[p] <= until[p]
             /\ position[p] \in Nat /\ until[p] \in Nat /\ E \in Nat
    BY <1>2
  <2>5. Flow[i].offset - Start(p) + 1 \in 1..E
    <3> HIDE DEF E
    <3>1. QED
      BY <2>1, <2>2, <2>3, <2>4
  <2>6. QED
    BY <2>1, <2>3, <2>5, Zenon
<1>4. place \in [1..FlowLen -> shares]
  BY <1>3, Zenon
<1>5. ASSUME NEW i \in 1..FlowLen, NEW j \in 1..FlowLen, i < j
      PROVE  place[i] # place[j]
  <2>1. SUFFICES ASSUME Flow[i].partition = Flow[j].partition,
                        Flow[i].offset - Start(Flow[i].partition) + 1
                            = Flow[j].offset - Start(Flow[j].partition) + 1
                 PROVE  FALSE
    BY Zenon
  <2>2. Alike(Flow[i], Flow[j])
    BY <1>1, <2>1, Zenon DEF Alike
  <2>3. Flow[i].offset < Flow[j].offset
    BY <1>5, <2>2, Zenon DEF TailInv, FlowRuns
  <2>4. PICK s \in Nat : s = Start(Flow[i].partition)
    BY <1>2, <1>3
  <2>5. Flow[i].offset \in Nat /\ Flow[j].offset \in Nat
        /\ Flow[i].offset - s + 1 = Flow[j].offset - s + 1
    BY <1>3, <2>1, <2>4
  <2>6. QED
    BY <2>3, <2>5
<1>6. place \in Injection(1..FlowLen, shares)
  <2> HIDE DEF place, shares
  <2>1. \A i, j \in 1..FlowLen : place[i] = place[j] => i = j
    <3>1. \A i, j \in 1..FlowLen : i = j \/ i < j \/ j < i
      BY <1>0
    <3>2. QED
      BY <1>5, <3>1, Zenon
  <2>2. QED
    BY <1>4, <2>1, Zenon DEF Injection, IsInjective
<1>7. IsFiniteSet(shares) /\ Cardinality(shares) = Cardinality(Partitions) * E
  <2>1. E \in Nat /\ E > 0
    BY ShareFits
  <2>2. IsFiniteSet(1..E) /\ Cardinality(1..E) = E
    <3> HIDE DEF E
    <3>1. QED
      BY <2>1, FS_Interval
  <2>3. QED
    <3> HIDE DEF E
    <3>1. QED
      BY <2>2, TailAssumption, FS_Product
<1>8. Cardinality(1..FlowLen) <= Cardinality(shares)
  <2> HIDE DEF place, shares
  <2>1. QED
    BY <1>6, <1>7, FS_Injection
<1>9. Cardinality(1..FlowLen) = FlowLen
  BY <1>0, FS_Interval
<1>10. Cardinality(Partitions) * E <= BufferSize
  BY ShareFits DEF ReadsBack
<1>11. FlowLen <= Cardinality(Partitions) * E /\ Cardinality(Partitions) * E \in Nat
  <2> HIDE DEF shares
  <2>1. Cardinality(shares) \in Nat
    BY <1>7, FS_CardinalityType
  <2>2. QED
    <3> HIDE DEF E
    <3>1. QED
      BY <1>7, <1>8, <1>9, <2>1, Zenon
<1>12. QED
  <2> HIDE DEF E
  <2>1. BufferSize \in Nat
    BY TailAssumption
  <2>2. QED
    BY <1>0, <1>10, <1>11, <2>1

\* A record goes from the decoder to the buffer.
LEMMA EndsFlow ==
  ASSUME TailInv, DecodeEnds
  PROVE  FlowCounts' /\ FlowInv'
<1>0. TailTypeOK /\ FlowLen \in Nat /\ lastSeq \in Nat /\ BufferSize \in Nat
  BY FlowType, TailAssumption DEF TailInv, TailTypeOK
<1>1. UNCHANGED <<log, tail, position, until, attached, batch, lastSeq>>
  BY DEF DecodeEnds
<1>2. PICK d \in 0..1 :
        /\ d = 1 <=> Len(buffer) = BufferSize
        /\ Len(decoding) = 1 /\ Len(decoding') = 0 /\ batch' = batch
        /\ Len(buffer') = Len(buffer) + 1 - d
        /\ FlowLen' = FlowLen - d
        /\ \A i \in 1..FlowLen' : i + d \in 1..FlowLen /\ Flow'[i] = Flow[i + d]
  BY <1>0, FlowEnds
<1>3. /\ FlowLen' = FlowLen - d
      /\ \A i \in 1..FlowLen' : i \in Int /\ i + d \in 1..FlowLen /\ Flow'[i] = Flow[i + d]
      /\ d \in Int /\ FlowLen' \in Int
  BY <1>0, <1>2
<1>4. FlowCounts'
  <2>1. LastDue' = LastDue /\ LastDue \in Int
    <3>1. Len(batch) \in Nat
      BY <1>0, TailTypes
    <3>2. QED
      BY <1>0, <1>1, <3>1 DEF LastDue
  <2>2. ASSUME NEW i \in 1..FlowLen' PROVE Flow'[i].seq = LastDue' - FlowLen' + i
    <3>1. Flow'[i].seq = LastDue - FlowLen + (i + d)
      BY <1>3, Zenon DEF TailInv, FlowCounts
    <3>2. LastDue - FlowLen + (i + d) = LastDue' - FlowLen' + i
      BY <1>0, <1>3, <2>1
    <3>3. QED
      BY <3>1, <3>2, Zenon
  <2>3. /\ Len(decoding) <= lastSeq
        /\ Len(buffer) = IF lastSeq - Len(decoding) <= BufferSize
                     THEN lastSeq - Len(decoding) ELSE BufferSize
    BY DEF TailInv, FlowCounts
  <2>4. PICK n \in Nat : n = Len(buffer)
    BY <1>0, TailTypes
  <2>5. PICK m \in Nat : m = Len(buffer')
    <3>2. n + 1 - d \in Nat /\ Len(buffer') = n + 1 - d
      BY <1>2, <2>4
    <3>3. QED
      BY <3>2
  <2>6. 1 <= lastSeq /\ n = (IF lastSeq - 1 <= BufferSize THEN lastSeq - 1 ELSE BufferSize)
        /\ (d = 1 <=> n = BufferSize) /\ m = n + 1 - d
    BY <1>2, <2>3, <2>4, <2>5, Zenon
  <2>7. m = IF lastSeq - 0 <= BufferSize THEN lastSeq - 0 ELSE BufferSize
    BY <1>0, <1>2, <2>6
  <2>8. Len(buffer') = IF lastSeq' - Len(decoding') <= BufferSize
                     THEN lastSeq' - Len(decoding') ELSE BufferSize
    BY <1>1, <1>2, <2>5, <2>7, Zenon
  <2>9. Len(decoding') <= lastSeq'
    BY <1>0, <1>1, <1>2
  <2>10. QED
    BY <2>2, <2>8, <2>9, Zenon DEF FlowCounts
<1>5. FlowRuns'
  <2>1. SUFFICES ASSUME NEW i \in 1..FlowLen', NEW j \in 1..FlowLen', i < j
        PROVE  /\ Flow'[i].in <= Flow'[j].in
               /\ Alike(Flow'[i], Flow'[j]) => Flow'[i].offset < Flow'[j].offset
               /\ /\ Alike(Flow'[i], Flow'[j])
                  /\ \A k \in (i + 1)..(j - 1) : ~Alike(Flow'[i], Flow'[k])
                  => Flow'[j].offset = Flow'[i].offset + 1
    BY Zenon DEF FlowRuns, Alike
  <2>2. i + d \in 1..FlowLen /\ j + d \in 1..FlowLen /\ i + d < j + d
        /\ Flow'[i] = Flow[i + d] /\ Flow'[j] = Flow[j + d]
    BY <1>3, <2>1
  <2>3. /\ Flow[i + d].in <= Flow[j + d].in
        /\ Alike(Flow[i + d], Flow[j + d]) => Flow[i + d].offset < Flow[j + d].offset
        /\ /\ Alike(Flow[i + d], Flow[j + d])
           /\ \A k \in (i + d + 1)..(j + d - 1) : ~Alike(Flow[i + d], Flow[k])
           => Flow[j + d].offset = Flow[i + d].offset + 1
    <3>1. PICK x \in 1..FlowLen : x = i + d
      BY <2>2
    <3>2. PICK y \in 1..FlowLen : y = j + d
      BY <2>2
    <3>3. x < y
      BY <2>2, <3>1, <3>2
    <3>4. /\ Flow[x].in <= Flow[y].in
          /\ Alike(Flow[x], Flow[y]) => Flow[x].offset < Flow[y].offset
          /\ /\ Alike(Flow[x], Flow[y])
             /\ \A k \in (x + 1)..(y - 1) : ~Alike(Flow[x], Flow[k])
             => Flow[y].offset = Flow[x].offset + 1
      BY <3>3, Zenon DEF TailInv, FlowRuns
    <3>5. x + 1 = i + d + 1 /\ y - 1 = j + d - 1
      BY <1>3, <2>1, <3>1, <3>2
    <3>6. QED
      BY <3>1, <3>2, <3>4, <3>5, Zenon
  <2>4. ASSUME \A k \in (i + 1)..(j - 1) : ~Alike(Flow'[i], Flow'[k])
        PROVE  \A k \in (i + d + 1)..(j + d - 1) : ~Alike(Flow[i + d], Flow[k])
    <3>1. SUFFICES ASSUME NEW k \in (i + d + 1)..(j + d - 1)
                   PROVE  ~Alike(Flow[i + d], Flow[k])
      OBVIOUS
    <3>2. PICK h \in (i + 1)..(j - 1) : h = k - d
      <4>1. k - d \in (i + 1)..(j - 1)
        BY <1>3, <2>1
      <4>2. QED
        BY <4>1
    <3>3. h \in 1..FlowLen' /\ h + d = k
      BY <1>3, <2>1, <3>2
    <3>4. Flow'[h] = Flow[k]
      BY <1>3, <3>3
    <3>5. QED
      BY <2>2, <2>4, <3>4, Zenon
  <2>5. QED
    BY <2>2, <2>3, <2>4, Zenon
<1>6. FlowReachesPosition'
  <2>0. \A p : Start(p)' = Start(p)
    BY <1>1 DEF Start
  <2>1. SUFFICES ASSUME Going, NEW i \in 1..FlowLen', Flow'[i].in = attached
        PROVE  /\ Start(Flow'[i].partition) <= Flow'[i].offset
               /\ Flow'[i].offset < position[Flow'[i].partition]
               /\ (\A k \in (i + 1)..FlowLen' : ~Alike(Flow'[i], Flow'[k]))
                    => Flow'[i].offset + 1 = position[Flow'[i].partition]
    <3>1. Going' = Going
      BY <1>1 DEF Going
    <3>2. Going => \A p \in Partitions : Start(p) <= position[p]
      BY DEF TailInv, FlowReachesPosition
    <3>3. QED
      BY <1>1, <2>0, <3>1, <3>2, Zenon DEF FlowReachesPosition, Alike
  <2>2. i + d \in 1..FlowLen /\ Flow'[i] = Flow[i + d]
    BY <1>3
  <2>3. /\ Start(Flow[i + d].partition) <= Flow[i + d].offset
        /\ Flow[i + d].offset < position[Flow[i + d].partition]
        /\ (\A k \in (i + d + 1)..FlowLen : ~Alike(Flow[i + d], Flow[k]))
                    => Flow[i + d].offset + 1 = position[Flow[i + d].partition]
    BY <2>1, <2>2, Zenon DEF TailInv, FlowReachesPosition
  <2>4. ASSUME \A k \in (i + 1)..FlowLen' : ~Alike(Flow'[i], Flow'[k])
        PROVE  \A k \in (i + d + 1)..FlowLen : ~Alike(Flow[i + d], Flow[k])
    <3>1. SUFFICES ASSUME NEW k \in (i + d + 1)..FlowLen
                   PROVE  ~Alike(Flow[i + d], Flow[k])
      OBVIOUS
    <3>2. PICK h \in (i + 1)..FlowLen' : h = k - d
      <4>1. k - d \in (i + 1)..FlowLen'
        BY <1>0, <1>3
      <4>2. QED
        BY <4>1
    <3>3. h \in 1..FlowLen' /\ h + d = k
      BY <1>0, <1>3, <3>2
    <3>4. Flow'[h] = Flow[k]
      BY <1>3, <3>3
    <3>5. QED
      BY <2>2, <2>4, <3>4, Zenon
  <2>5. QED
    BY <2>2, <2>3, <2>4, Zenon
<1>7. FlowIsFlagged'
  <2>1. SUFFICES ASSUME NEW i \in 1..FlowLen'
        PROVE  /\ Flow'[i].in <= attached
               /\ tail.pc = "seek" => Flow'[i].in < attached
               /\ Flow'[i].offset < Len(log[Flow'[i].partition])
               /\ Flow'[i].backfill <=>
                    log[Flow'[i].partition][Flow'[i].offset + 1] < Flow'[i].in
    BY <1>1, Zenon DEF FlowIsFlagged, EndOf
  <2>2. i + d \in 1..FlowLen /\ Flow'[i] = Flow[i + d]
    BY <1>3
  <2>3. QED
    BY <2>2, Zenon DEF TailInv, FlowIsFlagged, EndOf
<1>8. EndsPartTheLog'
  BY <1>1, Zenon DEF TailInv, EndsPartTheLog, EndOf, Going
<1>9. BackfillInHand'
  <2>1. ReadsBack' => ReadsBack
    BY <1>1, Zenon DEF ReadsBack, Going
  <2>2. ASSUME ReadsBack, NEW p \in Partitions, HasRead(p)
        PROVE  HasRead(p)'
    <3>1. Start(p)' = Start(p)
      BY <1>1 DEF Start
    <3>2. SUFFICES ASSUME NEW o \in Start(p)..(position[p] - 1)
          PROVE  \E i \in 1..FlowLen' :
                    Flow'[i].in = attached /\ Flow'[i].partition = p /\ Flow'[i].offset = o
      BY <1>1, <3>1, Zenon DEF HasRead
    <3>3. PICK j \in 1..FlowLen :
                    Flow[j].in = attached /\ Flow[j].partition = p /\ Flow[j].offset = o
      BY <2>2, Zenon DEF HasRead
    <3>4. d = 0 \/ j # 1
      <4>1. SUFFICES ASSUME d = 1, j = 1 PROVE FALSE
        BY <1>2
      <4>2. FlowLen > 0 /\ Flow[1].in = attached
        BY <1>0, <3>3, <4>1
      <4>3. FlowLen <= BufferSize
        BY <2>2, <4>2, BackfillFits
      <4>4. FlowLen = BufferSize + 1 + Len(batch) /\ Len(batch) \in Nat
        BY <1>0, <1>2, <4>1, TailTypes DEF FlowLen
      <4>5. QED
        BY <1>0, <4>3, <4>4
    <3>5. PICK i \in 1..FlowLen' : i = j - d
      <4>1. j - d \in 1..FlowLen'
        BY <1>0, <1>2, <3>4
      <4>2. QED
        BY <4>1
    <3>6. Flow'[i] = Flow[j]
      <4>1. i + d = j
        BY <1>3, <3>5
      <4>2. QED
        BY <1>3, <4>1
    <3>7. QED
      BY <3>3, <3>6, Zenon
  <2>3. QED
    BY <2>1, <2>2, Zenon DEF TailInv, BackfillInHand
<1>10. QED
  BY <1>4, <1>5, <1>6, <1>7, <1>8, <1>9 DEF FlowInv

\* A set of naturals has a least one.
LEMMA LeastCount ==
  ASSUME NEW S \in SUBSET Nat, S # {}
  PROVE  \E x \in S : \A y \in S : x <= y
<1> DEFINE R == OpToRel(<, Nat)
<1>1. IsWellFoundedOn(R, Nat)
  BY NatLessThanWellFounded
<1>2. PICK x \in S : \A y \in S : ~(<<y, x>> \in R)
  <2> HIDE DEF R
  <2>1. QED
    BY <1>1, WFMin
<1>3. R = {ss \in Nat \X Nat : ss[1] < ss[2]}
  BY DEF OpToRel
<1>4. \A y \in S : ~(y < x)
  <2> HIDE DEF R
  <2>1. QED
    BY <1>2, <1>3
<1>5. QED
  BY <1>4

\* Among the first k of a poll, every count below the last is some record's.
LEMMA CountReaches ==
  ASSUME NEW b, NEW p, NEW k \in Nat, NEW c \in Nat, c < CountOf(b, p, k)
  PROVE  \E m \in 1..k : b[m] = p /\ CountOf(b, p, m - 1) = c
<1> DEFINE C(n) == CountOf(b, p, n)
           S    == {n \in Nat : n <= k /\ c < C(n)}
<1>0. \A n \in Nat : /\ C(n) \in Nat /\ (n = 0 => C(n) = 0)
                     /\ b[n + 1] = p => C(n + 1) = C(n) + 1
                     /\ b[n + 1] # p => C(n + 1) = C(n)
  BY CountIs, Zenon
<1> HIDE DEF C
<1>1. k \in S
  BY DEF C
<1>2. PICK n \in S : \A y \in S : n <= y
  BY <1>1, LeastCount
<1>3. n \in Nat /\ n <= k /\ c < C(n)
  BY <1>2
<1>4. n # 0
  BY <1>0, <1>3
<1>5. n - 1 \in Nat /\ n - 1 \notin S /\ (n - 1) + 1 = n /\ n \in 1..k
  BY <1>2, <1>3, <1>4
<1>6. ~(c < C(n - 1)) /\ C(n - 1) \in Nat
  BY <1>0, <1>3, <1>5
<1>7. b[n] = p /\ C(n) = C(n - 1) + 1
  BY <1>0, <1>3, <1>5, <1>6
<1>8. C(n - 1) = c
  BY <1>3, <1>6, <1>7
<1>9. QED
  BY <1>5, <1>7, <1>8 DEF C

\* A polled record is between the old position and the new.
LEMMA PolledOffset ==
  ASSUME NEW b, NEW p, NEW k \in Nat, NEW m \in 1..k, b[m] = p
  PROVE  /\ CountOf(b, p, m - 1) \in Nat /\ CountOf(b, p, m) \in Nat
         /\ CountOf(b, p, k) \in Nat
         /\ CountOf(b, p, m) = CountOf(b, p, m - 1) + 1
         /\ CountOf(b, p, m) <= CountOf(b, p, k)
<1>1. m - 1 \in Nat /\ m \in Nat /\ (m - 1) + 1 = m /\ m <= k
  OBVIOUS
<1>2. \A n \in Nat : CountOf(b, p, n) \in Nat
                     /\ (b[n + 1] = p => CountOf(b, p, n + 1) = CountOf(b, p, n) + 1)
  BY CountIs, Zenon
<1>3. CountOf(b, p, m) <= CountOf(b, p, k)
  BY <1>1, CountGrows
<1>4. CountOf(b, p, m) = CountOf(b, p, m - 1) + 1
  BY <1>1, <1>2
<1>5. QED
  BY <1>1, <1>2, <1>3, <1>4

\* Every poll is one of those.
LEMMA PollIs ==
  ASSUME TailInv, Poll
  PROVE  \E k \in 1..BufferSize : \E b \in [1..k -> Partitions] : PollsInto(k, b)
<1>0. TailTypeOK /\ batch = <<>> /\ decoding = <<>>
  BY DEF TailInv, HandsAreFree, Poll
<1>1. UNCHANGED <<buffer, decoding, until, attached, lastSeq>>
  BY DEF Poll
<1>2. PICK k \in 1..BufferSize : \E b \in [1..k -> Partitions] : PollOf(k, b)
  BY DEF Poll, PollOf
<1>3. PICK b \in [1..k -> Partitions] : PollOf(k, b)
  BY <1>2
<1>4. PollsInto(k, b)
  BY <1>0, <1>1, <1>3, FlowPolls
<1>5. QED
  BY <1>4

\* The runs go on where the consumer's position was.
LEMMA PollRuns ==
  ASSUME TailInv, Poll
  PROVE  FlowRuns'
<1>0. TailTypeOK /\ Going
  BY DEF TailInv, Poll, Going
<1>1. PICK k \in 1..BufferSize : \E b \in [1..k -> Partitions] : PollsInto(k, b)
  BY PollIs
<1>a. PICK b \in [1..k -> Partitions] : PollsInto(k, b)
  BY <1>1
<1>2. /\ FlowLen \in Nat
      /\ \A i \in 1..FlowLen : i \in 1..FlowLen' /\ Flow'[i] = Flow[i]
      /\ \A j \in 1..FlowLen' : j \in 1..FlowLen \/ \E m \in 1..k : j = FlowLen + m
      /\ \A m \in 1..k :
                /\ FlowLen + m \in 1..FlowLen' /\ b[m] \in Partitions
                /\ Flow'[FlowLen + m].partition = b[m]
                /\ Flow'[FlowLen + m].offset = position[b[m]] + CountOf(b, b[m], m - 1)
                /\ Flow'[FlowLen + m].in = attached
  BY <1>a, Zenon DEF PollsInto
<1>3. k \in Nat
  BY TailAssumption
<1>4. SUFFICES ASSUME NEW i \in 1..FlowLen', NEW j \in 1..FlowLen', i < j
        PROVE  /\ Flow'[i].in <= Flow'[j].in
               /\ Alike(Flow'[i], Flow'[j]) => Flow'[i].offset < Flow'[j].offset
               /\ /\ Alike(Flow'[i], Flow'[j])
                  /\ \A h \in (i + 1)..(j - 1) : ~Alike(Flow'[i], Flow'[h])
                  => Flow'[j].offset = Flow'[i].offset + 1
  BY Zenon DEF FlowRuns, Alike
<1>5. CASE j \in 1..FlowLen
  <2>1. i \in 1..FlowLen /\ \A h \in (i + 1)..(j - 1) : h \in 1..FlowLen
    BY <1>2, <1>4, <1>5
  <2>2. Flow'[i] = Flow[i] /\ Flow'[j] = Flow[j]
        /\ \A h \in (i + 1)..(j - 1) : Flow'[h] = Flow[h]
    BY <1>2, <1>5, <2>1, Zenon
  <2>3. /\ Flow[i].in <= Flow[j].in
        /\ Alike(Flow[i], Flow[j]) => Flow[i].offset < Flow[j].offset
        /\ /\ Alike(Flow[i], Flow[j])
           /\ \A h \in (i + 1)..(j - 1) : ~Alike(Flow[i], Flow[h])
           => Flow[j].offset = Flow[i].offset + 1
    BY <1>4, <1>5, <2>1, Zenon DEF TailInv, FlowRuns
  <2>4. QED
    BY <2>2, <2>3, Zenon
<1>6. ASSUME NEW m \in 1..k, j = FlowLen + m, i \in 1..FlowLen
      PROVE  /\ Flow'[i].in <= Flow'[j].in
             /\ Alike(Flow'[i], Flow'[j]) => Flow'[i].offset < Flow'[j].offset
             /\ /\ Alike(Flow'[i], Flow'[j])
                /\ \A h \in (i + 1)..(j - 1) : ~Alike(Flow'[i], Flow'[h])
                => Flow'[j].offset = Flow'[i].offset + 1
  <2> DEFINE p == b[m]
  <2>1. Flow'[i] = Flow[i] /\ Flow'[j].in = attached /\ Flow'[j].partition = p
        /\ Flow'[j].offset = position[p] + CountOf(b, p, m - 1) /\ p \in Partitions
    BY <1>2, <1>6, Zenon
  <2>2. Flow[i].in <= attached /\ Flow[i].offset \in Nat /\ position[p] \in Nat
    BY <1>0, <1>6, <2>1, FlowType, TailTypes DEF TailInv, FlowIsFlagged
  <2>3. CountOf(b, p, m - 1) \in Nat
    BY <1>3, PolledOffset, Zenon
  <2>4. ASSUME Alike(Flow'[i], Flow'[j])
        PROVE  Flow[i].in = attached /\ Flow[i].partition = p
    BY <2>1, <2>4, Zenon DEF Alike
  <2>5. ASSUME Alike(Flow'[i], Flow'[j])
        PROVE  Flow'[i].offset < Flow'[j].offset
    <3>1. Flow[i].offset < position[p]
      BY <1>0, <1>6, <2>4, <2>5, Zenon DEF TailInv, FlowReachesPosition
    <3>2. QED
      <4> HIDE DEF p
      <4>1. QED
        BY <2>1, <2>2, <2>3, <3>1
  <2>6. ASSUME Alike(Flow'[i], Flow'[j]),
               \A h \in (i + 1)..(j - 1) : ~Alike(Flow'[i], Flow'[h])
        PROVE  Flow'[j].offset = Flow'[i].offset + 1
    <3>0. Flow[i].in = attached /\ Flow[i].partition = p
      BY <2>4, <2>6
    <3>1. \A h \in (i + 1)..FlowLen : ~Alike(Flow[i], Flow[h])
      <4>1. SUFFICES ASSUME NEW h \in (i + 1)..FlowLen PROVE ~Alike(Flow[i], Flow[h])
        OBVIOUS
      <4>2. h \in (i + 1)..(j - 1) /\ h \in 1..FlowLen
        BY <1>2, <1>3, <1>6
      <4>3. Flow'[h] = Flow[h]
        BY <1>2, <4>2, Zenon
      <4>4. QED
        BY <2>1, <2>6, <4>2, <4>3, Zenon
    <3>2. Flow[i].offset + 1 = position[p]
      BY <1>0, <1>6, <3>0, <3>1, Zenon DEF TailInv, FlowReachesPosition
    <3>3. \A l \in 1..(m - 1) : b[l] # p
      <4>1. SUFFICES ASSUME NEW l \in 1..(m - 1), b[l] = p PROVE FALSE
        OBVIOUS
      <4>2. l \in 1..k /\ FlowLen + l \in (i + 1)..(j - 1)
        BY <1>2, <1>3, <1>6
      <4>3. Flow'[FlowLen + l].partition = p /\ Flow'[FlowLen + l].in = attached
        BY <1>2, <4>1, <4>2, Zenon
      <4>4. Alike(Flow'[i], Flow'[FlowLen + l])
        BY <2>1, <3>0, <4>3, Zenon DEF Alike
      <4>5. QED
        BY <2>6, <4>2, <4>4, Zenon
    <3>4. CountOf(b, p, m - 1) = 0
      <4> HIDE DEF p
      <4>1. m - 1 \in Nat /\ 0 \in Nat /\ 0 <= m - 1 /\ \A l \in (0 + 1)..(m - 1) : b[l] # p
        BY <1>3, <3>3
      <4>2. CountOf(b, p, 0) = 0
        BY CountIs
      <4>3. CountOf(b, p, 0) = CountOf(b, p, m - 1)
        BY <4>1, CountRests
      <4>4. QED
        BY <4>2, <4>3
    <3>5. QED
      <4> HIDE DEF p
      <4>1. QED
        BY <2>1, <2>2, <3>2, <3>4
  <2>7. Flow'[i].in <= Flow'[j].in
    BY <2>1, <2>2, Zenon
  <2>8. QED
    BY <2>5, <2>6, <2>7
<1>7. ASSUME NEW m \in 1..k, j = FlowLen + m, NEW l \in 1..k, i = FlowLen + l
      PROVE  /\ Flow'[i].in <= Flow'[j].in
             /\ Alike(Flow'[i], Flow'[j]) => Flow'[i].offset < Flow'[j].offset
             /\ /\ Alike(Flow'[i], Flow'[j])
                /\ \A h \in (i + 1)..(j - 1) : ~Alike(Flow'[i], Flow'[h])
                => Flow'[j].offset = Flow'[i].offset + 1
  <2> DEFINE p == b[m]
  <2>1. Flow'[j].in = attached /\ Flow'[j].partition = p
        /\ Flow'[j].offset = position[p] + CountOf(b, p, m - 1) /\ p \in Partitions
    BY <1>2, <1>7, Zenon
  <2>2. Flow'[i].in = attached /\ Flow'[i].partition = b[l]
        /\ Flow'[i].offset = position[b[l]] + CountOf(b, b[l], l - 1)
    BY <1>2, <1>7, Zenon
  <2>3. position[p] \in Nat /\ attached \in Nat
    BY <1>0, <2>1, TailTypes DEF TailTypeOK
  <2>4. l \in Nat /\ m - 1 \in Nat /\ l <= m - 1
    BY <1>2, <1>3, <1>4, <1>7
  <2>5. Alike(Flow'[i], Flow'[j]) => b[l] = p
    BY <2>1, <2>2, Zenon DEF Alike
  <2>6. ASSUME b[l] = p
        PROVE  /\ CountOf(b, p, l - 1) \in Nat /\ CountOf(b, p, l) = CountOf(b, p, l - 1) + 1
               /\ CountOf(b, p, m - 1) \in Nat /\ CountOf(b, p, l) <= CountOf(b, p, m - 1)
    <3> HIDE DEF p
    <3>1. CountOf(b, p, l - 1) \in Nat /\ CountOf(b, p, l) = CountOf(b, p, l - 1) + 1
      BY <1>3, <2>6, PolledOffset
    <3>2. CountOf(b, p, m - 1) \in Nat
      BY <2>4, CountIs
    <3>3. CountOf(b, p, l) <= CountOf(b, p, m - 1)
      BY <2>4, CountGrows
    <3>4. QED
      BY <3>1, <3>2, <3>3
  <2>7. ASSUME b[l] = p
        PROVE  Flow'[i].offset < Flow'[j].offset
    <3> HIDE DEF p
    <3>1. QED
      BY <2>1, <2>2, <2>3, <2>6, <2>7
  <2>8. ASSUME b[l] = p, \A h \in (i + 1)..(j - 1) : ~Alike(Flow'[i], Flow'[h])
        PROVE  Flow'[j].offset = Flow'[i].offset + 1
    <3>1. \A g \in (l + 1)..(m - 1) : b[g] # p
      <4>1. SUFFICES ASSUME NEW g \in (l + 1)..(m - 1), b[g] = p PROVE FALSE
        OBVIOUS
      <4>2. g \in 1..k /\ FlowLen + g \in (i + 1)..(j - 1)
        BY <1>2, <1>3, <1>7
      <4>3. Flow'[FlowLen + g].partition = p /\ Flow'[FlowLen + g].in = attached
        BY <1>2, <4>1, <4>2, Zenon
      <4>4. Alike(Flow'[i], Flow'[FlowLen + g])
        BY <2>2, <2>8, <4>3, Zenon DEF Alike
      <4>5. QED
        BY <2>8, <4>2, <4>4, Zenon
    <3>2. CountOf(b, p, l) = CountOf(b, p, m - 1)
      <4> HIDE DEF p
      <4>1. QED
        BY <2>4, <3>1, CountRests
    <3>3. QED
      <4> HIDE DEF p
      <4>1. QED
        BY <2>1, <2>2, <2>3, <2>6, <2>8, <3>2
  <2>9. Flow'[i].in <= Flow'[j].in
    BY <2>1, <2>2, <2>3
  <2>10. QED
    BY <2>5, <2>7, <2>8, <2>9
<1>8. QED
  BY <1>2, <1>5, <1>6, <1>7, Zenon

\* The rest of what a poll keeps.
LEMMA PollFlow ==
  ASSUME TailInv, Poll
  PROVE  FlowCounts' /\ FlowInv'
<1>0. TailTypeOK /\ Going /\ attached \in Nat /\ lastSeq \in Nat
  BY DEF TailInv, TailTypeOK, Poll, Going
<1>1. UNCHANGED <<log, until, decoding, buffer, lastSeq, attached>>
  BY DEF Poll
<1>2. PICK k \in 1..BufferSize : \E b \in [1..k -> Partitions] : PollsInto(k, b)
  BY PollIs
<1>3. PICK b \in [1..k -> Partitions] : PollsInto(k, b)
  BY <1>2
<1>4. k \in Nat
  BY TailAssumption
<1>5. /\ FlowLen \in Nat /\ FlowLen' = FlowLen + k /\ Len(batch) = 0 /\ Len(batch') = k
      /\ \A i \in 1..FlowLen : i \in 1..FlowLen' /\ Flow'[i] = Flow[i]
      /\ \A j \in 1..FlowLen' : j \in 1..FlowLen \/ \E m \in 1..k : j = FlowLen + m
  BY <1>3, Zenon DEF PollsInto
<1>6. \A m \in 1..k :
            /\ FlowLen + m \in 1..FlowLen' /\ b[m] \in Partitions
            /\ Flow'[FlowLen + m].seq = lastSeq + m
            /\ Flow'[FlowLen + m].partition = b[m]
            /\ Flow'[FlowLen + m].offset = position[b[m]] + CountOf(b, b[m], m - 1)
            /\ Flow'[FlowLen + m].in = attached
            /\ Flow'[FlowLen + m].backfill
                    <=> position[b[m]] + CountOf(b, b[m], m - 1) < until[b[m]]
  BY <1>3, Zenon DEF PollsInto
<1>7. ASSUME NEW p \in Partitions
      PROVE  /\ CountOf(b, p, k) \in Nat /\ position[p] \in Nat /\ EndOf(p) \in Nat
             /\ position'[p] = position[p] + CountOf(b, p, k) /\ position[p] <= position'[p]
             /\ position'[p] <= EndOf(p) /\ Start(p) <= position[p] /\ Start(p) \in Nat
             /\ until[p] \in Nat
  <2>1. CountOf(b, p, k) \in Nat
    BY <1>4, CountIs, Zenon
  <2>2. position[p] \in Nat /\ EndOf(p) \in Nat /\ until[p] \in Nat
    BY <1>0, TailTypes
  <2>3. position'[p] = position[p] + CountOf(b, p, k) /\ position'[p] <= EndOf(p)
    BY <1>3, Zenon DEF PollsInto
  <2>4. Start(p) <= position[p]
    BY <1>0 DEF TailInv, FlowReachesPosition
  <2>5. Start(p) \in Nat
    <3>1. BackfillEach \in Nat
      BY ShareFits
    <3>2. Start(p) = IF until[p] >= BackfillEach THEN until[p] - BackfillEach ELSE 0
      BY <2>2, StartIs, Zenon DEF Start
    <3>3. QED
      BY <2>2, <3>1, <3>2
  <2>6. QED
    BY <2>1, <2>2, <2>3, <2>4, <2>5
<1>8. \A p : Start(p)' = Start(p)
  BY <1>1 DEF Start
<1>9. tail'.pc = "ingest" /\ Going'
  <2>1. "ingest" \in TailPcs /\ TailGoes("ingest")
    BY DEF Poll, TailPcs
  <2>2. tail'.pc = "ingest"
    BY <1>0, <2>1, TailMoves
  <2>3. QED
    BY <2>2 DEF Going
\* A polled record, with its partition.
<1>10. ASSUME NEW m \in 1..k
       PROVE  \E p \in Partitions :
                /\ b[m] = p /\ Flow'[FlowLen + m].partition = p
                /\ Flow'[FlowLen + m].in = attached
                /\ Flow'[FlowLen + m].offset = position[p] + CountOf(b, p, m - 1)
                /\ Flow'[FlowLen + m].offset + 1 = position[p] + CountOf(b, p, m)
                /\ CountOf(b, p, m - 1) \in Nat /\ CountOf(b, p, m) \in Nat
                /\ CountOf(b, p, m) <= CountOf(b, p, k)
                /\ Flow'[FlowLen + m].offset \in Nat
                /\ position[p] <= Flow'[FlowLen + m].offset
                /\ Flow'[FlowLen + m].offset < position'[p]
  <2>1. PICK p \in Partitions : p = b[m]
    BY <1>6
  <2>2. /\ Flow'[FlowLen + m].partition = p /\ Flow'[FlowLen + m].in = attached
        /\ Flow'[FlowLen + m].offset = position[p] + CountOf(b, p, m - 1)
    BY <1>6, <2>1, Zenon
  <2>3. /\ CountOf(b, p, m - 1) \in Nat /\ CountOf(b, p, m) \in Nat
        /\ CountOf(b, p, m) = CountOf(b, p, m - 1) + 1
        /\ CountOf(b, p, m) <= CountOf(b, p, k)
    BY <1>4, <2>1, PolledOffset, Zenon
  <2>4. position[p] \in Nat /\ position'[p] = position[p] + CountOf(b, p, k)
        /\ CountOf(b, p, k) \in Nat
    BY <1>7
  <2>5. /\ Flow'[FlowLen + m].offset + 1 = position[p] + CountOf(b, p, m)
        /\ Flow'[FlowLen + m].offset \in Nat
        /\ position[p] <= Flow'[FlowLen + m].offset
        /\ Flow'[FlowLen + m].offset < position'[p]
    BY <2>2, <2>3, <2>4
  <2>6. QED
    BY <2>1, <2>2, <2>3, <2>5, Zenon
<1>11. FlowCounts'
  <2>1. LastDue = lastSeq /\ LastDue' = lastSeq + k
    BY <1>0, <1>1, <1>4, <1>5 DEF LastDue
  <2>2. ASSUME NEW j \in 1..FlowLen' PROVE Flow'[j].seq = LastDue' - FlowLen' + j
    <3>1. CASE j \in 1..FlowLen
      <4>1. Flow'[j].seq = LastDue - FlowLen + j
        BY <1>5, <3>1, Zenon DEF TailInv, FlowCounts
      <4>2. LastDue - FlowLen + j = LastDue' - FlowLen' + j
        BY <1>0, <1>4, <1>5, <2>1
      <4>3. QED
        BY <4>1, <4>2, Zenon
    <3>2. ASSUME NEW m \in 1..k, j = FlowLen + m
          PROVE  Flow'[j].seq = LastDue' - FlowLen' + j
      <4>1. Flow'[j].seq = lastSeq + m
        BY <1>6, <3>2, Zenon
      <4>2. lastSeq + m = LastDue' - FlowLen' + j
        BY <1>0, <1>4, <1>5, <2>1, <3>2
      <4>3. QED
        BY <4>1, <4>2, Zenon
    <3>3. QED
      BY <1>5, <3>1, <3>2, Zenon
  <2>3. QED
    BY <1>1, <2>2, Zenon DEF TailInv, FlowCounts
<1>12. FlowReachesPosition'
  <2>1. ASSUME NEW p \in Partitions PROVE Start(p)' <= position'[p]
    <3>1. Start(p) \in Nat /\ position[p] \in Nat /\ CountOf(b, p, k) \in Nat
          /\ position'[p] = position[p] + CountOf(b, p, k) /\ Start(p) <= position[p]
      BY <1>7, Zenon
    <3>2. Start(p) <= position'[p]
      BY <3>1
    <3>3. QED
      BY <1>8, <3>2, Zenon
  <2>2. ASSUME NEW i \in 1..FlowLen', Flow'[i].in = attached
        PROVE  /\ Start(Flow'[i].partition) <= Flow'[i].offset
               /\ Flow'[i].offset < position'[Flow'[i].partition]
               /\ (\A h \in (i + 1)..FlowLen' : ~Alike(Flow'[i], Flow'[h]))
                    => Flow'[i].offset + 1 = position'[Flow'[i].partition]
    <3>1. CASE i \in 1..FlowLen
      <4>1. Flow'[i] = Flow[i] /\ Flow[i].in = attached
        BY <1>5, <2>2, <3>1, Zenon
      <4>2. PICK p \in Partitions : p = Flow[i].partition
        BY <1>0, <3>1, FlowType
      <4>3. /\ Start(p) <= Flow[i].offset /\ Flow[i].offset < position[p]
            /\ (\A h \in (i + 1)..FlowLen : ~Alike(Flow[i], Flow[h]))
                    => Flow[i].offset + 1 = position[p]
        BY <1>0, <3>1, <4>1, <4>2, Zenon DEF TailInv, FlowReachesPosition
      <4>4. Flow[i].offset \in Nat
        BY <1>0, <3>1, FlowType
      <4>5. Flow[i].offset < position'[p]
        <5>1. position[p] \in Nat /\ position'[p] \in Int /\ position[p] <= position'[p]
          BY <1>7
        <5>2. QED
          BY <4>3, <4>4, <5>1
      <4>6. ASSUME \A h \in (i + 1)..FlowLen' : ~Alike(Flow'[i], Flow'[h])
            PROVE  Flow[i].offset + 1 = position'[p]
        <5>1. \A h \in (i + 1)..FlowLen : ~Alike(Flow[i], Flow[h])
          <6>1. SUFFICES ASSUME NEW h \in (i + 1)..FlowLen PROVE ~Alike(Flow[i], Flow[h])
            OBVIOUS
          <6>2. h \in (i + 1)..FlowLen' /\ h \in 1..FlowLen
            BY <1>4, <1>5, <3>1
          <6>3. QED
            BY <1>5, <4>1, <4>6, <6>2, Zenon
        <5>2. \A m \in 1..k : b[m] # p
          <6>1. SUFFICES ASSUME NEW m \in 1..k, b[m] = p PROVE FALSE
            OBVIOUS
          <6>2. FlowLen + m \in (i + 1)..FlowLen'
            BY <1>4, <1>5, <3>1
          <6>3. Alike(Flow'[i], Flow'[FlowLen + m])
            BY <1>6, <4>1, <4>2, <6>1, Zenon DEF Alike
          <6>4. QED
            BY <4>6, <6>2, <6>3, Zenon
        <5>3. CountOf(b, p, k) = 0
          <6>1. 0 \in Nat /\ 0 <= k /\ \A m \in (0 + 1)..k : b[m] # p
            BY <1>4, <5>2
          <6>2. CountOf(b, p, 0) = 0
            BY <6>1, CountIs, Zenon
          <6>3. CountOf(b, p, 0) = CountOf(b, p, k)
            BY <1>4, <6>1, CountRests
          <6>4. QED
            BY <6>2, <6>3
        <5>4. QED
          BY <1>7, <4>3, <5>1, <5>3
      <4>7. QED
        BY <4>1, <4>2, <4>3, <4>5, <4>6, Zenon
    <3>2. ASSUME NEW m \in 1..k, i = FlowLen + m
          PROVE  /\ Start(Flow'[i].partition) <= Flow'[i].offset
                 /\ Flow'[i].offset < position'[Flow'[i].partition]
                 /\ (\A h \in (i + 1)..FlowLen' : ~Alike(Flow'[i], Flow'[h]))
                    => Flow'[i].offset + 1 = position'[Flow'[i].partition]
      <4>1. PICK p \in Partitions :
                /\ b[m] = p /\ Flow'[i].partition = p
                /\ Flow'[i].offset + 1 = position[p] + CountOf(b, p, m)
                /\ CountOf(b, p, m) \in Nat
                /\ Flow'[i].offset \in Nat
                /\ position[p] <= Flow'[i].offset
                /\ Flow'[i].offset < position'[p]
        BY <1>10, <3>2, Zenon
      <4>2. Start(p) <= Flow'[i].offset
        <5>1. position[p] \in Nat /\ Start(p) \in Nat /\ Start(p) <= position[p]
          BY <1>7
        <5>2. QED
          BY <4>1, <5>1
      <4>3. ASSUME \A h \in (i + 1)..FlowLen' : ~Alike(Flow'[i], Flow'[h])
            PROVE  Flow'[i].offset + 1 = position'[p]
        <5>1. \A l \in (m + 1)..k : b[l] # p
          <6>1. SUFFICES ASSUME NEW l \in (m + 1)..k, b[l] = p PROVE FALSE
            OBVIOUS
          <6>2. FlowLen + l \in (i + 1)..FlowLen' /\ l \in 1..k
            BY <1>4, <1>5, <3>2
          <6>3. Alike(Flow'[i], Flow'[FlowLen + l])
            BY <1>6, <2>2, <4>1, <6>1, <6>2, Zenon DEF Alike
          <6>4. QED
            BY <4>3, <6>2, <6>3, Zenon
        <5>2. CountOf(b, p, m) = CountOf(b, p, k)
          <6>1. m \in Nat /\ m <= k
            BY <1>4
          <6>2. QED
            BY <1>4, <5>1, <6>1, CountRests
        <5>3. QED
          BY <1>7, <4>1, <5>2
      <4>4. QED
        BY <4>1, <4>2, <4>3, Zenon
    <3>3. QED
      BY <1>5, <2>2, <3>1, <3>2, Zenon
  <2>3. QED
    BY <1>1, <1>8, <1>9, <2>1, <2>2, Zenon DEF FlowReachesPosition, Alike
<1>13. FlowIsFlagged'
  <2>1. ASSUME NEW i \in 1..FlowLen'
        PROVE  /\ Flow'[i].in <= attached
               /\ Flow'[i].offset < EndOf(Flow'[i].partition)
               /\ Flow'[i].backfill <=>
                    log[Flow'[i].partition][Flow'[i].offset + 1] < Flow'[i].in
    <3>1. CASE i \in 1..FlowLen
      BY <1>5, <3>1, Zenon DEF TailInv, FlowIsFlagged
    <3>2. ASSUME NEW m \in 1..k, i = FlowLen + m
          PROVE  /\ Flow'[i].in <= attached
                 /\ Flow'[i].offset < EndOf(Flow'[i].partition)
                 /\ Flow'[i].backfill <=>
                    log[Flow'[i].partition][Flow'[i].offset + 1] < Flow'[i].in
      <4>1. PICK p \in Partitions :
                /\ b[m] = p /\ Flow'[i].partition = p /\ Flow'[i].in = attached
                /\ Flow'[i].offset \in Nat
                /\ Flow'[i].offset = position[p] + CountOf(b, p, m - 1)
                /\ Flow'[i].offset < position'[p]
        BY <1>10, <3>2, Zenon
      <4>2. PICK o \in Nat : o = Flow'[i].offset
        BY <4>1
      <4>3. o < EndOf(p) /\ o + 1 \in 1..EndOf(p)
        <5>0. position'[p] = position[p] + CountOf(b, p, k) /\ position[p] \in Nat
              /\ CountOf(b, p, k) \in Nat /\ EndOf(p) \in Nat /\ position'[p] <= EndOf(p)
          BY <1>7, Zenon
        <5>1. position'[p] \in Int /\ EndOf(p) \in Nat /\ position'[p] <= EndOf(p)
          BY <5>0
        <5>2. o < position'[p]
          BY <4>1, <4>2, Zenon
        <5>3. QED
          BY <5>1, <5>2
      <4>4. Flow'[i].backfill <=> o < until[p]
        BY <1>6, <3>2, <4>1, <4>2, Zenon
      <4>5. o + 1 <= until[p] <=> log[p][o + 1] < attached
        BY <1>0, <4>3, Zenon DEF TailInv, EndsPartTheLog
      <4>6. o < until[p] <=> o + 1 <= until[p]
        BY <1>7
      <4>7. Flow'[i].in <= attached
        BY <1>0, <4>1
      <4>8. QED
        BY <4>1, <4>2, <4>3, <4>4, <4>5, <4>6, <4>7, Zenon
    <3>3. QED
      BY <1>5, <3>1, <3>2, Zenon
  <2>2. tail'.pc # "seek"
    BY <1>9
  <2>3. QED
    BY <1>1, <2>1, <2>2, Zenon DEF FlowIsFlagged, EndOf
<1>14. EndsPartTheLog'
  <2>1. tail'.pc # "seek"
    BY <1>9
  <2>2. QED
    BY <1>0, <1>1, <2>1, Zenon DEF TailInv, EndsPartTheLog, EndOf
<1>15. BackfillInHand'
  <2>1. ReadsBack' => ReadsBack
    <3>1. SUFFICES ASSUME ReadsBack' PROVE ReadsBack
      OBVIOUS
    <3>2. \A p \in Partitions : position'[p] <= until[p]
      BY <1>1, <3>1, Zenon DEF ReadsBack
    <3>3. \A p \in Partitions : position[p] <= until[p]
      <4>1. SUFFICES ASSUME NEW p \in Partitions PROVE position[p] <= until[p]
        OBVIOUS
      <4>2. QED
        BY <1>7, <3>2
    <3>4. QED
      BY <1>0, <3>1, <3>3, Zenon DEF ReadsBack
  <2>2. ASSUME NEW p \in Partitions, HasRead(p)
        PROVE  HasRead(p)'
    <3>1. SUFFICES ASSUME NEW o \in Start(p)..(position'[p] - 1)
          PROVE  \E i \in 1..FlowLen' :
                    Flow'[i].in = attached /\ Flow'[i].partition = p /\ Flow'[i].offset = o
      BY <1>1, <1>8, Zenon DEF HasRead
    <3>2. CASE o < position[p]
      <4>1. o \in Start(p)..(position[p] - 1)
        BY <1>7, <3>2
      <4>2. PICK i \in 1..FlowLen :
                    Flow[i].in = attached /\ Flow[i].partition = p /\ Flow[i].offset = o
        BY <2>2, <4>1, Zenon DEF HasRead
      <4>3. QED
        BY <1>5, <4>2, Zenon
    <3>3. CASE ~(o < position[p])
      <4>1. o - position[p] \in Nat /\ o - position[p] < CountOf(b, p, k)
            /\ o = position[p] + (o - position[p])
        <5>1. position[p] \in Nat /\ CountOf(b, p, k) \in Nat /\ Start(p) \in Nat
              /\ position'[p] = position[p] + CountOf(b, p, k)
          BY <1>7, Zenon
        <5>2. QED
          BY <3>3, <5>1
      <4>2. PICK m \in 1..k : b[m] = p /\ CountOf(b, p, m - 1) = o - position[p]
        <5>1. PICK c \in Nat : c = o - position[p]
          BY <4>1
        <5>2. c < CountOf(b, p, k)
          BY <4>1, <5>1
        <5>3. \E m \in 1..k : b[m] = p /\ CountOf(b, p, m - 1) = c
          BY <1>4, <5>2, CountReaches
        <5>4. QED
          BY <5>1, <5>3
      <4>3. /\ FlowLen + m \in 1..FlowLen' /\ Flow'[FlowLen + m].in = attached
            /\ Flow'[FlowLen + m].partition = p
            /\ Flow'[FlowLen + m].offset = position[p] + (o - position[p])
        BY <1>6, <4>2, Zenon
      <4>4. QED
        BY <4>1, <4>3, Zenon
    <3>4. QED
      BY <3>2, <3>3
  <2>3. QED
    BY <2>1, <2>2, Zenon DEF TailInv, BackfillInHand
<1>16. QED
  BY <1>11, <1>12, <1>13, <1>14, <1>15, PollRuns DEF FlowInv

\* Nothing is in hand at first.
LEMMA TailInvInit == TailInit => TailInv
<1> SUFFICES ASSUME TailInit PROVE TailInv
  OBVIOUS
<1>1. /\ topic = FALSE /\ log = [p \in Partitions |-> <<>>]
      /\ tail = [pc |-> "attach", ends |-> Zero] /\ tailState = "starting"
      /\ position = Zero /\ until = Zero /\ batch = <<>> /\ decoding = <<>>
      /\ buffer = <<>> /\ lastSeq = 0 /\ attached = 0 /\ breaks = 0
  BY DEF TailInit
<1>2. \A p \in Partitions : log[p] = <<>> /\ EndOf(p) = 0 /\ Zero[p] = 0
  BY <1>1 DEF EndOf, Zero
<1>3. BufferSize \in Nat /\ MaxPublished \in Nat /\ MaxBreaks \in Nat
  BY TailAssumption
<1>4. TailTypeOK
  <2>1. log \in [Partitions -> Seq(0..attached)]
    BY <1>1
  <2>2. Zero \in [Partitions -> 0..MaxPublished]
    BY <1>3 DEF Zero
  <2>3. tail.ends = Zero
        /\ tail \in [pc : TailPcs, ends : [Partitions -> 0..MaxPublished]]
    BY <1>1, <2>2 DEF TailPcs
  <2>4. \A p \in Partitions : {tail.ends[p], position[p], until[p]} \subseteq 0..EndOf(p)
    BY <1>1, <1>2, <2>3
  <2>5. {position, until} \subseteq [Partitions -> 0..MaxPublished]
    BY <1>1, <2>2
  <2>6. batch \in Seq(Partitions \X Nat) /\ decoding \in Seq(Record)
        /\ buffer \in Seq(Record)
    BY <1>1
  <2>7. Len(batch) <= BufferSize /\ Len(decoding) <= 1 /\ Len(buffer) <= BufferSize
    BY <1>1, <1>3
  <2>8. breaks \in 0..MaxBreaks /\ lastSeq \in Nat /\ attached \in Nat
    BY <1>1, <1>3
  <2>9. topic \in BOOLEAN /\ tailState \in {"starting", "waiting_for_topic", "tailing", "error"}
    BY <1>1, Zenon
  <2>10. QED
    BY <2>9, <2>1, <2>3, <2>4, <2>5, <2>6, <2>7, <2>8, Zenon DEF TailTypeOK, TailPcs
<1>5. HandsAreFree
  BY <1>1, <1>2, <1>3 DEF HandsAreFree
<1>6. Len(buffer) = 0 /\ Len(decoding) = 0 /\ Len(batch) = 0
  BY <1>1
<1>7. FlowLen = 0 /\ \A i \in 1..FlowLen : FALSE
  BY <1>6 DEF FlowLen
<1>8. FlowCounts
  <2>1. Len(decoding) <= lastSeq
        /\ Len(buffer) = IF lastSeq - Len(decoding) <= BufferSize
                         THEN lastSeq - Len(decoding) ELSE BufferSize
    <3>1. 0 <= 0 /\ 0 = IF 0 - 0 <= BufferSize THEN 0 - 0 ELSE BufferSize
      BY <1>3
    <3>2. QED
      BY <1>1, <1>6, <3>1, Zenon
  <2>2. QED
    BY <1>7, <2>1, Zenon DEF FlowCounts
<1>9. FlowRuns /\ FlowIsFlagged
  BY <1>7, Zenon DEF FlowRuns, FlowIsFlagged
<1>10. ~Going /\ tail.pc # "seek"
  BY <1>1 DEF Going
<1>11. FlowReachesPosition /\ EndsPartTheLog /\ BackfillInHand
  BY <1>10, Zenon DEF FlowReachesPosition, EndsPartTheLog, BackfillInHand, ReadsBack
<1>12. QED
  BY <1>4, <1>5, <1>8, <1>9, <1>11 DEF TailInv

\* And every step keeps the invariant.
LEMMA TailInvStep == TailInv /\ [TailNext]_tailVars => TailInv'
<1> SUFFICES ASSUME TailInv, [TailNext]_tailVars PROVE TailInv'
  OBVIOUS
<1>0. TailTypeOK /\ HandsAreFree
  BY DEF TailInv
<1>1. ASSUME TailTypeOK', HandsAreFree', FlowCounts', FlowInv' PROVE TailInv'
  BY <1>1, Zenon DEF TailInv, FlowInv
<1>2. CASE AttachWaits \/ Retries \/ IngestEnds
  BY <1>0, <1>1, <1>2, MoveTypes, LoopFlow, Zenon
<1>3. CASE Raises \/ Reports
  BY <1>0, <1>1, <1>3, ResetTypes, LoopFlow, Zenon
<1>4. CASE AttachSeeks
  BY <1>0, <1>1, <1>4, ResetTypes, SeeksFlow, Zenon
<1>5. CASE AttachReads
  BY <1>0, <1>1, <1>5, AttachReadsTypes, ReadsFlow, Zenon
<1>6. CASE Poll
  BY <1>0, <1>1, <1>6, PollTypes, PollFlow, Zenon
<1>7. CASE DecodeBegins
  BY <1>0, <1>1, <1>7, DecodeTypes, BeginsFlow, Zenon
<1>8. CASE DecodeEnds
  BY <1>0, <1>1, <1>8, DecodeTypes, EndsFlow, Zenon
<1>9. ASSUME NEW q \in Partitions, Publish(q) PROVE TailInv'
  BY <1>0, <1>1, <1>9, PublishTypes, PublishFlow, Zenon
<1>10. CASE UNCHANGED tailVars
  <2>1. UNCHANGED <<topic, log, tail, tailState, position, until, batch, decoding, buffer,
                    lastSeq, attached, breaks>>
    BY <1>10 DEF tailVars
  <2>2. FlowLen' = FlowLen /\ Flow' = Flow
    BY <1>0, <2>1, FlowStays
  <2>3. TailTypeOK' /\ HandsAreFree'
    BY <1>0, <2>1, Zenon DEF TailTypeOK, HandsAreFree, EndOf
  <2>4. FlowCounts'
    BY <2>1, <2>2, Zenon DEF TailInv, FlowCounts, LastDue
  <2>5. FlowRuns' /\ FlowReachesPosition' /\ BackfillInHand'
    BY <2>1, <2>2, QuietReach DEF Going, TailInv, FlowInv
  <2>6. FlowIsFlagged'
    BY <2>1, <2>2, Zenon DEF TailInv, FlowIsFlagged, EndOf
  <2>7. EndsPartTheLog'
    BY <2>1, Zenon DEF TailInv, EndsPartTheLog, EndOf, Going
  <2>8. QED
    BY <1>1, <2>3, <2>4, <2>5, <2>6, <2>7 DEF FlowInv
<1>11. QED
  BY <1>2, <1>3, <1>4, <1>5, <1>6, <1>7, <1>8, <1>9, <1>10 DEF TailNext, Tailing

-----------------------------------------------------------------------------
(* What the page relies on *)

\* The buffer is the front of what is in hand.
LEMMA BufferIsFront ==
  ASSUME TailInv
  PROVE  /\ DOMAIN buffer = 1..Len(buffer)
         /\ \A i \in DOMAIN buffer : i \in 1..FlowLen /\ Flow[i] = buffer[i]
<1>1. TailTypeOK /\ Len(buffer) \in Nat /\ Len(decoding) \in Nat /\ Len(batch) \in Nat
  BY TailTypes DEF TailInv
<1>2. DOMAIN buffer = 1..Len(buffer)
  BY <1>1 DEF TailTypeOK
<1>3. ASSUME NEW i \in 1..Len(buffer) PROVE i \in 1..FlowLen /\ Flow[i] = buffer[i]
  <2>1. i \in 1..FlowLen /\ i <= Len(buffer)
    BY <1>1 DEF FlowLen
  <2>2. QED
    BY <2>1 DEF Flow
<1>4. QED
  BY <1>2, <1>3

\* A record is flagged in the buffer as it was in hand.
LEMMA LiveHolds == TailInv => LiveMeansLive
  BY BufferIsFront, Zenon DEF TailInv, FlowIsFlagged, LiveMeansLive

\* What was read back is in the buffer once nothing else is in hand.
LEMMA BackfillHolds == TailInv => BackfillShowsEveryPartition
<1> SUFFICES ASSUME TailInv, tail.pc = "poll", position = until,
                    Cardinality(Partitions) <= BufferSize,
                    NEW p \in Partitions, until[p] > 0
             PROVE  \E i \in DOMAIN buffer :
                        buffer[i].partition = p /\ buffer[i].offset = until[p] - 1
                            /\ buffer[i].in = attached
  BY Zenon DEF BackfillShowsEveryPartition
<1>1. TailTypeOK /\ \A q \in Partitions : until[q] \in Nat
  BY TailTypes DEF TailInv
<1>2. ReadsBack
  <2>1. \A q \in Partitions : position[q] <= until[q]
    BY <1>1
  <2>2. QED
    BY <2>1 DEF ReadsBack, Going
<1>3. HasRead(p)
  BY <1>2 DEF TailInv, BackfillInHand
<1>4. until[p] - 1 \in Start(p)..(position[p] - 1)
  <2>1. BackfillEach \in Nat /\ BackfillEach > 0 /\ until[p] \in Nat
    BY <1>1, ShareFits
  <2>2. Start(p) = IF until[p] >= BackfillEach THEN until[p] - BackfillEach ELSE 0
    BY <2>1, StartIs, Zenon DEF Start
  <2>3. QED
    BY <2>1, <2>2
<1>5. PICK i \in 1..FlowLen :
        Flow[i].in = attached /\ Flow[i].partition = p /\ Flow[i].offset = until[p] - 1
  BY <1>3, <1>4, Zenon DEF HasRead
<1>6. Len(batch) = 0 /\ Len(decoding) = 0
  BY DEF TailInv, HandsAreFree
<1>7. i \in DOMAIN buffer
  <2>1. Len(buffer) \in Nat
    BY <1>1, TailTypes
  <2>2. FlowLen = Len(buffer)
    BY <1>6, <2>1 DEF FlowLen
  <2>3. QED
    BY <2>2, BufferIsFront
<1>8. QED
  BY <1>5, <1>7, BufferIsFront, Zenon

\* The records of the buffer are numbered up to the last one decoded.
LEMMA BufferCounts ==
  ASSUME TailInv
  PROVE  \E done \in Nat : \E n \in Nat :
            /\ done = lastSeq - Len(decoding) /\ n = Len(buffer)
            /\ n = IF done <= BufferSize THEN done ELSE BufferSize
            /\ DOMAIN buffer = 1..n
            /\ \A i \in 1..n : buffer[i].seq = done - n + i
<1>1. Len(buffer) \in Nat /\ Len(decoding) \in Nat /\ Len(batch) \in Nat /\ lastSeq \in Nat
      /\ Len(decoding) <= lastSeq
  BY TailTypes DEF TailInv, TailTypeOK, FlowCounts
<1>2. PICK n \in Nat : n = Len(buffer)
  BY <1>1
<1>3. PICK d \in Nat : d = Len(decoding)
  BY <1>1
<1>4. PICK t \in Nat : t = Len(batch)
  BY <1>1
<1>5. PICK done \in Nat : done = lastSeq - d
  <2>1. lastSeq - d \in Nat
    BY <1>1, <1>3
  <2>2. QED
    BY <2>1
<1>6. n = IF done <= BufferSize THEN done ELSE BufferSize
  BY <1>2, <1>3, <1>5, Zenon DEF TailInv, FlowCounts
<1>7. DOMAIN buffer = 1..n
  BY <1>2, BufferIsFront
<1>8. ASSUME NEW i \in 1..n PROVE buffer[i].seq = done - n + i
  <2>1. i \in 1..FlowLen /\ Flow[i] = buffer[i]
    BY <1>7, BufferIsFront
  <2>2. buffer[i].seq = LastDue - FlowLen + i
    BY <2>1, Zenon DEF TailInv, FlowCounts
  <2>3. LastDue = lastSeq + t /\ FlowLen = n + d + t
    BY <1>2, <1>3, <1>4, Zenon DEF LastDue, FlowLen
  <2>4. LastDue - FlowLen + i = done - n + i
    BY <1>1, <1>5, <2>3
  <2>5. QED
    BY <2>2, <2>4, Zenon
<1>9. QED
  BY <1>2, <1>3, <1>5, <1>6, <1>7, <1>8, Zenon

\* The k-th newest of an interval.
LEMMA NewestOfInterval ==
  ASSUME NEW n \in Nat, NEW c \in Nat, c <= n, NEW k \in 1..c
  PROVE  NewestOf((n - c + 1)..n, k) = n - k + 1
<1> DEFINE S == (n - c + 1)..n
<1>1. ASSUME NEW i \in S
      PROVE  Cardinality({j \in S : j > i}) = n - i
  <2>1. {j \in S : j > i} = (i + 1)..n
    OBVIOUS
  <2>2. Cardinality((i + 1)..n) = n - i
    <3>1. i + 1 \in Int /\ n \in Int /\ i \in Int /\ i <= n
      OBVIOUS
    <3>2. Cardinality((i + 1)..n) = IF i + 1 > n THEN 0 ELSE n - (i + 1) + 1
      BY <3>1, FS_Interval
    <3>3. QED
      BY <3>1, <3>2
  <2>3. QED
    BY <2>1, <2>2
<1>2. n - k + 1 \in S /\ \A i \in S : n - i = k - 1 <=> i = n - k + 1
  OBVIOUS
<1>3. \A i \in S : Cardinality({j \in S : j > i}) = k - 1 <=> i = n - k + 1
  <2> HIDE DEF S
  <2>1. QED
    BY <1>1, <1>2
<1>4. QED
  <2> HIDE DEF S
  <2>1. NewestOf(S, k) = n - k + 1
    BY <1>2, <1>3 DEF NewestOf
  <2>2. QED
    BY <2>1 DEF S

\* After `done' records, of which the n newest are buffered, c are newer than since.
HasNewer(done, n, since, c) ==
    /\ done \in Nat /\ n \in Nat /\ DOMAIN buffer = 1..n /\ n <= done
    /\ \A i \in 1..n : buffer[i].seq = done - n + i
    /\ since \in 0..done
    /\ c \in Nat /\ c <= n /\ c <= done - since /\ (c = n \/ c = done - since)

NewestFirst(n, m) == [k \in 1..m |-> buffer[n - k + 1]]

\* An answer: as many as there are, or as were asked for, from the newest back.
LEMMA AnswerIs ==
  ASSUME NEW done, NEW n, NEW since, NEW c, HasNewer(done, n, since, c), NEW limit \in Nat
  PROVE  Records(limit, since) = NewestFirst(n, Min({limit, c}))
<1> USE DEF HasNewer
<1>2. c <= n
  OBVIOUS
<1> DEFINE new == {i \in DOMAIN buffer : buffer[i].seq > since}
<1>3. new = (n - c + 1)..n
  <2>1. \A i \in 1..n : buffer[i].seq > since <=> i \in (n - c + 1)..n
    OBVIOUS
  <2>2. (n - c + 1)..n \subseteq 1..n
    BY <1>2
  <2>3. QED
    BY <2>1, <2>2
<1>4. Cardinality(new) = c
  <2>0. n - c + 1 \in Int /\ n \in Int
    OBVIOUS
  <2>1. Cardinality((n - c + 1)..n) = IF n - c + 1 > n THEN 0 ELSE n - (n - c + 1) + 1
    BY <2>0, FS_Interval, Zenon
  <2>2. Cardinality((n - c + 1)..n) = c
    BY <1>2, <2>1
  <2>3. QED
    BY <1>3, <2>2
<1>5. Min({limit, c}) = IF limit <= c THEN limit ELSE c
  <2>1. limit \in Int /\ c \in Int
    OBVIOUS
  <2>2. QED
    BY <2>1, MinOfTwo, Zenon
<1>6. ASSUME NEW k \in 1..Min({limit, c}) PROVE NewestOf(new, k) = n - k + 1
  <2>1. k \in 1..c
    BY <1>5
  <2>2. QED
    <3> HIDE DEF new
    <3>1. QED
      BY <1>2, <1>3, <2>1, NewestOfInterval
<1>7. Records(limit, since) = [k \in 1..Min({limit, c}) |-> buffer[NewestOf(new, k)]]
  <2>1. Records(limit, since)
            = [k \in 1..Min({limit, Cardinality(new)}) |-> buffer[NewestOf(new, k)]]
    BY Zenon DEF Records
  <2>2. QED
    <3> HIDE DEF new
    <3>1. QED
      BY <1>4, <2>1, Zenon
<1>8. Records(limit, since) = [k \in 1..Min({limit, c}) |-> buffer[n - k + 1]]
  <2> HIDE DEF new
  <2>1. QED
    BY <1>6, <1>7
<1>9. QED
  BY <1>8, Zenon DEF NewestFirst

\* Numbers without a gap make an answer complete; runs without a gap make it true.
LEMMA SinceHolds == TailInv => SinceMissesNothing
<1> SUFFICES ASSUME TailInv PROVE SinceMissesNothing
  OBVIOUS
<1>0. PICK done \in Nat : \E n \in Nat :
            /\ done = lastSeq - Len(decoding) /\ n = Len(buffer)
            /\ n = IF done <= BufferSize THEN done ELSE BufferSize
            /\ DOMAIN buffer = 1..n
            /\ \A i \in 1..n : buffer[i].seq = done - n + i
  BY BufferCounts
<1>1. PICK n \in Nat :
            /\ done = lastSeq - Len(decoding) /\ n = Len(buffer)
            /\ n = IF done <= BufferSize THEN done ELSE BufferSize
            /\ DOMAIN buffer = 1..n
            /\ \A i \in 1..n : buffer[i].seq = done - n + i
  BY <1>0
<1>2. BufferSize \in Nat
  BY TailAssumption
<1>3. ASSUME NEW since \in 0..done, NEW limit \in 1..(BufferSize + 1)
      PROVE  /\ Len(Records(limit, since)) = Min({limit, done - since, BufferSize})
             /\ \A i \in DOMAIN Records(limit, since) :
                    Records(limit, since)[i].seq = done - i + 1
  <2>1. limit \in Nat /\ n <= done /\ since \in Nat /\ done - since \in Int
    BY <1>1, <1>2
  <2>2. PICK c \in Nat : c = IF done - since <= n THEN done - since ELSE n
    <3>1. (IF done - since <= n THEN done - since ELSE n) \in Nat
      OBVIOUS
    <3>2. QED
      BY <3>1
  <2>a. \A i \in 1..n : buffer[i].seq = done - n + i
    BY <1>1
  <2>b. Min({limit, c}) = IF limit <= c THEN limit ELSE c
    <3>1. limit \in Int /\ c \in Int
      BY <2>1
    <3>2. QED
      BY <3>1, MinOfTwo, Zenon
  <2>c. Records(limit, since) = [k \in 1..Min({limit, c}) |-> buffer[n - k + 1]]
    <3>1. DOMAIN buffer = 1..n /\ n <= done /\ limit \in Nat
      BY <1>1, <2>1
    <3>2. c <= n /\ c <= done - since /\ (c = n \/ c = done - since)
      BY <2>1, <2>2
    <3>3. QED
      <4>1. HasNewer(done, n, since, c)
        BY <2>a, <3>1, <3>2, Zenon DEF HasNewer
      <4>2. Records(limit, since) = NewestFirst(n, Min({limit, c}))
        BY <3>1, <4>1, AnswerIs
      <4>3. QED
        BY <4>2, Zenon DEF NewestFirst
  <2>3. PICK m \in Nat : m = Min({limit, c})
    BY <2>1, <2>b
  <2>4. Records(limit, since) = [k \in 1..m |-> buffer[n - k + 1]]
    BY <2>c, <2>3, Zenon
  <2>5. Len(Records(limit, since)) = m /\ DOMAIN Records(limit, since) = 1..m
    BY <2>4
  <2>6. c = IF done - since <= BufferSize THEN done - since ELSE BufferSize
    BY <1>1, <1>2, <2>1, <2>2
  <2>7. m = Min({limit, done - since, BufferSize})
    <3>1. Min({limit, done - since, BufferSize})
            = IF limit <= done - since /\ limit <= BufferSize THEN limit
              ELSE IF done - since <= BufferSize THEN done - since ELSE BufferSize
      BY <1>2, <2>1, MinOfThree
    <3>2. m = IF limit <= c THEN limit ELSE c
      BY <2>b, <2>3
    <3>3. QED
      BY <1>2, <2>1, <2>6, <3>1, <3>2
  <2>8. ASSUME NEW i \in 1..m PROVE Records(limit, since)[i].seq = done - i + 1
    <3>1. m <= c /\ c <= n
      BY <2>1, <2>2, <2>b, <2>3
    <3>2. n - i + 1 \in 1..n /\ done - n + (n - i + 1) = done - i + 1
      BY <3>1
    <3>3. buffer[n - i + 1].seq = done - n + (n - i + 1)
      BY <1>1, <3>2, Zenon
    <3>4. Records(limit, since)[i] = buffer[n - i + 1]
      BY <2>4
    <3>5. QED
      BY <3>2, <3>3, <3>4, Zenon
  <2>9. QED
    BY <2>5, <2>7, <2>8, Zenon
<1>4. ASSUME NEW i \in DOMAIN buffer, NEW j \in DOMAIN buffer,
             i < j, buffer[i].in = buffer[j].in, buffer[i].partition = buffer[j].partition,
             \A k \in (i + 1)..(j - 1) : buffer[k].partition # buffer[i].partition
      PROVE  buffer[j].offset = buffer[i].offset + 1
  <2>1. i \in 1..FlowLen /\ j \in 1..FlowLen /\ Flow[i] = buffer[i] /\ Flow[j] = buffer[j]
    BY BufferIsFront
  <2>2. ASSUME NEW k \in (i + 1)..(j - 1) PROVE ~Alike(Flow[i], Flow[k])
    <3>1. k \in DOMAIN buffer
      BY <1>1
    <3>2. Flow[k] = buffer[k]
      BY <3>1, BufferIsFront
    <3>3. QED
      BY <1>4, <2>1, <3>2, Zenon DEF Alike
  <2>3. Alike(Flow[i], Flow[j])
    BY <1>4, <2>1, Zenon DEF Alike
  <2>4. Flow[j].offset = Flow[i].offset + 1
    BY <1>4, <2>1, <2>2, <2>3, Zenon DEF TailInv, FlowRuns
  <2>5. QED
    BY <2>1, <2>4, Zenon
<1>5. QED
  BY <1>1, <1>3, <1>4, Zenon DEF SinceMissesNothing

\* "Poll it with since to receive only what is new" is safe, the records whose age is
\* measured are the ones published since the attachment, and a tail that has read
\* back shows every partition: whatever the number of partitions, the size of the
\* buffer, the failures, and the order in which polls return and records decode.
THEOREM TailTellsAll == TailSpec => []TailSound
<1>1. TailInv => TailSound
  BY LiveHolds, BackfillHolds, SinceHolds DEF TailSound, TailInv
<1>2. QED
  BY TailInvInit, TailInvStep, <1>1, PTL DEF TailSpec

=============================================================================
