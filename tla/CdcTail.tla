------------------------------ MODULE CdcTail ------------------------------
(***************************************************************************)
(* The tail of the CDC topic (backend/app/routes/streaming.py): a task     *)
(* that attaches to every partition near its end, polls in a thread,       *)
(* decodes on the event loop into a ring buffer, and starts over whenever  *)
(* something fails.  The Sidecar publishes; the Streaming page reads.      *)
(***************************************************************************)
EXTENDS Integers, Sequences, FiniteSets, FiniteSetsExt

CONSTANTS
    Partitions,   \* of the topic, once it exists
    BufferSize,   \* settings.cdc_buffer_size
    MaxPublished, \* bound: mutations published to each partition
    MaxBreaks     \* bound: attachments and polls that raise

ASSUME TailAssumption ==
    /\ IsFiniteSet(Partitions) /\ Partitions # {}
    /\ {BufferSize, MaxPublished, MaxBreaks} \subseteq Nat /\ BufferSize > 0

VARIABLES
    topic,       \* the Sidecar has created the topic
    log,         \* per partition: of each record, how often the tail had attached
    tail,        \* the loop: where it is, and the ends it has read
    tailState,   \* _state
    position,    \* the consumer's position, per partition
    until,       \* _backfill_until
    batch,       \* polled and not decoded
    decoding,    \* the record whose schema is awaited, as a sequence
    buffer,      \* _buffer
    lastSeq,     \* _seq, and _consumed, which counts the same
    attached,    \* history: attachments so far
    breaks

tailVars == <<topic, log, tail, tailState, position, until, batch, decoding, buffer,
              lastSeq, attached, breaks>>

EndOf(p)    == Len(log[p])
Record      == [seq : Nat, partition : Partitions, offset : Nat, backfill : BOOLEAN,
                in : Nat]   \* the attachment it was read in
TailGoes(pc) == tail' = [tail EXCEPT !.pc = pc]
Zero        == [p \in Partitions |-> 0]
Breaking    == breaks < MaxBreaks /\ breaks' = breaks + 1

-----------------------------------------------------------------------------
(* The Sidecar: the first mutation creates the topic *)

Publish(p) ==
    /\ EndOf(p) < MaxPublished
    /\ topic' = TRUE
    /\ log' = [log EXCEPT ![p] = Append(@, attached)]
    /\ UNCHANGED <<tail, tailState, position, until, batch, decoding, buffer, lastSeq,
                   attached, breaks>>

-----------------------------------------------------------------------------
(* _attach, in a thread *)

\* No partitions: the state says why, and the exception follows.
AttachWaits ==
    /\ tail.pc = "attach" /\ ~topic
    /\ tailState' = "waiting_for_topic"
    /\ TailGoes("raised")
    /\ UNCHANGED <<topic, log, position, until, batch, decoding, buffer, lastSeq, attached,
                   breaks>>

AttachReads ==
    /\ tail.pc = "attach" /\ topic
    /\ tail' = [pc |-> "seek", ends |-> [p \in Partitions |-> EndOf(p)]]
    /\ attached' = attached + 1
    /\ UNCHANGED <<topic, log, tailState, position, until, batch, decoding, buffer, lastSeq,
                   breaks>>

\* backfill_each: an equal share of the buffer, but something.
BackfillEach == Max({1, BufferSize \div Cardinality(Partitions)})

AttachSeeks ==
    /\ tail.pc = "seek"
    /\ position' = [p \in Partitions |-> Max({0, tail.ends[p] - BackfillEach})]
    /\ until' = tail.ends
    /\ tailState' = "tailing"
    /\ tail' = [pc |-> "poll", ends |-> Zero]
    /\ UNCHANGED <<topic, log, batch, decoding, buffer, lastSeq, attached, breaks>>

\* The broker cannot be reached, or a poll raises.
Raises ==
    /\ tail.pc \in {"attach", "seek", "poll"} /\ Breaking
    /\ tail' = [pc |-> "raised", ends |-> Zero]
    /\ UNCHANGED <<topic, log, tailState, position, until, batch, decoding, buffer, lastSeq,
                   attached>>

\* Faulty: the loop polls the consumer that failed, which raises for ever.
ReportsOnly ==
    /\ tail.pc = "raised"
    /\ tailState' = "error"
    /\ UNCHANGED <<topic, log, tail, position, until, batch, decoding, buffer, lastSeq,
                   attached, breaks>>

\* run's handler: reported, closed, and after the delay attached again.
Reports ==
    /\ tail.pc = "raised"
    /\ tailState' = "error"
    /\ position' = Zero
    /\ TailGoes("sleep")
    /\ UNCHANGED <<topic, log, until, batch, decoding, buffer, lastSeq, attached, breaks>>

Retries ==
    /\ tail.pc = "sleep"
    /\ TailGoes("attach")
    /\ UNCHANGED <<topic, log, tailState, position, until, batch, decoding, buffer, lastSeq,
                   attached, breaks>>

-----------------------------------------------------------------------------
(* _poll, in a thread, and _ingest *)

\* A partition's next records: b says which partition each polled record is of.
Polled(b) ==
    [i \in DOMAIN b |->
        <<b[i], position[b[i]] + Cardinality({j \in 1..(i - 1) : b[j] = b[i]})>>]

\* The dictionary poll returns, read in its order: at most a bufferful, and each
\* partition's records together.
Poll ==
    /\ tail.pc = "poll"
    /\ \E k \in 1..BufferSize : \E b \in [1..k -> Partitions] :
        /\ \A i, j, m \in 1..k : i < j /\ j < m /\ b[i] = b[m] => b[j] = b[i]
        /\ position' = [p \in Partitions |-> position[p] + Cardinality({i \in 1..k : b[i] = p})]
        /\ \A p \in Partitions : position'[p] <= EndOf(p)
        /\ batch' = Polled(b)
    /\ TailGoes("ingest")
    /\ UNCHANGED <<topic, log, tailState, until, decoding, buffer, lastSeq, attached, breaks>>

\* The sequence number is taken before the schema is awaited.
DecodeBegins ==
    /\ tail.pc = "ingest" /\ batch # <<>> /\ decoding = <<>>
    /\ lastSeq' = lastSeq + 1
    /\ decoding' = <<[seq       |-> lastSeq + 1,
                      partition |-> Head(batch)[1],
                      offset    |-> Head(batch)[2],
                      backfill  |-> Head(batch)[2] < until[Head(batch)[1]],
                      in        |-> attached]>>
    /\ batch' = Tail(batch)
    /\ UNCHANGED <<topic, log, tail, tailState, position, until, buffer, attached, breaks>>

\* deque(maxlen): the oldest leaves as the newest arrives.
Appended(r) == LET all == Append(buffer, r) IN
    SubSeq(all, IF Len(all) > BufferSize THEN 2 ELSE 1, Len(all))

\* Faulty: a record that cannot be decoded is dropped.
DecodeEndsClean ==
    /\ decoding # <<>>
    /\ buffer' \in {buffer, Appended(decoding[1])}
    /\ decoding' = <<>>
    /\ UNCHANGED <<topic, log, tail, tailState, position, until, batch, lastSeq, attached,
                   breaks>>

\* A record that cannot be decoded is kept, with its key and its error.
DecodeEnds ==
    /\ decoding # <<>>
    /\ buffer' = Appended(decoding[1])
    /\ decoding' = <<>>
    /\ UNCHANGED <<topic, log, tail, tailState, position, until, batch, lastSeq, attached,
                   breaks>>

IngestEnds ==
    /\ tail.pc = "ingest" /\ batch = <<>> /\ decoding = <<>>
    /\ TailGoes("poll")
    /\ UNCHANGED <<topic, log, tailState, position, until, batch, decoding, buffer, lastSeq,
                   attached, breaks>>

-----------------------------------------------------------------------------
(* What the page reads *)

\* The k-th from the back of a set of positions in the buffer.
NewestOf(S, k) == CHOOSE i \in S : Cardinality({j \in S : j > i}) = k - 1

Records(limit, since) ==
    LET new == {i \in DOMAIN buffer : buffer[i].seq > since} IN
    [k \in 1..Min({limit, Cardinality(new)}) |-> buffer[NewestOf(new, k)]]

-----------------------------------------------------------------------------
TailInit ==
    /\ topic = FALSE /\ log = [p \in Partitions |-> <<>>]
    /\ tail = [pc |-> "attach", ends |-> Zero] /\ tailState = "starting"
    /\ position = Zero /\ until = Zero /\ batch = <<>> /\ decoding = <<>>
    /\ buffer = <<>> /\ lastSeq = 0 /\ attached = 0 /\ breaks = 0

\* The task goes on.
Tailing ==
    \/ AttachWaits \/ AttachReads \/ AttachSeeks \/ Reports \/ Retries
    \/ Poll \/ DecodeBegins \/ DecodeEnds \/ IngestEnds

TailNext == Tailing \/ Raises \/ \E p \in Partitions : Publish(p)

TailSpec == TailInit /\ [][TailNext]_tailVars /\ WF_tailVars(Tailing)

-----------------------------------------------------------------------------
(* Properties *)

TailTypeOK ==
    /\ topic \in BOOLEAN /\ breaks \in 0..MaxBreaks
    /\ log \in [Partitions -> Seq(0..attached)]
    /\ tail \in [pc   : {"attach", "seek", "raised", "sleep", "poll", "ingest"},
                 ends : [Partitions -> 0..MaxPublished]]
    /\ {position, until} \subseteq [Partitions -> 0..MaxPublished]
    /\ \A p \in Partitions : {tail.ends[p], position[p], until[p]} \subseteq 0..EndOf(p)
    /\ tailState \in {"starting", "waiting_for_topic", "tailing", "error"}
    /\ batch \in Seq(Partitions \X Nat) /\ Len(batch) <= BufferSize
    /\ decoding \in Seq(Record) /\ Len(decoding) <= 1
    /\ buffer \in Seq(Record) /\ Len(buffer) <= BufferSize
    /\ lastSeq \in Nat /\ attached \in Nat

\* What the page has of a partition in one attachment is an unbroken run of its
\* log, and "poll it with since to receive only what is new" is safe: an answer
\* that the limit did not cut holds every record after `since' that the buffer
\* has room for, the undecodable ones too, newest first.
SinceMissesNothing ==
    LET done == lastSeq - Len(decoding) IN
    /\ \A since \in 0..done : \A limit \in 1..(BufferSize + 1) :
        LET got == Records(limit, since) IN
        /\ Len(got) = Min({limit, done - since, BufferSize})
        /\ \A i \in DOMAIN got : got[i].seq = done - i + 1
    /\ \A i, j \in DOMAIN buffer :
        /\ i < j /\ buffer[i].in = buffer[j].in /\ buffer[i].partition = buffer[j].partition
        /\ \A k \in (i + 1)..(j - 1) : buffer[k].partition # buffer[i].partition
        => buffer[j].offset = buffer[i].offset + 1

\* "Those records are flagged, because their age measures the backlog rather than
\* the pipeline": in every attachment, the records whose age is measured are the
\* ones published since it read the ends of the log.
LiveMeansLive ==
    \A i \in DOMAIN buffer :
        LET r == buffer[i] IN r.backfill <=> log[r.partition][r.offset + 1] < r.in

\* "It reads back one buffer's worth so that a page opened after the fact still has
\* something to show": having read back and nothing else, the buffer holds the
\* newest record of every partition, as long as it has room for one of each.
BackfillShowsEveryPartition ==
    /\ tail.pc = "poll" /\ position = until /\ Cardinality(Partitions) <= BufferSize
    => \A p \in Partitions : until[p] > 0 =>
        \E i \in DOMAIN buffer :
            buffer[i].partition = p /\ buffer[i].offset = until[p] - 1
                /\ buffer[i].in = attached

\* What a poller of the page may rely on at every moment.
TailSound ==
    TailTypeOK /\ SinceMissesNothing /\ LiveMeansLive /\ BackfillShowsEveryPartition

\* "Each is reported and retried rather than raised": once something has been
\* published and the failures are over, the tail is back and has read it all.
TailComesBack ==
    <>topic => <>[](tailState = "tailing" /\ \A p \in Partitions : position[p] = EndOf(p))

=============================================================================
