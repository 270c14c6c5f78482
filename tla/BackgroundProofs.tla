-------------------------- MODULE BackgroundProofs --------------------------
(***************************************************************************)
(* TLAPS proofs about what the backend does beside its requests.           *)
(*                                                                         *)
(* LiveEmbedder: what a pass remembers of the stored embeddings, for any   *)
(* assets, snippets and cap, and any number of failed passes, failed       *)
(* writes, restarts and calls of index_all.                                *)
(*                                                                         *)
(* CqliteReader and CassandraClient: the two clients' sessions, statements *)
(* and providers, for any number of threads, tables and outages, and any   *)
(* intervals.                                                              *)
(***************************************************************************)
EXTENDS LiveEmbedder, CqliteReader, FiniteSetTheorems, SequenceTheorems, TLAPS


\* Only an embedding pass has embeddings under way.
EmbedsInPhase == phase # "embed" => \A a \in Assets : embeds[a] = NoEmbed

\* What a pass is about to record is what it wrote, unless it was overwritten.
LandedIsStored ==
    \A a \in Assets : embeds[a].landed => embeds[a].text = stored[a] \/ a \in strayed

\* A process primes once, before it has seen anything; what it has read to do so
\* is still stored, except where somebody wrote since.
PrimesFirst ==
    /\ phase \in {"prime", "primed"} => ~primed
    /\ phase \in {"read", "embed"} => primed
    /\ ~primed => \A a \in Assets : seen[a] = NoText
    /\ phase = "primed" =>
        \A a \in Assets : rows[a] \notin {NoText, stored[a]} => a \in strayed

\* The inductive invariant.
EmbedderInv ==
    /\ EmbedderTypeOK
    /\ EmbedsInPhase
    /\ LandedIsStored
    /\ PrimesFirst
    /\ SeenIsStored

\* The type of an embedding under way.
LEMMA EmbedType ==
  ASSUME EmbedderTypeOK, NEW a \in Assets
  PROVE  embeds[a].text \in Text /\ embeds[a].landed \in BOOLEAN
  BY DEF EmbedderTypeOK

\* A bounded counter stays within its bound.
LEMMA CountType ==
  ASSUME EmbedderTypeOK,
         \/ Counting("changes", MaxChanges) \/ Counting("faults", MaxFaults)
         \/ Counting("bulks", MaxBulks)
  PROVE  count' \in [changes : 0..MaxChanges, faults : 0..MaxFaults, bulks : 0..MaxBulks]
  BY EmbedderAssumption DEF EmbedderTypeOK, Counting

-----------------------------------------------------------------------------
(* The steps *)

\* Steps beside the embedder: the sink, the switch, and index_all's reads.
LEMMA AsideKeeps ==
  ASSUME EmbedderInv,
         \/ UNCHANGED embedderVars \/ IndexAll
         \/ \E on \in BOOLEAN : SetEnabled(on)
         \/ \E a \in Assets : IndexOneFails(a) \/ \E s \in Snippets : SinkWrites(a, s)
  PROVE  EmbedderInv'
<1> USE DEF EmbedderInv
<1>1. UNCHANGED <<stored, primed, seen, phase, rows, embeds, pending, strayed>>
  BY DEF embedderVars, IndexAll, SetEnabled, IndexOneFails, SinkWrites
<1>2. snippet' \in [Assets -> Text] /\ bulk' \in [Assets -> Text]
  <2>1. snippet \in [Assets -> Text] /\ bulk \in [Assets -> Text]
    BY DEF EmbedderTypeOK
  <2>2. ASSUME NEW a \in Assets, IndexOneFails(a) \/ \E s \in Snippets : SinkWrites(a, s)
        PROVE  snippet' \in [Assets -> Text] /\ bulk' \in [Assets -> Text]
    BY <2>1, <2>2 DEF IndexOneFails, SinkWrites, Text
  <2>3. QED
    BY <2>1, <2>2 DEF embedderVars, IndexAll, SetEnabled
<1>3. enabled' \in BOOLEAN /\ failing' \in BOOLEAN
  BY Zenon DEF embedderVars, IndexAll, SetEnabled, IndexOneFails, SinkWrites, EmbedderTypeOK
<1>4. count' \in [changes : 0..MaxChanges, faults : 0..MaxFaults, bulks : 0..MaxBulks]
  BY CountType DEF embedderVars, IndexAll, SetEnabled, IndexOneFails, SinkWrites, EmbedderTypeOK
<1>5. EmbedderTypeOK'
  BY <1>1, <1>2, <1>3, <1>4 DEF EmbedderTypeOK
<1>6. EmbedsInPhase' /\ LandedIsStored' /\ PrimesFirst' /\ SeenIsStored'
  BY <1>1 DEF EmbedsInPhase, LandedIsStored, PrimesFirst, SeenIsStored
<1>7. QED
  BY <1>5, <1>6

\* A pass begins, ends, or fails before it embeds anything.
LEMMA PassKeeps ==
  ASSUME EmbedderInv, BeginPass \/ PassFails \/ PassEnds
  PROVE  EmbedderInv'
<1> USE DEF EmbedderInv
<1>1. UNCHANGED <<snippet, stored, enabled, primed, seen, rows, embeds, pending, bulk, strayed>>
  BY DEF BeginPass, PassFails, PassEnds
<1>2. /\ phase' \in {"idle", "read", "prime"}
      /\ phase' = "prime" => ~primed
      /\ phase' = "read" => primed
      /\ \A a \in Assets : embeds[a] = NoEmbed
  BY DEF BeginPass, PassFails, PassEnds, EmbedsInPhase
<1>3. failing' \in BOOLEAN
  BY DEF BeginPass, PassFails, PassEnds, EmbedderTypeOK
<1>4. count' \in [changes : 0..MaxChanges, faults : 0..MaxFaults, bulks : 0..MaxBulks]
  BY CountType DEF BeginPass, PassFails, PassEnds, EmbedderTypeOK
<1>5. EmbedderTypeOK'
  BY <1>1, <1>2, <1>3, <1>4 DEF EmbedderTypeOK
<1>6. EmbedsInPhase' /\ LandedIsStored' /\ SeenIsStored'
  BY <1>1, <1>2 DEF EmbedsInPhase, LandedIsStored, SeenIsStored
<1>7. PrimesFirst'
  BY <1>1, <1>2 DEF PrimesFirst
<1>8. QED
  BY <1>5, <1>6, <1>7

\* The read of _prime is true, and the history starts over with it.
LEMMA PrimeReadsKeeps ==
  ASSUME EmbedderInv, PrimeReads
  PROVE  EmbedderInv'
<1> USE DEF EmbedderInv
<1>1. /\ phase = "prime" /\ phase' = "primed" /\ rows' = stored /\ strayed' = {}
      /\ UNCHANGED <<snippet, stored, enabled, primed, seen, embeds, pending, failing, bulk, count>>
  BY DEF PrimeReads
<1>2. EmbedderTypeOK'
  BY <1>1 DEF EmbedderTypeOK
<1>3. \A a \in Assets : embeds[a] = NoEmbed /\ ~NoEmbed.landed /\ seen[a] = NoText
  BY <1>1 DEF EmbedsInPhase, PrimesFirst, NoEmbed
<1>4. QED
  BY <1>1, <1>2, <1>3 DEF EmbedsInPhase, LandedIsStored, PrimesFirst, SeenIsStored

\* _seen takes what the read found.
LEMMA PrimeKeeps ==
  ASSUME EmbedderInv, Prime
  PROVE  EmbedderInv'
<1> USE DEF EmbedderInv
<1>1. /\ phase = "primed" /\ phase' = "read" /\ primed' = TRUE /\ rows' = Nothing
      /\ seen' = [a \in Assets |-> IF rows[a] = NoText THEN seen[a] ELSE rows[a]]
      /\ UNCHANGED <<snippet, stored, enabled, embeds, pending, failing, bulk, strayed, count>>
  BY DEF Prime
<1>2. EmbedderTypeOK'
  <2>1. seen' \in [Assets -> Text] /\ rows' \in [Assets -> Text]
    BY <1>1 DEF EmbedderTypeOK, Nothing, Text
  <2>2. QED
    BY <1>1, <2>1 DEF EmbedderTypeOK
<1>3. SeenIsStored'
  BY <1>1 DEF PrimesFirst, SeenIsStored
<1>4. EmbedsInPhase' /\ LandedIsStored' /\ PrimesFirst'
  BY <1>1 DEF EmbedsInPhase, LandedIsStored, PrimesFirst
<1>5. QED
  BY <1>2, <1>3, <1>4

\* What is deferred is at most what was read.
LEMMA DeferredIsBounded == Cardinality(Changed \ Batch) \in 0..Len(ReadOrder)
<1>1. Len(ReadOrder) \in Nat /\ DOMAIN ReadOrder = 1..Len(ReadOrder)
  BY EmbedderAssumption
<1>2. IsFiniteSet(1..Len(ReadOrder)) /\ Cardinality(1..Len(ReadOrder)) = Len(ReadOrder)
  <2>1. 1 \in Int /\ Len(ReadOrder) \in Int
    BY <1>1
  <2>2. /\ IsFiniteSet(1..Len(ReadOrder))
        /\ Cardinality(1..Len(ReadOrder)) = IF 1 > Len(ReadOrder) THEN 0 ELSE Len(ReadOrder) - 1 + 1
    BY <2>1, FS_Interval
  <2>3. QED
    BY <1>1, <2>2
<1>3. Changed \ Batch \in SUBSET (1..Len(ReadOrder))
  BY <1>1 DEF Changed
<1>4. IsFiniteSet(Changed \ Batch) /\ Cardinality(Changed \ Batch) <= Len(ReadOrder)
  BY <1>2, <1>3, FS_Subset
<1>5. QED
  BY <1>1, <1>4, FS_CardinalityType

\* A pass takes up its batch.
LEMMA ReadRowsKeeps ==
  ASSUME EmbedderInv, ReadRows
  PROVE  EmbedderInv'
<1> USE DEF EmbedderInv
<1>1. /\ phase = "read" /\ phase' = "embed" /\ pending' = Cardinality(Changed \ Batch)
      /\ UNCHANGED <<snippet, stored, enabled, primed, seen, rows, failing, bulk, strayed, count>>
  BY DEF ReadRows
<1>2. \A a \in Assets : embeds'[a] \in {[text |-> snippet[a], landed |-> FALSE], NoEmbed}
  BY DEF ReadRows
<1>3. \A a \in Assets : /\ embeds'[a] \in [text : Text, landed : BOOLEAN]
                        /\ ~embeds'[a].landed /\ ~embeds[a].landed
  <2> SUFFICES ASSUME NEW a \in Assets
               PROVE  /\ embeds'[a] \in [text : Text, landed : BOOLEAN]
                      /\ ~embeds'[a].landed /\ ~embeds[a].landed
    OBVIOUS
  <2>1. snippet[a] \in Text /\ NoText \in Text
    BY DEF EmbedderTypeOK, Text
  <2>2. embeds[a] = NoEmbed
    BY <1>1 DEF EmbedsInPhase
  <2>3. CASE embeds'[a] = NoEmbed
    BY <2>1, <2>2, <2>3 DEF NoEmbed
  <2>4. CASE embeds'[a] = [text |-> snippet[a], landed |-> FALSE]
    BY <2>1, <2>2, <2>4 DEF NoEmbed
  <2>5. QED
    BY <1>2, <2>3, <2>4
<1>4. embeds' \in [Assets -> [text : Text, landed : BOOLEAN]]
  BY <1>3 DEF ReadRows
<1>5. EmbedderTypeOK'
  <2>1. pending' \in 0..Len(ReadOrder)
    BY <1>1, DeferredIsBounded
  <2>2. QED
    BY <1>1, <1>4, <2>1 DEF EmbedderTypeOK
<1>6. QED
  BY <1>1, <1>3, <1>5 DEF EmbedsInPhase, LandedIsStored, PrimesFirst, SeenIsStored

\* An embedding is written, and then recorded.
LEMMA EmbedKeeps ==
  ASSUME EmbedderInv, NEW a \in Assets, EmbedLands(a) \/ EmbedSeen(a) \/ EmbedFails(a)
  PROVE  EmbedderInv'
<1> USE DEF EmbedderInv
<1>0. /\ UNCHANGED <<snippet, enabled, primed, phase, rows, pending, failing, bulk>>
      /\ embeds[a].text \in Text /\ embeds[a].landed \in BOOLEAN
      /\ stored \in [Assets -> Text] /\ seen \in [Assets -> Text] /\ strayed \subseteq Assets
      /\ embeds \in [Assets -> [text : Text, landed : BOOLEAN]]
  BY EmbedType DEF EmbedLands, EmbedSeen, EmbedFails, EmbedderTypeOK
<1>1. phase = "embed" /\ phase' = "embed" /\ (embeds[a].landed => embeds[a] # NoEmbed)
  BY <1>0 DEF EmbedLands, EmbedSeen, EmbedFails, EmbedsInPhase, NoEmbed
<1>2. count' \in [changes : 0..MaxChanges, faults : 0..MaxFaults, bulks : 0..MaxBulks]
  BY CountType DEF EmbedLands, EmbedSeen, EmbedFails, EmbedderTypeOK
<1>3. embeds' \in [Assets -> [text : Text, landed : BOOLEAN]]
  <2>1. NoEmbed \in [text : Text, landed : BOOLEAN]
    BY DEF NoEmbed, Text
  <2>2. CASE EmbedLands(a)
    BY <1>0, <2>2 DEF EmbedLands
  <2>3. CASE EmbedSeen(a) \/ EmbedFails(a)
    BY <1>0, <2>1, <2>3 DEF EmbedSeen, EmbedFails
  <2>4. QED
    BY <2>2, <2>3
<1>4. stored' \in [Assets -> Text] /\ seen' \in [Assets -> Text] /\ strayed' \subseteq Assets
  BY <1>0 DEF EmbedLands, EmbedSeen, EmbedFails
<1>5. EmbedderTypeOK'
  BY <1>0, <1>1, <1>2, <1>3, <1>4 DEF EmbedderTypeOK
<1>6. \A b \in Assets : b # a =>
        /\ embeds'[b] = embeds[b] /\ seen'[b] = seen[b] /\ stored'[b] = stored[b]
        /\ b \in strayed' <=> b \in strayed
  BY <1>0 DEF EmbedLands, EmbedSeen, EmbedFails
<1>7. /\ embeds'[a].landed => embeds'[a].text = stored'[a] \/ a \in strayed'
      /\ seen'[a] \notin {NoText, stored'[a]} => a \in strayed' \/ embeds'[a].landed
  <2>1. CASE EmbedLands(a)
    BY <1>0, <2>1 DEF EmbedLands
  <2>2. CASE EmbedSeen(a)
    BY <1>0, <2>2 DEF EmbedSeen, NoEmbed, LandedIsStored
  <2>3. CASE EmbedFails(a)
    BY <1>0, <2>3 DEF EmbedFails, NoEmbed, SeenIsStored
  <2>4. QED
    BY <2>1, <2>2, <2>3
<1>8. LandedIsStored' /\ SeenIsStored'
  BY <1>6, <1>7 DEF LandedIsStored, SeenIsStored
<1>9. PrimesFirst'
  <2>1. primed
    BY <1>1 DEF PrimesFirst
  <2>2. QED
    BY <1>0, <1>1, <2>1 DEF PrimesFirst
<1>10. QED
  BY <1>1, <1>5, <1>8, <1>9 DEF EmbedsInPhase

\* index_all writes behind the embedder's back, and the history remembers it.
LEMMA IndexOneKeeps ==
  ASSUME EmbedderInv, NEW a \in Assets, IndexOne(a)
  PROVE  EmbedderInv'
<1> USE DEF EmbedderInv
<1>1. /\ UNCHANGED <<snippet, enabled, primed, seen, phase, rows, embeds, pending, failing, count>>
      /\ stored' = [stored EXCEPT ![a] = bulk[a]] /\ strayed' = strayed \cup {a}
      /\ bulk' = [bulk EXCEPT ![a] = NoText]
  BY DEF IndexOne
<1>2. EmbedderTypeOK'
  <2>1. stored' \in [Assets -> Text] /\ bulk' \in [Assets -> Text] /\ strayed' \subseteq Assets
    BY <1>1 DEF EmbedderTypeOK, Text
  <2>2. QED
    BY <1>1, <2>1 DEF EmbedderTypeOK
<1>3. \A b \in Assets : stored'[b] = stored[b] \/ b \in strayed'
  BY <1>1 DEF EmbedderTypeOK
<1>4. QED
  BY <1>1, <1>2, <1>3 DEF EmbedsInPhase, LandedIsStored, PrimesFirst, SeenIsStored

\* A restart has seen nothing.
LEMMA RestartEmbedderKeeps ==
  ASSUME EmbedderInv, Restart
  PROVE  EmbedderInv'
<1> USE DEF EmbedderInv
<1>1. /\ enabled' = EmbedByDefault /\ primed' = FALSE /\ seen' = Nothing
      /\ phase' = "idle" /\ rows' = Nothing /\ embeds' = [a \in Assets |-> NoEmbed]
      /\ pending' = 0 /\ failing' = FALSE /\ bulk' = Nothing
      /\ UNCHANGED <<snippet, stored, strayed>>
  BY DEF Restart
<1>2. count' \in [changes : 0..MaxChanges, faults : 0..MaxFaults, bulks : 0..MaxBulks]
  BY CountType DEF Restart
<1>3. Nothing \in [Assets -> Text] /\ NoEmbed \in [text : Text, landed : BOOLEAN] /\ ~NoEmbed.landed
      /\ \A a \in Assets : Nothing[a] = NoText
  BY DEF Nothing, NoEmbed, Text
<1>4. EmbedderTypeOK'
  <2>1. pending' \in 0..Len(ReadOrder)
    BY <1>1, EmbedderAssumption
  <2>2. embeds' \in [Assets -> [text : Text, landed : BOOLEAN]]
    BY <1>1, <1>3
  <2>3. enabled' \in BOOLEAN
    BY <1>1, EmbedderAssumption
  <2>4. QED
    BY <1>1, <1>2, <1>3, <2>1, <2>2, <2>3 DEF EmbedderTypeOK
<1>5. QED
  BY <1>1, <1>3, <1>4 DEF EmbedsInPhase, LandedIsStored, PrimesFirst, SeenIsStored

\* The invariant holds initially.
LEMMA InitEmbedder == EmbedderInit => EmbedderInv
<1> SUFFICES ASSUME EmbedderInit PROVE EmbedderInv
  OBVIOUS
<1>1. Nothing \in [Assets -> Text] /\ NoEmbed \in [text : Text, landed : BOOLEAN] /\ ~NoEmbed.landed
      /\ \A a \in Assets : Nothing[a] = NoText
  BY DEF Nothing, NoEmbed, Text
<1>2. EmbedderTypeOK
  <2>1. pending \in 0..Len(ReadOrder)
    BY EmbedderAssumption DEF EmbedderInit
  <2>2. embeds \in [Assets -> [text : Text, landed : BOOLEAN]]
    BY <1>1 DEF EmbedderInit
  <2>3. enabled \in BOOLEAN
    BY EmbedderAssumption DEF EmbedderInit
  <2>4. count \in [changes : 0..MaxChanges, faults : 0..MaxFaults, bulks : 0..MaxBulks]
    BY EmbedderAssumption DEF EmbedderInit
  <2>5. QED
    BY <1>1, <2>1, <2>2, <2>3, <2>4 DEF EmbedderInit, EmbedderTypeOK
<1>3. QED
  BY <1>1, <1>2 DEF EmbedderInit, EmbedderInv, EmbedsInPhase, LandedIsStored, PrimesFirst,
     SeenIsStored

\* Every step keeps it.
LEMMA EmbedderStep == EmbedderInv /\ [EmbedderNext]_embedderVars => EmbedderInv'
<1> SUFFICES ASSUME EmbedderInv, [EmbedderNext]_embedderVars PROVE EmbedderInv'
  OBVIOUS
<1>1. CASE Embedding
  BY <1>1, PassKeeps, PrimeReadsKeeps, PrimeKeeps, ReadRowsKeeps, EmbedKeeps DEF Embedding
<1>2. CASE PassFails \/ IndexAll \/ Restart \/ UNCHANGED embedderVars
  BY <1>2, PassKeeps, AsideKeeps, RestartEmbedderKeeps
<1>3. CASE \E on \in BOOLEAN : SetEnabled(on)
  BY <1>3, AsideKeeps
<1>4. ASSUME NEW a \in Assets,
             EmbedFails(a) \/ IndexOne(a) \/ IndexOneFails(a) \/ \E s \in Snippets : SinkWrites(a, s)
      PROVE  EmbedderInv'
  BY <1>4, EmbedKeeps, IndexOneKeeps, AsideKeeps
<1>5. QED
  BY <1>1, <1>2, <1>3, <1>4 DEF EmbedderNext

\* What the embedder believes stored is stored, except where somebody else wrote:
\* a failed or half-done write is never recorded as done.
THEOREM SeenStaysStored == EmbedderSpec => []EmbedderSound
<1>1. EmbedderInv => EmbedderSound
  BY DEF EmbedderInv, EmbedderSound
<1>2. QED
  BY <1>1, InitEmbedder, EmbedderStep, PTL DEF EmbedderSpec

-----------------------------------------------------------------------------
(* The cqlite reader and the Cassandra client: the invariants *)

\* Inside the Cassandra client's connect, behind its lock.
Opening == {"cOpening", "cClearing"}

\* The startup neither runs transactions nor queries.
MainStaysOut ==
    /\ th[Main].job # "force"
    /\ th[Main].pc \notin {"take", "prepare", "asked", "qEnter", "scanning"}
    /\ th[Main].back # "take" /\ th[Main].then # "asked"

\* A forced reconnect does nothing else.
ForcersForce ==
    \A t \in Threads : th[t].job = "force" =>
        th[t].pc \in Opening \cup {"idle", "cConnect"} /\ th[t].back = "idle"

\* Forced reconnects that have not been decided yet.
Forcing == {t \in Threads : th[t].job = "force" /\ th[t].pc \in {"cConnect", "cOpening"}}

\* One session may be opened by whoever finds none.
Credit == IF ~cConnected /\ \A t \in AllThreads : th[t].pc # "cClearing" THEN 1 ELSE 0

\* Each session beyond the first is the doing of a forced reconnect.
SessionsArePaid == sessions + Cardinality(Forcing) + Credit <= 1 + forced

\* Only the holder of the lock is inside connect, and an unforced one found nothing
\* connected.
ConnectsAlone ==
    \A t \in AllThreads :
        /\ th[t].pc \in Opening => cLock = t
        /\ th[t].pc = "cOpening" /\ th[t].job # "force" => ~cConnected
        /\ th[t].pc = "cClearing" => cSession # 0

\* Outside the clearing step the flag tells of the session, and the cached statement is
\* of the session or of one that was replaced under a transaction, as is what a
\* transaction has taken.
StatementsAreKnown ==
    /\ (\A t \in AllThreads : th[t].pc # "cClearing") =>
        /\ cConnected <=> cSession # 0
        /\ cSession # 0 => prepared \in {0, cSession} \cup overlapped
    /\ \A t \in Threads : Preparing(t) /\ cSession # 0 =>
        th[t].mine \in {cSession} \cup overlapped

CassandraInv ==
    /\ MainStaysOut
    /\ ForcersForce
    /\ SessionsArePaid
    /\ ConnectsAlone
    /\ StatementsAreKnown

\* A thread that holds the reader's _connect_lock, in the Cassandra client's connect or
\* its own.
Registers(t) == \/ th[t].pc \in {"rNeeds", "rTables", "rFlag"}
                \/ th[t].pc \in Opening \cup {"cConnect"} /\ th[t].back = "rNeeds"

\* A thread that is rebuilding the session, table by table.
Rebuilds(t) == th[t].pc = "rTables" /\ th[t].goal = "connect"

\* A thread that will.
WillRebuild(t) == Registers(t) /\ th[t].pc \notin {"rTables", "rFlag"} /\ th[t].goal = "connect"

\* A thread that is going to, or is at it.
HeadsForOne(t) == th[t].pc = "rConnect" \/ Rebuilds(t) \/ WillRebuild(t)

\* The tables a connect has been through.
BeenThrough(t) == {CqliteTables[i] : i \in 1..(th[t].tab - 1)}

\* Only the holder of the lock registers, and what it has declined is not what it has
\* collected.
RegistersAlone ==
    \A t \in AllThreads :
        /\ Registers(t) => rLock = t
        /\ WillRebuild(t) => declined = {} /\ th[t].loc = {} /\ th[t].tab = 1
        /\ Rebuilds(t) => /\ declined \cap th[t].loc = {}
                          /\ declined \cup th[t].loc \subseteq BeenThrough(t)
        /\ th[t].pc = "rFlag" => ctx

\* Outside a rebuilding no table is both readable and declined.
ListsAreDisjoint ==
    (\A t \in AllThreads : ~Rebuilds(t)) => declined \cap providers = {}

RegisterInv == RegistersAlone /\ ListsAreDisjoint /\ (rConnected => ctx)

\* A scan that was cancelled, or will be, knows; and only a scan is told to stop.
AbortsAreNoticed ==
    \A t \in AllThreads :
        /\ th[t].pc = "scanning" /\ (abort # "idle" \/ aborted) => th[t].told
        /\ th[t].stop => th[t].pc = "scanning" /\ th[t].told

\* With nothing registered no scan reads a registered provider.
NothingIsScanned ==
    providers = {} => \A t \in AllThreads : th[t].pc = "scanning" => ~th[t].same

\* A probe that rebuilds the session saw no scan that still reads a registered one.
ProbesSawNothing ==
    \A t \in Threads : \A u \in AllThreads :
        /\ th[t].job = "probe" /\ th[t].sees = u /\ th[u].pc = "scanning"
        /\ HeadsForOne(t)
        => ~th[u].same

ScanInv == AbortsAreNoticed /\ NothingIsScanned /\ ProbesSawNothing

\* The inductive invariant.
ReaderInv == TypeOK /\ CassandraInv /\ RegisterInv /\ ScanInv

-----------------------------------------------------------------------------
(* Types *)

Pcs == {"startup", "idle", "served", "cConnect", "cOpening", "cClearing", "take", "prepare",
        "rConnect", "rMissing", "rNeeds", "rTables", "rFlag", "asked", "qEnter", "scanning"}

\* The fields of a thread.
LEMMA ThreadFields ==
  ASSUME NEW j \in Thread
  PROVE  /\ j.job \in Jobs \cup {"startup"} /\ j.pc \in Pcs
         /\ j.back \in {"idle", "startup", "take", "rNeeds"}
         /\ j.then \in {"idle", "served", "asked"} /\ j.mine \in Session
         /\ j.goal \in {"connect", "missing"} /\ j.tab \in 1..(Len(CqliteTables) + 1)
         /\ j.loc \in SUBSET Tables /\ j.same \in BOOLEAN /\ j.stop \in BOOLEAN
         /\ j.told \in BOOLEAN /\ j.sees \in Threads \cup {NoThread}
  BY Zenon DEF Thread, Pcs

\* A thread that starts over.
LEMMA FreshType ==
  ASSUME NEW job \in Jobs \cup {"startup"}, NEW pc \in Pcs
  PROVE  Fresh(job, pc) \in Thread
<1>1. 0 \in Session /\ 1 \in 1..(Len(CqliteTables) + 1) /\ {} \in SUBSET Tables
  BY ClientAssumption, ReaderAssumption DEF Session, MaxSessions
<1>2. QED
  BY <1>1, Zenon DEF Fresh, Thread, Pcs

\* A thread that only goes on to another place.
LEMMA PcType ==
  ASSUME NEW j \in Thread, NEW pc \in Pcs
  PROVE  [j EXCEPT !.pc = pc] \in Thread
  BY Zenon DEF Thread, Pcs

\* Only the thread that takes a step changes.
LEMMA ThreadBecomes ==
  ASSUME TypeOK, NEW t \in AllThreads, NEW j, Becomes(t, j)
  PROVE  /\ th'[t] = j /\ \A u \in AllThreads \ {t} : th'[u] = th[u]
         /\ j \in Thread => th' \in [AllThreads -> Thread]
  BY DEF TypeOK, Becomes

LEMMA ThreadGoes ==
  ASSUME TypeOK, NEW t \in AllThreads, NEW pc \in Pcs, Goes(t, pc)
  PROVE  /\ th'[t] = [th[t] EXCEPT !.pc = pc]
         /\ \A u \in AllThreads \ {t} : th'[u] = th[u]
         /\ th' \in [AllThreads -> Thread]
<1>1. [th[t] EXCEPT !.pc = pc] \in Thread
  BY PcType DEF TypeOK
<1>2. QED
  BY <1>1, ThreadBecomes DEF Goes

\* A reader's connect is over.
LEMMA ThreadReturns ==
  ASSUME TypeOK, NEW t \in AllThreads, Returns(t)
  PROVE  /\ th'[t] = Fresh(th[t].job, th[t].then)
         /\ \A u \in AllThreads \ {t} : th'[u] = th[u]
         /\ th' \in [AllThreads -> Thread]
<1>1. th[t].job \in Jobs \cup {"startup"} /\ th[t].then \in Pcs
  BY ThreadFields DEF TypeOK, Pcs
<1>2. Fresh(th[t].job, th[t].then) \in Thread
  BY <1>1, FreshType
<1>3. QED
  BY <1>2, ThreadBecomes DEF Returns

\* The schema's types.
LEMMA SchemaInitType ==
  ASSUME SchemaInit
  PROVE  SchemaTypeOK
<1>1. Len(Schema) \in Nat
  BY DEF Schema, EventTables, VectorTables, HistoryTables, OtherTables
<1>2. QED
  BY <1>1, SchemaAssumption DEF SchemaInit, SchemaTypeOK

LEMMA SchemaType ==
  ASSUME SchemaTypeOK, SchemaNext
  PROVE  SchemaTypeOK'
<1> DEFINE N == {"keyspace", "events", "drone_text_embeddings", "drone_events_by_entity", "others"}
<1>1. Schema \in Seq(N)
  <2>1. EventTables \in Seq(N) /\ VectorTables \in Seq(N)
    BY DEF EventTables, VectorTables
  <2>2. HistoryTables \in Seq(N) /\ OtherTables \in Seq(N)
    BY DEF HistoryTables, OtherTables
  <2>3. QED
    BY <2>1, <2>2, ConcatProperties DEF Schema
<1> DEFINE c == Schema
<1>2. c \in Seq(N) /\ Len(c) \in Nat
  BY <1>1
<1>3. \A i \in 1..Len(c) : c[i] \in ToSet(c)
  BY <1>2 DEF ToSet
<1> HIDE DEF c
<1>4. /\ up \in BOOLEAN /\ outages \in 0..MaxOutages /\ exists \subseteq ToSet(c)
      /\ step \in 1..(Len(c) + 1)
  BY DEF SchemaTypeOK, c
<1>5. CASE SinkCreates
  <2>1. /\ step <= Len(c) /\ exists' = exists \cup {c[step]} /\ step' = step + 1
        /\ UNCHANGED <<up, outages>>
    BY <1>5 DEF SinkCreates, c
  <2>2. exists' \subseteq ToSet(c) /\ step' \in 1..(Len(c) + 1)
    BY <1>2, <1>3, <1>4, <2>1
  <2>3. QED
    BY <1>4, <2>1, <2>2 DEF SchemaTypeOK, c
<1>6. CASE SinkStartsOver
  <2>1. step' = 1 /\ UNCHANGED <<up, outages, exists>> /\ 1 \in 1..(Len(c) + 1)
    BY <1>2, <1>6 DEF SinkStartsOver
  <2>2. QED
    BY <1>4, <2>1 DEF SchemaTypeOK, c
<1>7. CASE CassandraGoes
  <2>1. /\ up' = FALSE /\ outages' \in 0..MaxOutages /\ UNCHANGED <<exists, step>>
    BY <1>4, <1>7, SchemaAssumption DEF CassandraGoes
  <2>2. QED
    BY <1>4, <2>1 DEF SchemaTypeOK, c
<1>8. CASE CassandraReturns
  <2>1. up' = TRUE /\ UNCHANGED <<outages, exists, step>>
    BY <1>8 DEF CassandraReturns
  <2>2. QED
    BY <1>4, <2>1 DEF SchemaTypeOK, c
<1>9. QED
  BY <1>5, <1>6, <1>7, <1>8 DEF SchemaNext

-----------------------------------------------------------------------------
(* What the steps do to a thread *)

\* Thread t becomes j, and no other thread changes.
Moves(t, j) == /\ j \in Thread /\ th' \in [AllThreads -> Thread]
               /\ th'[t] = j /\ \A u \in AllThreads \ {t} : th'[u] = th[u]

\* The marks of a scan.
LEMMA MarksType ==
  ASSUME NEW j \in Thread
  PROVE  /\ [j EXCEPT !.same = FALSE] \in Thread /\ [j EXCEPT !.sees = NoThread] \in Thread
         /\ [j EXCEPT !.told = TRUE] \in Thread /\ [j EXCEPT !.stop = TRUE] \in Thread
<1>1. [j EXCEPT !.same = FALSE] \in Thread
  BY Zenon DEF Thread
<1>2. [j EXCEPT !.sees = NoThread] \in Thread
  BY Zenon DEF Thread
<1>3. [j EXCEPT !.told = TRUE] \in Thread
  BY Zenon DEF Thread
<1>4. [j EXCEPT !.stop = TRUE] \in Thread
  BY Zenon DEF Thread
<1>5. QED
  BY <1>1, <1>2, <1>3, <1>4

\* A scan begins.
LEMMA ScanType ==
  ASSUME NEW j \in Thread, NEW told \in BOOLEAN
  PROVE  [j EXCEPT !.pc = "scanning", !.same = TRUE, !.told = told] \in Thread
  BY Zenon DEF Thread

LEMMA StartUpIs ==
  ASSUME TypeOK, StartUp
  PROVE  \E pc \in {"cConnect", "rConnect"} :
           Moves(Main, [th[Main] EXCEPT !.pc = pc, !.back = "startup", !.then = "served"])
<1> DEFINE pc == IF th[Main].back = "idle" THEN "cConnect" ELSE "rConnect"
<1>1. Main \in AllThreads /\ th[Main] \in Thread
  BY DEF AllThreads, TypeOK
<1>2. pc \in {"cConnect", "rConnect"} /\ pc \in Pcs
  BY DEF Pcs
<1>3. Becomes(Main, [th[Main] EXCEPT !.pc = pc, !.back = "startup", !.then = "served"])
  BY DEF StartUp
<1> HIDE DEF pc
<1>4. [th[Main] EXCEPT !.pc = pc, !.back = "startup", !.then = "served"] \in Thread
  BY <1>1, <1>2, Zenon DEF Thread, Pcs
<1>5. QED
  BY <1>1, <1>2, <1>3, <1>4, ThreadBecomes DEF Moves

LEMMA ProbeIs ==
  ASSUME TypeOK, NEW t \in Threads, Probe(t)
  PROVE  \E pc \in {"rConnect", "rMissing"} :
           /\ Moves(t, [th[t] EXCEPT !.pc = pc, !.then = "idle", !.sees = qLock])
           /\ pc = "rConnect" => providers = {}
<1> DEFINE pc == IF providers = {} THEN "rConnect" ELSE "rMissing"
<1>1. t \in AllThreads /\ th[t] \in Thread /\ qLock \in Threads \cup {NoThread}
  BY DEF AllThreads, TypeOK
<1>2. pc \in {"rConnect", "rMissing"} /\ pc \in Pcs /\ (pc = "rConnect" => providers = {})
  BY DEF Pcs
<1>3. Becomes(t, [th[t] EXCEPT !.pc = pc, !.then = "idle", !.sees = qLock])
  BY DEF Probe
<1> HIDE DEF pc
<1>4. [th[t] EXCEPT !.pc = pc, !.then = "idle", !.sees = qLock] \in Thread
  BY <1>1, <1>2, Zenon DEF Thread, Pcs
<1>5. QED
  BY <1>1, <1>2, <1>3, <1>4, ThreadBecomes DEF Moves

LEMMA AskQueryIs ==
  ASSUME TypeOK, NEW t \in Threads, AskQuery(t)
  PROVE  \E pc \in {"qEnter", "rConnect"} :
           Moves(t, [Fresh("query", pc) EXCEPT !.then = "asked"])
<1> DEFINE pc == IF rConnected THEN "qEnter" ELSE "rConnect"
<1>1. t \in AllThreads
  BY DEF AllThreads
<1>2. pc \in {"qEnter", "rConnect"} /\ pc \in Pcs
  BY DEF Pcs
<1>3. Becomes(t, [Fresh("query", pc) EXCEPT !.then = "asked"])
  BY DEF AskQuery
<1> HIDE DEF pc
<1>4. [Fresh("query", pc) EXCEPT !.then = "asked"] \in Thread
  <2>1. "query" \in Jobs \cup {"startup"}
    BY DEF Jobs
  <2>2. Fresh("query", pc) \in Thread
    BY <1>2, <2>1, FreshType
  <2> DEFINE j == Fresh("query", pc)
  <2> HIDE DEF j
  <2>3. j \in Thread => [j EXCEPT !.then = "asked"] \in Thread
    BY Zenon DEF Thread
  <2>4. QED
    BY <2>2, <2>3 DEF j
<1>5. QED
  BY <1>1, <1>2, <1>3, <1>4, ThreadBecomes DEF Moves

LEMMA AskedIs ==
  ASSUME TypeOK, NEW t \in AllThreads, Asked(t)
  PROVE  \E pc \in {"qEnter", "idle"} : Moves(t, [th[t] EXCEPT !.pc = pc])
<1> DEFINE pc == IF rConnected THEN "qEnter" ELSE "idle"
<1>1. pc \in {"qEnter", "idle"} /\ pc \in Pcs
  BY DEF Pcs
<1>2. Goes(t, pc) /\ th[t] \in Thread
  BY DEF Asked, TypeOK
<1> HIDE DEF pc
<1>3. QED
  BY <1>1, <1>2, PcType, ThreadGoes DEF Moves

LEMMA AskReconnectIs ==
  ASSUME TypeOK, NEW t \in Threads, AskReconnect(t)
  PROVE  Moves(t, [th[t] EXCEPT !.pc = "rConnect", !.then = "idle"])
<1>1. t \in AllThreads /\ th[t] \in Thread /\ "rConnect" \in Pcs
  BY DEF AllThreads, TypeOK, Pcs
<1>2. [th[t] EXCEPT !.pc = "rConnect", !.then = "idle"] \in Thread
  BY <1>1, Zenon DEF Thread, Pcs
<1>3. QED
  BY <1>1, <1>2, ThreadBecomes DEF Moves, AskReconnect

LEMMA ThenNeedsIs ==
  ASSUME TypeOK, NEW t \in AllThreads, NEW goal \in {"connect", "missing"}, ThenNeeds(t, goal)
  PROVE  \E pc \in {"rNeeds", "cConnect"} :
           Moves(t, [th[t] EXCEPT !.pc = pc, !.back = "rNeeds", !.goal = goal,
                                  !.tab = 1, !.loc = {}])
<1> DEFINE pc == IF cConnected THEN "rNeeds" ELSE "cConnect"
<1>1. th[t] \in Thread
  BY DEF TypeOK
<1>2. pc \in {"rNeeds", "cConnect"} /\ pc \in Pcs
  BY DEF Pcs
<1>3. Becomes(t, [th[t] EXCEPT !.pc = pc, !.back = "rNeeds", !.goal = goal,
                               !.tab = 1, !.loc = {}])
  BY DEF ThenNeeds
<1> HIDE DEF pc
<1>4. [th[t] EXCEPT !.pc = pc, !.back = "rNeeds", !.goal = goal, !.tab = 1, !.loc = {}] \in Thread
  <2>1. 1 \in 1..(Len(CqliteTables) + 1) /\ {} \in SUBSET Tables
    BY ReaderAssumption
  <2>2. QED
    BY <1>1, <1>2, <2>1, Zenon DEF Thread, Pcs
<1>5. QED
  BY <1>2, <1>3, <1>4, ThreadBecomes DEF Moves

\* One table: declined, collected or skipped.
LEMMA RegisterTableIs ==
  ASSUME TypeOK, NEW t \in AllThreads, RegisterTable(t)
  PROVE  /\ th[t].tab \in 1..Len(CqliteTables) /\ CqliteTables[th[t].tab] \in Tables
         /\ \E loc \in {th[t].loc, th[t].loc \cup {CqliteTables[th[t].tab]}} :
              Moves(t, [th[t] EXCEPT !.tab = th[t].tab + 1, !.loc = loc])
<1> DEFINE table == CqliteTables[th[t].tab]
           n == th[t].tab + 1
<1>1. th[t] \in Thread /\ Len(CqliteTables) \in Nat
  BY ReaderAssumption DEF TypeOK
<1>2. th[t].tab \in 1..Len(CqliteTables)
  <2>1. th[t].tab \in 1..(Len(CqliteTables) + 1) /\ th[t].tab <= Len(CqliteTables)
    BY <1>1, ThreadFields DEF RegisterTable
  <2>2. QED
    BY <1>1, <2>1
<1>3. table \in Tables
  BY <1>2, ReaderAssumption, ElementOfSeq
<1>4. n \in 1..(Len(CqliteTables) + 1) /\ th[t].loc \in SUBSET Tables
  BY <1>1, <1>2, ThreadFields
<1>5. \/ Becomes(t, [th[t] EXCEPT !.tab = n])
      \/ Becomes(t, [[th[t] EXCEPT !.tab = n] EXCEPT !.loc = @ \cup {table}])
  BY DEF RegisterTable
<1> HIDE DEF table, n
<1>6. [th[t] EXCEPT !.tab = n] = [th[t] EXCEPT !.tab = n, !.loc = th[t].loc]
  BY <1>1 DEF Thread
<1>7. [[th[t] EXCEPT !.tab = n] EXCEPT !.loc = @ \cup {table}]
        = [th[t] EXCEPT !.tab = n, !.loc = th[t].loc \cup {table}]
  BY <1>1 DEF Thread
<1>8. \A loc \in SUBSET Tables : [th[t] EXCEPT !.tab = n, !.loc = loc] \in Thread
  BY <1>1, <1>4, Zenon DEF Thread
<1>9. \E loc \in {th[t].loc, th[t].loc \cup {table}} :
         loc \in SUBSET Tables /\ Becomes(t, [th[t] EXCEPT !.tab = n, !.loc = loc])
  BY <1>3, <1>4, <1>5, <1>6, <1>7
<1>10. \E loc \in {th[t].loc, th[t].loc \cup {table}} :
         Moves(t, [th[t] EXCEPT !.tab = n, !.loc = loc])
  BY <1>8, <1>9, ThreadBecomes DEF Moves
<1>11. QED
  BY <1>2, <1>3, <1>10 DEF table, n

\* The session is rebuilt.
LEMMA SwapSessionIs ==
  ASSUME TypeOK, NEW t \in AllThreads, SwapSession(t)
  PROVE  /\ th'[t] = [th[t] EXCEPT !.pc = "rFlag"]
         /\ \A u \in AllThreads \ {t} : th'[u] = [th[u] EXCEPT !.same = FALSE]
         /\ th' \in [AllThreads -> Thread]
<1>1. \A u \in AllThreads : th[u] \in Thread
  BY DEF TypeOK
<1>2. "rFlag" \in Pcs
  BY DEF Pcs
<1>3. \A u \in AllThreads : /\ [th[u] EXCEPT !.pc = "rFlag"] \in Thread
                            /\ [th[u] EXCEPT !.same = FALSE] \in Thread
  BY <1>1, <1>2, PcType, MarksType
<1>4. QED
  BY <1>3 DEF SwapSession

\* A statement begins to scan, or names a table that is not registered.
LEMMA EnterQueryIs ==
  ASSUME TypeOK, MainStaysOut, NEW t \in AllThreads, EnterQuery(t)
  PROVE  /\ t \in Threads /\ th' \in [AllThreads -> Thread]
         /\ \/ /\ qLock' = t /\ providers # {}
               /\ th'[t] = [th[t] EXCEPT !.pc = "scanning", !.same = TRUE,
                                         !.told = (abort # "idle")]
               /\ \A u \in AllThreads \ {t} :
                    th'[u] = IF th[u].sees = t THEN [th[u] EXCEPT !.sees = NoThread] ELSE th[u]
            \/ UNCHANGED qLock /\ Moves(t, Fresh("query", "idle"))
<1>1. \A u \in AllThreads : th[u] \in Thread
  BY DEF TypeOK
<1>2. t \in Threads
  BY DEF EnterQuery, MainStaysOut, AllThreads
<1>3. CASE BeginScan(t) /\ qLock' = t /\ providers # {}
  <2> DEFINE told == abort # "idle"
  <2>1. told \in BOOLEAN
    OBVIOUS
  <2>2. th' = [u \in AllThreads |->
                IF u = t THEN [th[t] EXCEPT !.pc = "scanning", !.same = TRUE, !.told = told]
                ELSE IF th[u].sees = t THEN [th[u] EXCEPT !.sees = NoThread] ELSE th[u]]
    BY <1>3 DEF BeginScan
  <2> HIDE DEF told
  <2>3. [th[t] EXCEPT !.pc = "scanning", !.same = TRUE, !.told = told] \in Thread
    BY <1>1, <2>1, ScanType
  <2>4. \A u \in AllThreads : [th[u] EXCEPT !.sees = NoThread] \in Thread
    BY <1>1, MarksType
  <2>5. th' \in [AllThreads -> Thread]
    BY <1>1, <2>2, <2>3, <2>4
  <2>6. /\ th'[t] = [th[t] EXCEPT !.pc = "scanning", !.same = TRUE, !.told = told]
        /\ \A u \in AllThreads \ {t} :
             th'[u] = IF th[u].sees = t THEN [th[u] EXCEPT !.sees = NoThread] ELSE th[u]
    BY <2>2
  <2>7. QED
    BY <1>2, <1>3, <2>5, <2>6 DEF told
<1>4. "query" \in Jobs \cup {"startup"} /\ "idle" \in Pcs
  BY DEF Jobs, Pcs
<1>5. CASE Becomes(t, Fresh("query", "idle")) /\ UNCHANGED qLock
  BY <1>2, <1>4, <1>5, FreshType, ThreadBecomes DEF Moves
<1>6. QED
  BY <1>3, <1>5 DEF EnterQuery

LEMMA ScanEndsIs ==
  ASSUME TypeOK, NEW t \in AllThreads, ScanEnds(t)
  PROVE  Moves(t, Fresh("query", "idle"))
<1>1. "query" \in Jobs \cup {"startup"} /\ "idle" \in Pcs
  BY DEF Jobs, Pcs
<1>2. QED
  BY <1>1, FreshType, ThreadBecomes DEF ScanEnds, Moves

\* A cancel marks the scans that are under way.
LEMMA AbortIs ==
  ASSUME TypeOK, AbortLooks \/ AbortCancels
  PROVE  /\ th' \in [AllThreads -> Thread]
         /\ \A u \in AllThreads :
              \/ th'[u] = th[u]
              \/ th[u].pc = "scanning" /\ th'[u] = [th[u] EXCEPT !.told = TRUE] /\ AbortLooks
              \/ th[u].pc = "scanning" /\ th'[u] = [th[u] EXCEPT !.stop = TRUE] /\ AbortCancels
         /\ AbortLooks => \A u \in AllThreads : th[u].pc = "scanning" =>
                             th'[u] = [th[u] EXCEPT !.told = TRUE]
<1>1. \A u \in AllThreads : th[u] \in Thread
  BY DEF TypeOK
<1>2. \A u \in AllThreads : /\ [th[u] EXCEPT !.told = TRUE] \in Thread
                            /\ [th[u] EXCEPT !.stop = TRUE] \in Thread
  BY <1>1, MarksType
<1>3. CASE AbortLooks
  BY <1>1, <1>2, <1>3 DEF AbortLooks
<1>4. CASE AbortCancels
  <2>1. ~AbortLooks
    BY <1>4 DEF AbortLooks, AbortCancels
  <2>2. QED
    BY <1>1, <1>2, <1>4, <2>1 DEF AbortCancels
<1>5. QED
  BY <1>3, <1>4

\* A thread goes on to another place.
LEMMA GoesIs ==
  ASSUME TypeOK, NEW t \in AllThreads, NEW pc \in Pcs, Goes(t, pc)
  PROVE  Moves(t, [th[t] EXCEPT !.pc = pc])
<1>1. th[t] \in Thread
  BY DEF TypeOK
<1>2. QED
  BY <1>1, PcType, ThreadGoes DEF Moves

\* Where the Cassandra client's connect goes.
LEMMA ConnectingIs ==
  ASSUME TypeOK, NEW t \in AllThreads
  PROVE  /\ ConnectNotNeeded(t) => Moves(t, [th[t] EXCEPT !.pc = th[t].back])
         /\ ConnectBegins(t) => Moves(t, [th[t] EXCEPT !.pc = "cOpening"])
         /\ SessionOpens(t) => Moves(t, [th[t] EXCEPT !.pc = "cClearing"])
         /\ ClearPrepared(t) => Moves(t, [th[t] EXCEPT !.pc = th[t].back])
         /\ ConnectFails(t) =>
              Moves(t, [th[t] EXCEPT !.pc = IF th[t].job = "force" THEN "idle" ELSE th[t].back])
<1>1. th[t].back \in Pcs
  BY ThreadFields DEF TypeOK, Pcs
<1>2. "cOpening" \in Pcs /\ "cClearing" \in Pcs /\ "idle" \in Pcs
  BY DEF Pcs
<1>3. ConnectNotNeeded(t) \/ ClearPrepared(t) => Moves(t, [th[t] EXCEPT !.pc = th[t].back])
  BY <1>1, GoesIs DEF ConnectNotNeeded, ClearPrepared
<1>4. ConnectBegins(t) => Moves(t, [th[t] EXCEPT !.pc = "cOpening"])
  BY <1>2, GoesIs DEF ConnectBegins
<1>5. SessionOpens(t) => Moves(t, [th[t] EXCEPT !.pc = "cClearing"])
  BY <1>2, GoesIs DEF SessionOpens
<1>6. ConnectFails(t) =>
        Moves(t, [th[t] EXCEPT !.pc = IF th[t].job = "force" THEN "idle" ELSE th[t].back])
  <2> DEFINE pc == IF th[t].job = "force" THEN "idle" ELSE th[t].back
  <2>1. pc \in Pcs
    BY <1>1, <1>2
  <2>2. ConnectFails(t) => Goes(t, pc)
    BY DEF ConnectFails
  <2> HIDE DEF pc
  <2>3. ConnectFails(t) => Moves(t, [th[t] EXCEPT !.pc = pc])
    BY <2>1, <2>2, GoesIs
  <2>4. QED
    BY <2>3 DEF pc
<1>7. QED
  BY <1>3, <1>4, <1>5, <1>6

\* Where a transaction or a forced reconnect goes.
LEMMA AskTransactionIs ==
  ASSUME TypeOK, NEW t \in Threads, AskTransaction(t)
  PROVE  \E pc \in {"take", "cConnect"} : Moves(t, [th[t] EXCEPT !.pc = pc, !.back = "take"])
<1> DEFINE pc == IF cConnected THEN "take" ELSE "cConnect"
<1>1. t \in AllThreads /\ th[t] \in Thread
  BY DEF AllThreads, TypeOK
<1>2. pc \in {"take", "cConnect"} /\ pc \in Pcs
  BY DEF Pcs
<1>3. Becomes(t, [th[t] EXCEPT !.pc = pc, !.back = "take"])
  BY DEF AskTransaction
<1> HIDE DEF pc
<1>4. [th[t] EXCEPT !.pc = pc, !.back = "take"] \in Thread
  BY <1>1, <1>2, Zenon DEF Thread, Pcs
<1>5. QED
  BY <1>1, <1>2, <1>3, <1>4, ThreadBecomes DEF Moves

LEMMA AskForcedIs ==
  ASSUME TypeOK, NEW t \in Threads, AskForced(t)
  PROVE  Moves(t, [th[t] EXCEPT !.pc = "cConnect", !.back = "idle"])
<1>1. t \in AllThreads /\ th[t] \in Thread
  BY DEF AllThreads, TypeOK
<1>2. [th[t] EXCEPT !.pc = "cConnect", !.back = "idle"] \in Thread
  BY <1>1, Zenon DEF Thread, Pcs
<1>3. QED
  BY <1>1, <1>2, ThreadBecomes DEF Moves, AskForced

LEMMA TransactingIs ==
  ASSUME TypeOK, NEW t \in AllThreads
  PROVE  /\ TakeSession(t) => \E pc \in {"idle", "prepare"} :
              /\ Moves(t, [th[t] EXCEPT !.pc = pc, !.mine = cSession])
         /\ Prepare(t) \/ PrepareFails(t) => Moves(t, [th[t] EXCEPT !.pc = "idle", !.mine = 0])
<1>1. /\ th[t] \in Thread /\ cSession \in Session /\ 0 \in Session
      /\ "idle" \in Pcs /\ "prepare" \in Pcs
  BY ClientAssumption DEF TypeOK, ClientTypeOK, Session, MaxSessions, Pcs
<1>2. TakeSession(t) => \E pc \in {"idle", "prepare"} :
         Moves(t, [th[t] EXCEPT !.pc = pc, !.mine = cSession])
  <2> SUFFICES ASSUME TakeSession(t)
               PROVE  \E pc \in {"idle", "prepare"} :
                        Moves(t, [th[t] EXCEPT !.pc = pc, !.mine = cSession])
    OBVIOUS
  <2> DEFINE pc == IF cSession = 0 THEN "idle" ELSE "prepare"
  <2>1. pc \in {"idle", "prepare"} /\ pc \in Pcs
    BY <1>1
  <2>2. Becomes(t, [th[t] EXCEPT !.pc = pc, !.mine = cSession])
    BY DEF TakeSession
  <2> HIDE DEF pc
  <2>3. [th[t] EXCEPT !.pc = pc, !.mine = cSession] \in Thread
    BY <1>1, <2>1, Zenon DEF Thread, Pcs
  <2>4. QED
    BY <2>1, <2>2, <2>3, ThreadBecomes DEF Moves
<1>3. [th[t] EXCEPT !.pc = "idle", !.mine = 0] \in Thread
  BY <1>1, Zenon DEF Thread, Pcs
<1>4. Prepare(t) \/ PrepareFails(t) => Moves(t, [th[t] EXCEPT !.pc = "idle", !.mine = 0])
  BY <1>3, ThreadBecomes DEF Prepare, PrepareFails, Moves
<1>5. QED
  BY <1>2, <1>4

-----------------------------------------------------------------------------
(* The Cassandra client *)

\* The fields the Cassandra client's invariant reads are the thread's as before.
SameClient(u) ==
    /\ th'[u].pc = th[u].pc /\ th'[u].job = th[u].job /\ th'[u].back = th[u].back
    /\ th'[u].then = th[u].then /\ th'[u].mine = th[u].mine

\* The thread is elsewhere, before and after.
ElsewhereClient(u) ==
    /\ {th[u].pc, th'[u].pc} \cap (Opening \cup {"prepare"}) = {}
    /\ th[u].job # "force" /\ th'[u].job # "force"

\* A step elsewhere.
AsideClient ==
    /\ UNCHANGED <<cLock, cConnected, cSession, prepared, sessions, forced, overlapped>>
    /\ \A u \in AllThreads : SameClient(u) \/ ElsewhereClient(u)
    /\ MainStaysOut'

LEMMA AsideClientKeeps ==
  ASSUME CassandraInv, AsideClient
  PROVE  CassandraInv'
<1> USE DEF CassandraInv
<1>1. \A u \in AllThreads : /\ th'[u].pc \in Opening \cup {"prepare"} <=>
                               th[u].pc \in Opening \cup {"prepare"}
                            /\ th'[u].pc \in Opening \cup {"prepare"} =>
                               /\ th'[u].pc = th[u].pc /\ th'[u].mine = th[u].mine
                               /\ th'[u].job = th[u].job
  BY DEF AsideClient, SameClient, ElsewhereClient
<1>2. \A u \in AllThreads : th'[u].pc = "cClearing" <=> th[u].pc = "cClearing"
  BY <1>1 DEF Opening
<1>3. Forcing' = Forcing
  BY DEF AsideClient, SameClient, ElsewhereClient, Forcing, AllThreads
<1>4. Credit' = Credit
  BY <1>2 DEF AsideClient, Credit
<1>5. SessionsArePaid'
  BY <1>3, <1>4 DEF SessionsArePaid, AsideClient
<1>6. ForcersForce'
  BY DEF ForcersForce, AsideClient, SameClient, ElsewhereClient, AllThreads
<1>7. ConnectsAlone'
  BY <1>1 DEF ConnectsAlone, AsideClient, Opening
<1>8. StatementsAreKnown'
  BY <1>1, <1>2 DEF StatementsAreKnown, AsideClient, Preparing, AllThreads
<1>9. QED
  BY <1>5, <1>6, <1>7, <1>8 DEF AsideClient

\* A step of one thread that is elsewhere.
LEMMA MovesAside ==
  ASSUME TypeOK, MainStaysOut, NEW t \in AllThreads, NEW j, Moves(t, j),
         {th[t].pc, j.pc} \cap (Opening \cup {"prepare"}) = {},
         th[t].job # "force", j.job # "force",
         t = Main => /\ j.pc \notin {"take", "prepare", "asked", "qEnter", "scanning"}
                     /\ j.back # "take" /\ j.then # "asked",
         UNCHANGED <<cLock, cConnected, cSession, prepared, sessions, forced, overlapped>>
  PROVE  AsideClient
<1>1. \A u \in AllThreads : SameClient(u) \/ ElsewhereClient(u)
  BY DEF Moves, SameClient, ElsewhereClient
<1>2. Main \in AllThreads
  BY DEF AllThreads
<1>3. MainStaysOut'
  BY <1>2 DEF MainStaysOut, Moves
<1>4. QED
  BY <1>1, <1>3 DEF AsideClient

\* A finite number of forced reconnects are on their way.
LEMMA ForcingIsFinite == IsFiniteSet(Forcing) /\ Cardinality(Forcing) \in Nat
<1>1. IsFiniteSet(Forcing)
  BY ClientAssumption, FS_Subset DEF Forcing
<1>2. QED
  BY <1>1, FS_CardinalityType

\* connect() that is not needed returns.
LEMMA NotNeededKeeps ==
  ASSUME TypeOK, CassandraInv, NEW t \in AllThreads, ConnectNotNeeded(t)
  PROVE  CassandraInv'
<1>1. Moves(t, [th[t] EXCEPT !.pc = th[t].back]) /\ th[t] \in Thread
  BY ConnectingIs DEF TypeOK
<1> DEFINE j == [th[t] EXCEPT !.pc = th[t].back]
<1>2. /\ j.pc = th[t].back /\ j.job = th[t].job /\ j.back = th[t].back /\ j.then = th[t].then
  BY <1>1 DEF Thread
<1>3. th[t].back \in {"idle", "startup", "take", "rNeeds"}
  BY <1>1, ThreadFields
<1> HIDE DEF j
<1>4. AsideClient
  <2>1. {th[t].pc, j.pc} \cap (Opening \cup {"prepare"}) = {}
    BY <1>2, <1>3 DEF ConnectNotNeeded, Opening
  <2>2. th[t].job # "force" /\ j.job # "force"
    BY <1>2 DEF ConnectNotNeeded
  <2>3. t = Main => /\ j.pc \notin {"take", "prepare", "asked", "qEnter", "scanning"}
                    /\ j.back # "take" /\ j.then # "asked"
    BY <1>2, <1>3 DEF CassandraInv, MainStaysOut
  <2>4. Moves(t, j)
    BY <1>1 DEF j
  <2>5. QED
    BY <2>1, <2>2, <2>3, <2>4, MovesAside DEF ConnectNotNeeded, clientVars, CassandraInv
<1>5. QED
  BY <1>4, AsideClientKeeps

\* The lock is taken.
LEMMA BeginsKeeps ==
  ASSUME TypeOK, CassandraInv, NEW t \in AllThreads, ConnectBegins(t)
  PROVE  CassandraInv'
<1> USE DEF CassandraInv
<1>1. /\ Moves(t, [th[t] EXCEPT !.pc = "cOpening"]) /\ th[t] \in Thread
  BY ConnectingIs DEF TypeOK
<1>2. /\ th'[t].pc = "cOpening" /\ th'[t].job = th[t].job /\ th'[t].back = th[t].back
      /\ th'[t].then = th[t].then /\ \A u \in AllThreads \ {t} : th'[u] = th[u]
  BY <1>1 DEF Moves, Thread
<1>3. /\ th[t].pc = "cConnect" /\ cLock = NoThread /\ cLock' = t
      /\ th[t].job # "force" => ~cConnected
      /\ UNCHANGED <<cConnected, cSession, prepared, sessions, forced, overlapped>>
  BY DEF ConnectBegins
<1>4. \A u \in AllThreads : th[u].pc \notin Opening
  BY <1>3, ClientAssumption DEF ConnectsAlone, AllThreads
<1>5. \A u \in AllThreads : th'[u].pc # "cClearing" /\ th[u].pc # "cClearing"
  BY <1>2, <1>4 DEF Opening
<1>6. Forcing' = Forcing
  BY <1>2, <1>3 DEF Forcing, AllThreads
<1>7. SessionsArePaid'
  <2>1. Credit' = Credit
    BY <1>3, <1>5 DEF Credit
  <2>2. QED
    BY <1>3, <1>6, <2>1 DEF SessionsArePaid
<1>8. MainStaysOut' /\ ForcersForce'
  <2>1. Main \in AllThreads
    BY DEF AllThreads
  <2>2. QED
    BY <1>2, <1>3, <2>1 DEF MainStaysOut, ForcersForce, Opening, AllThreads
<1>9. ConnectsAlone'
  BY <1>2, <1>3, <1>4 DEF ConnectsAlone, Opening
<1>10. StatementsAreKnown'
  BY <1>2, <1>3, <1>5 DEF StatementsAreKnown, Preparing, AllThreads
<1>11. QED
  BY <1>7, <1>8, <1>9, <1>10

\* A session more was paid for.
LEMMA OpeningIsPaid ==
  ASSUME TypeOK, CassandraInv, NEW t \in AllThreads, th[t].pc = "cOpening"
  PROVE  /\ sessions + 1 <= 1 + forced
         /\ th[t].job = "force" => t \in Forcing /\ Cardinality(Forcing) >= 1
         /\ th[t].job # "force" => Credit = 1
<1> USE DEF CassandraInv
<1>1. sessions \in Nat /\ forced \in Nat /\ Cardinality(Forcing) \in Nat /\ Credit \in {0, 1}
  BY ForcingIsFinite DEF TypeOK, ClientTypeOK, Credit
<1>2. ASSUME th[t].job = "force" PROVE t \in Forcing /\ Cardinality(Forcing) >= 1
  <2>1. t \in Threads
    BY <1>2 DEF AllThreads, MainStaysOut
  <2>2. t \in Forcing
    BY <1>2, <2>1 DEF Forcing
  <2>3. Cardinality(Forcing) # 0
    BY <2>2, ForcingIsFinite, FS_EmptySet
  <2>4. QED
    BY <1>1, <2>2, <2>3
<1>3. ASSUME th[t].job # "force" PROVE Credit = 1
  <2>1. ~cConnected
    BY <1>3 DEF ConnectsAlone
  <2>2. \A u \in AllThreads : th[u].pc # "cClearing"
    BY DEF ConnectsAlone, Opening
  <2>3. QED
    BY <2>1, <2>2 DEF Credit
<1>4. sessions + 1 <= 1 + forced
  BY <1>1, <1>2, <1>3 DEF SessionsArePaid
<1>5. QED
  BY <1>2, <1>3, <1>4

\* A session is there, and the cache still to be emptied.
LEMMA OpensKeeps ==
  ASSUME TypeOK, CassandraInv, NEW t \in AllThreads, SessionOpens(t)
  PROVE  CassandraInv'
<1> USE DEF CassandraInv
<1>1. Moves(t, [th[t] EXCEPT !.pc = "cClearing"]) /\ th[t] \in Thread
  BY ConnectingIs DEF TypeOK
<1>2. /\ th'[t].pc = "cClearing" /\ th'[t].job = th[t].job /\ th'[t].back = th[t].back
      /\ th'[t].then = th[t].then /\ \A u \in AllThreads \ {t} : th'[u] = th[u]
  BY <1>1 DEF Moves, Thread
<1>3. /\ th[t].pc = "cOpening" /\ sessions' = sessions + 1 /\ cSession' = sessions + 1
      /\ overlapped' = overlapped \cup {th[u].mine : u \in {v \in Threads : Preparing(v)}}
      /\ UNCHANGED <<cLock, cConnected, prepared, forced>>
  BY DEF SessionOpens
<1>4. sessions \in Nat /\ forced \in Nat
  BY DEF TypeOK, ClientTypeOK
<1>5. cSession' # 0
  BY <1>3, <1>4
<1>6. \A u \in AllThreads : th[u].pc \in Opening => u = t
  BY <1>3 DEF ConnectsAlone, Opening
<1>7. SessionsArePaid'
  <2>1. Credit' = 0
    BY <1>2 DEF Credit
  <2>2. Forcing' = Forcing \ {t}
    BY <1>2, <1>3 DEF Forcing, AllThreads
  <2>3. Cardinality(Forcing) \in Nat /\ Credit \in {0, 1}
    BY ForcingIsFinite DEF Credit
  <2>4. CASE th[t].job = "force"
    <3>1. t \in Forcing
      BY <1>3, <2>4, OpeningIsPaid
    <3>2. Cardinality(Forcing \ {t}) = Cardinality(Forcing) - 1
      BY <3>1, ForcingIsFinite, FS_RemoveElement
    <3>3. QED
      BY <1>3, <1>4, <2>1, <2>2, <2>3, <3>2 DEF SessionsArePaid
  <2>5. CASE th[t].job # "force"
    <3>1. Credit = 1 /\ t \notin Forcing
      BY <1>3, <2>5, OpeningIsPaid DEF Forcing
    <3>2. Forcing' = Forcing
      BY <2>2, <3>1
    <3>3. QED
      BY <1>3, <1>4, <2>1, <2>3, <3>1, <3>2 DEF SessionsArePaid
  <2>6. QED
    BY <2>4, <2>5
<1>8. MainStaysOut' /\ ForcersForce'
  <2>1. Main \in AllThreads
    BY DEF AllThreads
  <2>2. QED
    BY <1>2, <1>3, <2>1 DEF MainStaysOut, ForcersForce, Opening, AllThreads
<1>9. ConnectsAlone'
  BY <1>2, <1>3, <1>5, <1>6 DEF ConnectsAlone, Opening
<1>10. StatementsAreKnown'
  <2>1. ASSUME NEW v \in Threads, Preparing(v)' PROVE th'[v].mine \in overlapped'
    <3>1. v # t /\ v \in AllThreads
      BY <1>2, <2>1 DEF Preparing, AllThreads
    <3>2. Preparing(v) /\ th'[v].mine = th[v].mine
      BY <1>2, <2>1, <3>1 DEF Preparing
    <3>3. QED
      BY <1>3, <3>2
  <2>2. QED
    BY <1>2, <2>1 DEF StatementsAreKnown
<1>11. QED
  BY <1>7, <1>8, <1>9, <1>10

\* The cache is emptied, and the flag and the session agree.
LEMMA ClearKeeps ==
  ASSUME TypeOK, CassandraInv, NEW t \in AllThreads, ClearPrepared(t)
  PROVE  CassandraInv'
<1> USE DEF CassandraInv
<1>1. Moves(t, [th[t] EXCEPT !.pc = th[t].back]) /\ th[t] \in Thread
  BY ConnectingIs DEF TypeOK
<1>2. /\ th'[t].pc = th[t].back /\ th'[t].job = th[t].job /\ th'[t].back = th[t].back
      /\ th'[t].then = th[t].then /\ \A u \in AllThreads \ {t} : th'[u] = th[u]
      /\ th[t].back \in {"idle", "startup", "take", "rNeeds"}
  BY <1>1, ThreadFields DEF Moves, Thread
<1>3. /\ th[t].pc = "cClearing" /\ prepared' = 0 /\ cConnected' = TRUE /\ cLock' = NoThread
      /\ UNCHANGED <<cSession, sessions, forced, overlapped>>
  BY DEF ClearPrepared
<1>4. cSession # 0 /\ \A u \in AllThreads : th[u].pc \in Opening => u = t
  BY <1>3 DEF ConnectsAlone, Opening
<1>5. \A u \in AllThreads : th'[u].pc \notin Opening
  BY <1>2, <1>4 DEF Opening
<1>6. SessionsArePaid'
  <2>1. Credit' = 0 /\ Credit = 0
    BY <1>3 DEF Credit
  <2>2. Forcing' = Forcing
    BY <1>2, <1>3 DEF Forcing, AllThreads
  <2>3. QED
    BY <1>3, <2>1, <2>2 DEF SessionsArePaid
<1>7. MainStaysOut' /\ ForcersForce'
  <2>1. Main \in AllThreads
    BY DEF AllThreads
  <2>2. QED
    BY <1>2, <1>3, <2>1 DEF MainStaysOut, ForcersForce, Opening, AllThreads
<1>8. ConnectsAlone'
  BY <1>5 DEF ConnectsAlone, Opening
<1>9. StatementsAreKnown'
  BY <1>2, <1>3, <1>4 DEF StatementsAreKnown, Preparing, AllThreads
<1>10. QED
  BY <1>6, <1>7, <1>8, <1>9

\* A connect fails: no session, and the flag says so.
LEMMA FailsKeeps ==
  ASSUME TypeOK, CassandraInv, NEW t \in AllThreads, ConnectFails(t)
  PROVE  CassandraInv'
<1> USE DEF CassandraInv
<1> DEFINE pc == IF th[t].job = "force" THEN "idle" ELSE th[t].back
<1>1. Moves(t, [th[t] EXCEPT !.pc = pc]) /\ th[t] \in Thread
  BY ConnectingIs DEF TypeOK
<1>2. /\ pc \in {"idle", "startup", "take", "rNeeds"} /\ (th[t].job = "force" => pc = "idle")
      /\ pc \in {"idle", th[t].back} /\ th[t].back \in {"idle", "startup", "take", "rNeeds"}
  BY <1>1, ThreadFields
<1> HIDE DEF pc
<1>3. /\ th'[t].pc = pc /\ th'[t].job = th[t].job /\ th'[t].back = th[t].back
      /\ th'[t].then = th[t].then /\ \A u \in AllThreads \ {t} : th'[u] = th[u]
  BY <1>1 DEF Moves, Thread
<1>4. /\ th[t].pc = "cOpening" /\ cConnected' = FALSE /\ cSession' = 0 /\ cLock' = NoThread
      /\ UNCHANGED <<prepared, sessions, forced, overlapped>>
  BY DEF ConnectFails
<1>5. \A u \in AllThreads : th[u].pc \in Opening => u = t
  BY <1>4 DEF ConnectsAlone, Opening
<1>6. \A u \in AllThreads : th'[u].pc \notin Opening
  BY <1>2, <1>3, <1>5 DEF Opening
<1>7. SessionsArePaid'
  <2>1. Credit' \in {0, 1}
    BY DEF Credit
  <2>2. Forcing' = Forcing \ {t}
    BY <1>2, <1>3, <1>4 DEF Forcing, AllThreads
  <2>3. Cardinality(Forcing) \in Nat /\ Credit \in {0, 1} /\ sessions \in Nat /\ forced \in Nat
    BY ForcingIsFinite DEF Credit, TypeOK, ClientTypeOK
  <2>4. CASE th[t].job = "force"
    <3>1. t \in Forcing
      BY <1>4, <2>4, OpeningIsPaid
    <3>2. Cardinality(Forcing \ {t}) = Cardinality(Forcing) - 1
      BY <3>1, ForcingIsFinite, FS_RemoveElement
    <3>3. QED
      BY <1>4, <2>1, <2>2, <2>3, <3>2 DEF SessionsArePaid
  <2>5. CASE th[t].job # "force"
    <3>1. Credit = 1 /\ t \notin Forcing
      BY <1>4, <2>5, OpeningIsPaid DEF Forcing
    <3>2. Forcing' = Forcing
      BY <2>2, <3>1
    <3>3. QED
      BY <1>4, <2>1, <2>3, <3>1, <3>2 DEF SessionsArePaid
  <2>6. QED
    BY <2>4, <2>5
<1>8. MainStaysOut' /\ ForcersForce'
  <2>1. Main \in AllThreads
    BY DEF AllThreads
  <2>2. QED
    BY <1>2, <1>3, <1>4, <2>1 DEF MainStaysOut, ForcersForce, Opening, AllThreads
<1>9. ConnectsAlone'
  BY <1>6 DEF ConnectsAlone, Opening
<1>10. StatementsAreKnown'
  BY <1>4 DEF StatementsAreKnown
<1>11. QED
  BY <1>7, <1>8, <1>9, <1>10

\* A transaction takes the session there is, and prepares its statement.
LEMMA TransactionKeeps ==
  ASSUME TypeOK, CassandraInv, NEW t \in AllThreads, Transacting(t)
  PROVE  CassandraInv'
<1> USE DEF CassandraInv
<1>1. th[t] \in Thread /\ Main \in AllThreads
  BY DEF TypeOK, AllThreads
<1>2. th[t].pc \in {"take", "prepare"}
  BY DEF Transacting, TakeSession, Prepare, PrepareFails, Preparing
<1>3. t \in Threads /\ th[t].job # "force"
  BY <1>2 DEF MainStaysOut, ForcersForce, Opening, AllThreads
<1>4. UNCHANGED <<cLock, cConnected, cSession, sessions, forced, overlapped>>
  BY DEF Transacting, TakeSession, Prepare, PrepareFails, clientVars
<1>5. PICK pc \in {"idle", "prepare"}, mine \in Session :
        /\ Moves(t, [th[t] EXCEPT !.pc = pc, !.mine = mine])
        /\ pc = "prepare" => mine = cSession
  <2>1. CASE TakeSession(t)
    <3>1. cSession \in Session
      BY DEF TypeOK, ClientTypeOK
    <3>2. QED
      BY <2>1, <3>1, TransactingIs
  <2>2. CASE Prepare(t) \/ PrepareFails(t)
    <3>1. 0 \in Session
      BY ClientAssumption DEF Session, MaxSessions
    <3>2. QED
      BY <2>2, <3>1, TransactingIs
  <2>3. QED
    BY <2>1, <2>2 DEF Transacting
<1>6. /\ th'[t].pc = pc /\ th'[t].job = th[t].job /\ th'[t].mine = mine
      /\ \A u \in AllThreads \ {t} : th'[u] = th[u]
  BY <1>1, <1>5 DEF Moves, Thread
<1>7. \A u \in AllThreads : th'[u].pc \in Opening <=> th[u].pc \in Opening
  BY <1>2, <1>6 DEF Opening
<1>8. \A u \in AllThreads : th'[u].pc = "cClearing" <=> th[u].pc = "cClearing"
  BY <1>2, <1>6
<1>9. SessionsArePaid'
  <2>1. Credit' = Credit
    BY <1>4, <1>8 DEF Credit
  <2>2. Forcing' = Forcing
    BY <1>3, <1>6 DEF Forcing, AllThreads
  <2>3. QED
    BY <1>4, <2>1, <2>2 DEF SessionsArePaid
<1>10. MainStaysOut' /\ ForcersForce'
  <2>1. t # Main
    BY <1>3, ClientAssumption
  <2>2. QED
    BY <1>1, <1>3, <1>6, <2>1 DEF MainStaysOut, ForcersForce, AllThreads
<1>11. ConnectsAlone'
  BY <1>2, <1>4, <1>6 DEF ConnectsAlone, Opening
<1>12. StatementsAreKnown'
  <2>1. ASSUME cSession # 0
        PROVE  prepared' \in {0, cSession} \cup overlapped \/ prepared' = prepared
    <3>1. CASE Prepare(t)
      BY <2>1, <3>1, <1>3 DEF Prepare, StatementsAreKnown
    <3>2. CASE TakeSession(t) \/ PrepareFails(t)
      BY <3>2 DEF TakeSession, PrepareFails, clientVars
    <3>3. QED
      BY <3>1, <3>2 DEF Transacting
  <2>2. \A v \in Threads : Preparing(v)' /\ cSession' # 0 =>
           th'[v].mine \in {cSession'} \cup overlapped'
    <3>1. ASSUME NEW v \in Threads, v # t, Preparing(v)', cSession' # 0
          PROVE  th'[v].mine \in {cSession'} \cup overlapped'
      BY <3>1, <1>4, <1>6 DEF StatementsAreKnown, Preparing, AllThreads
    <3>2. ASSUME Preparing(t)' PROVE th'[t].mine = cSession'
      BY <3>2, <1>4, <1>5, <1>6 DEF Preparing
    <3>3. QED
      BY <3>1, <3>2
  <2>3. (\A u \in AllThreads : th'[u].pc # "cClearing") =>
          /\ cConnected' <=> cSession' # 0
          /\ cSession' # 0 => prepared' \in {0, cSession'} \cup overlapped'
    BY <1>4, <1>8, <2>1 DEF StatementsAreKnown
  <2>4. QED
    BY <2>2, <2>3 DEF StatementsAreKnown
<1>13. QED
  BY <1>9, <1>10, <1>11, <1>12

\* A forced reconnect is on its way, and pays for a session.
LEMMA ForcedKeeps ==
  ASSUME TypeOK, CassandraInv, NEW t \in Threads, AskForced(t)
  PROVE  CassandraInv'
<1> USE DEF CassandraInv
<1>1. /\ Moves(t, [th[t] EXCEPT !.pc = "cConnect", !.back = "idle"]) /\ th[t] \in Thread
      /\ t \in AllThreads /\ Main \in AllThreads /\ t # Main
  BY AskForcedIs, ClientAssumption DEF TypeOK, AllThreads
<1>2. /\ th'[t].pc = "cConnect" /\ th'[t].job = th[t].job /\ th'[t].back = "idle"
      /\ \A u \in AllThreads \ {t} : th'[u] = th[u]
  BY <1>1 DEF Moves, Thread
<1>3. /\ th[t].pc = "idle" /\ th[t].job = "force" /\ forced' = forced + 1
      /\ UNCHANGED <<cLock, cConnected, cSession, prepared, sessions, overlapped>>
  BY DEF AskForced
<1>4. \A u \in AllThreads : th'[u].pc = "cClearing" <=> th[u].pc = "cClearing"
  BY <1>2, <1>3
<1>5. SessionsArePaid'
  <2>1. Credit' = Credit
    BY <1>3, <1>4 DEF Credit
  <2>2. Forcing' = Forcing \cup {t} /\ t \notin Forcing
    BY <1>2, <1>3 DEF Forcing, AllThreads
  <2>3. Cardinality(Forcing') = Cardinality(Forcing) + 1
    BY <2>2, ForcingIsFinite, FS_AddElement
  <2>4. Cardinality(Forcing) \in Nat /\ Credit \in {0, 1} /\ sessions \in Nat /\ forced \in Nat
    BY ForcingIsFinite DEF Credit, TypeOK, ClientTypeOK
  <2>5. QED
    BY <1>3, <2>1, <2>3, <2>4 DEF SessionsArePaid
<1>6. MainStaysOut' /\ ForcersForce'
  BY <1>1, <1>2, <1>3 DEF MainStaysOut, ForcersForce, AllThreads
<1>7. ConnectsAlone'
  BY <1>2, <1>3 DEF ConnectsAlone, Opening
<1>8. StatementsAreKnown'
  BY <1>2, <1>3, <1>4 DEF StatementsAreKnown, Preparing, AllThreads
<1>9. QED
  BY <1>5, <1>6, <1>7, <1>8

-----------------------------------------------------------------------------
(* Steps beside the Cassandra client, the registering and the scans *)

\* A step of one thread that is elsewhere, as the Cassandra client sees it.
LEMMA BesideClient ==
  ASSUME TypeOK, CassandraInv, NEW t \in AllThreads, NEW j, Moves(t, j),
         th[t].pc \notin Opening \cup {"cConnect", "prepare"},
         th[t].pc = "idle" => th[t].job # "force",
         j.pc \notin Opening \cup {"prepare"}, j.job \in {th[t].job, "query"},
         t = Main => /\ j.pc \notin {"take", "asked", "qEnter", "scanning"}
                     /\ j.back # "take" /\ j.then # "asked",
         UNCHANGED <<cLock, cConnected, cSession, prepared, sessions, forced, overlapped>>
  PROVE  CassandraInv'
<1>1. th[t].job # "force"
  BY DEF CassandraInv, MainStaysOut, ForcersForce, AllThreads
<1>2. AsideClient
  BY <1>1, MovesAside DEF CassandraInv
<1>3. QED
  BY <1>2, AsideClientKeeps

\* No thread begins to register or to rebuild, and none that rebuilds stops.
AsideReader ==
    /\ UNCHANGED <<rLock, declined, providers, ctx, rConnected>>
    /\ \A u \in AllThreads :
        /\ Registers(u)' => /\ Registers(u) /\ th'[u].loc = th[u].loc /\ th'[u].tab = th[u].tab
        /\ Rebuilds(u)' <=> Rebuilds(u)
        /\ WillRebuild(u)' => WillRebuild(u)
        /\ th'[u].pc = "rFlag" => th[u].pc = "rFlag"

LEMMA AsideReaderKeeps ==
  ASSUME RegisterInv, AsideReader
  PROVE  RegisterInv'
<1>1. ASSUME NEW u \in AllThreads
      PROVE  /\ Registers(u)' => rLock' = u
             /\ WillRebuild(u)' => declined' = {} /\ th'[u].loc = {} /\ th'[u].tab = 1
             /\ Rebuilds(u)' => /\ declined' \cap th'[u].loc = {}
                                /\ declined' \cup th'[u].loc \subseteq BeenThrough(u)'
             /\ th'[u].pc = "rFlag" => ctx'
  <2>1. Registers(u)' => rLock' = u
    BY DEF RegisterInv, RegistersAlone, AsideReader
  <2>2. WillRebuild(u)' => declined' = {} /\ th'[u].loc = {} /\ th'[u].tab = 1
    <3>1. WillRebuild(u)' => Registers(u)'
      BY DEF WillRebuild
    <3>2. QED
      BY <3>1 DEF RegisterInv, RegistersAlone, AsideReader
  <2>3. Rebuilds(u)' => /\ declined' \cap th'[u].loc = {}
                        /\ declined' \cup th'[u].loc \subseteq BeenThrough(u)'
    <3>1. SUFFICES ASSUME Rebuilds(u)'
                   PROVE  /\ declined' \cap th'[u].loc = {}
                          /\ declined' \cup th'[u].loc \subseteq BeenThrough(u)'
      OBVIOUS
    <3>2. Registers(u)'
      BY <3>1 DEF Rebuilds, Registers
    <3>3. Rebuilds(u) /\ th'[u].loc = th[u].loc /\ th'[u].tab = th[u].tab /\ declined' = declined
      BY <3>1, <3>2 DEF AsideReader
    <3>4. BeenThrough(u)' = BeenThrough(u)
      BY <3>3 DEF BeenThrough
    <3>5. QED
      BY <3>3, <3>4 DEF RegisterInv, RegistersAlone
  <2>4. th'[u].pc = "rFlag" => ctx'
    BY DEF RegisterInv, RegistersAlone, AsideReader
  <2>5. QED
    BY <2>1, <2>2, <2>3, <2>4
<1>2. RegistersAlone'
  BY <1>1 DEF RegistersAlone
<1>3. ListsAreDisjoint'
  BY DEF RegisterInv, ListsAreDisjoint, AsideReader
<1>4. QED
  BY <1>2, <1>3 DEF RegisterInv, AsideReader

\* A step of one thread that is elsewhere, as the registering sees it.
LEMMA BesideReader ==
  ASSUME RegisterInv, NEW t \in AllThreads, NEW j, Moves(t, j), th[t].pc # "rTables",
         j.pc \notin {"rNeeds", "rTables", "rFlag"},
         j.pc \in Opening \cup {"cConnect"} => j.back # "rNeeds",
         UNCHANGED <<rLock, declined, providers, ctx, rConnected>>
  PROVE  RegisterInv'
<1>1. ~Registers(t)' /\ ~Rebuilds(t)' /\ ~Rebuilds(t) /\ ~WillRebuild(t)' /\ th'[t].pc # "rFlag"
  BY DEF Moves, Registers, Rebuilds, WillRebuild
<1>2. ASSUME NEW u \in AllThreads, u # t
      PROVE  /\ th'[u] = th[u] /\ Registers(u)' = Registers(u)
             /\ Rebuilds(u)' = Rebuilds(u) /\ WillRebuild(u)' = WillRebuild(u)
  BY <1>2 DEF Moves, Registers, Rebuilds, WillRebuild
<1>3. AsideReader
  BY <1>1, <1>2 DEF AsideReader
<1>4. QED
  BY <1>3, AsideReaderKeeps

\* No scan begins or is told anything, and no probe makes for rebuilding.
AsideScan ==
    /\ providers' = {} => providers = {}
    /\ aborted' => aborted
    /\ UNCHANGED abort
    /\ \A u \in AllThreads :
        /\ th'[u].pc = "scanning" =>
             th[u].pc = "scanning" /\ th'[u].told = th[u].told /\ th'[u].same = th[u].same
        /\ th'[u].stop => th[u].stop /\ th'[u].pc = "scanning" /\ th'[u].told = th[u].told
        /\ u \in Threads /\ th'[u].job = "probe" /\ HeadsForOne(u)' =>
             th[u].job = "probe" /\ HeadsForOne(u) /\ th'[u].sees \in {th[u].sees, NoThread}

LEMMA AsideScanKeeps ==
  ASSUME ScanInv, AsideScan
  PROVE  ScanInv'
<1> USE DEF ScanInv
<1>1. AbortsAreNoticed'
  BY DEF AbortsAreNoticed, AsideScan
<1>2. NothingIsScanned'
  BY DEF NothingIsScanned, AsideScan
<1>3. ProbesSawNothing'
  <2>1. SUFFICES ASSUME NEW t \in Threads, NEW u \in AllThreads, th'[t].job = "probe",
                        th'[t].sees = u, th'[u].pc = "scanning", HeadsForOne(t)'
                 PROVE  ~th'[u].same
    BY DEF ProbesSawNothing
  <2>2. t \in AllThreads /\ u # NoThread
    BY ClientAssumption DEF AllThreads
  <2>3. th[t].job = "probe" /\ HeadsForOne(t) /\ th[t].sees = u
    BY <2>1, <2>2 DEF AsideScan
  <2>4. th[u].pc = "scanning" /\ th'[u].same = th[u].same
    BY <2>1 DEF AsideScan
  <2>5. QED
    BY <2>3, <2>4 DEF ProbesSawNothing
<1>4. QED
  BY <1>1, <1>2, <1>3

\* A step of one thread that does not scan, as the scans see it.
LEMMA BesideScan ==
  ASSUME ScanInv, NEW t \in AllThreads, NEW j, Moves(t, j),
         j.pc # "scanning", ~j.stop,
         t \in Threads /\ j.job = "probe" /\ HeadsForOne(t)' =>
            th[t].job = "probe" /\ HeadsForOne(t) /\ j.sees = th[t].sees,
         providers' = {} => providers = {}, aborted' => aborted, UNCHANGED abort
  PROVE  ScanInv'
<1>1. ASSUME NEW u \in AllThreads, u # t
      PROVE  th'[u] = th[u] /\ HeadsForOne(u)' = HeadsForOne(u)
  BY <1>1 DEF Moves, HeadsForOne, Registers, Rebuilds, WillRebuild
<1>2. th'[t] = j
  BY DEF Moves
<1>3. AsideScan
  <2>1. ASSUME NEW u \in AllThreads
        PROVE
        /\ th'[u].pc = "scanning" =>
             th[u].pc = "scanning" /\ th'[u].told = th[u].told /\ th'[u].same = th[u].same
        /\ th'[u].stop => th[u].stop /\ th'[u].pc = "scanning" /\ th'[u].told = th[u].told
        /\ u \in Threads /\ th'[u].job = "probe" /\ HeadsForOne(u)' =>
             th[u].job = "probe" /\ HeadsForOne(u) /\ th'[u].sees \in {th[u].sees, NoThread}
    <3>1. CASE u = t
      BY <1>2, <3>1
    <3>2. CASE u # t
      BY <1>1, <3>2 DEF ScanInv, AbortsAreNoticed
    <3>3. QED
      BY <3>1, <3>2
  <2>2. QED
    BY <2>1 DEF AsideScan
<1>4. QED
  BY <1>3, AsideScanKeeps

\* A thread that does not scan was not told to stop.
LEMMA OnlyScansStop ==
  ASSUME ScanInv, NEW t \in AllThreads, th[t].pc # "scanning"
  PROVE  ~th[t].stop
  BY DEF ScanInv, AbortsAreNoticed
-----------------------------------------------------------------------------
(* The Cassandra client's steps beside the reader *)

\* The reader's connect may be the caller of the Cassandra client's.
LEMMA ConnectingBeside ==
  ASSUME TypeOK, RegisterInv, ScanInv, NEW t \in AllThreads, Connecting(t),
         UNCHANGED <<readerVars, abort>>
  PROVE  RegisterInv' /\ ScanInv'
<1>1. PICK pc \in Opening \cup {"idle", th[t].back} : Moves(t, [th[t] EXCEPT !.pc = pc])
  <2>1. "cOpening" \in Opening /\ "cClearing" \in Opening
    BY DEF Opening
  <2>2. QED
    BY <2>1, ConnectingIs DEF Connecting
<1>2. th[t] \in Thread /\ th[t].pc \in Opening \cup {"cConnect"}
  BY DEF TypeOK, Connecting, ConnectNotNeeded, ConnectBegins, SessionOpens, ClearPrepared,
         ConnectFails, Opening
<1>3. /\ th'[t].pc = pc /\ th'[t].job = th[t].job /\ th'[t].back = th[t].back
      /\ th'[t].goal = th[t].goal /\ th'[t].tab = th[t].tab /\ th'[t].loc = th[t].loc
      /\ th'[t].stop = th[t].stop /\ th'[t].sees = th[t].sees
      /\ \A u \in AllThreads \ {t} : th'[u] = th[u]
  BY <1>1, <1>2 DEF Moves, Thread
<1>4. /\ pc \in Opening \cup {"idle", "startup", "take", "rNeeds"}
      /\ (pc = "rNeeds" => th[t].back = "rNeeds")
  BY <1>2, ThreadFields DEF Opening
<1>5. /\ Registers(t)' => Registers(t)
      /\ WillRebuild(t)' => WillRebuild(t)
  BY <1>2, <1>3, <1>4 DEF Registers, WillRebuild, Opening
<1>6. /\ ~Rebuilds(t)' /\ ~Rebuilds(t) /\ th'[t].pc # "rFlag"
      /\ "scanning" \notin {th[t].pc, th'[t].pc} /\ "rConnect" \notin {th[t].pc, th'[t].pc}
  BY <1>2, <1>3, <1>4 DEF Rebuilds, Opening
<1>7. RegisterInv'
  <2>1. ASSUME NEW u \in AllThreads, u # t
        PROVE  /\ th'[u] = th[u] /\ Registers(u)' = Registers(u)
               /\ Rebuilds(u)' = Rebuilds(u) /\ WillRebuild(u)' = WillRebuild(u)
    BY <1>3, <2>1 DEF Registers, Rebuilds, WillRebuild
  <2>2. AsideReader
    BY <1>3, <1>5, <1>6, <2>1 DEF AsideReader, readerVars
  <2>3. QED
    BY <2>2, AsideReaderKeeps
<1>8. ScanInv'
  <2>1. ~th'[t].stop
    BY <1>3, <1>6, OnlyScansStop
  <2>2. HeadsForOne(t)' => HeadsForOne(t)
    BY <1>5, <1>6 DEF HeadsForOne
  <2>3. Moves(t, th'[t])
    BY <1>1 DEF Moves
  <2>4. QED
    BY <1>3, <1>6, <2>1, <2>2, <2>3, BesideScan DEF readerVars
<1>9. QED
  BY <1>7, <1>8

\* Transactions and forced reconnects have nothing to do with the reader.
LEMMA TransactingBeside ==
  ASSUME TypeOK, RegisterInv, ScanInv, NEW t \in AllThreads,
         Transacting(t) \/ (t \in Threads /\ (AskTransaction(t) \/ AskForced(t))),
         UNCHANGED <<readerVars, abort>>
  PROVE  RegisterInv' /\ ScanInv'
<1>1. th[t] \in Thread /\ th[t].pc \in {"take", "prepare", "idle"}
  BY DEF TypeOK, Transacting, TakeSession, Prepare, PrepareFails, Preparing, AskTransaction,
         AskForced
<1>2. /\ Moves(t, th'[t]) /\ th'[t].pc \in {"idle", "prepare", "take", "cConnect"}
      /\ th'[t].pc = "cConnect" => th'[t].back # "rNeeds"
      /\ th'[t].stop = th[t].stop
  <2>1. CASE TakeSession(t)
    <3>1. PICK pc \in {"idle", "prepare"} : Moves(t, [th[t] EXCEPT !.pc = pc, !.mine = cSession])
      BY <2>1, TransactingIs
    <3>2. QED
      BY <1>1, <3>1 DEF Thread, Moves
  <2>2. CASE Prepare(t) \/ PrepareFails(t)
    <3>1. Moves(t, [th[t] EXCEPT !.pc = "idle", !.mine = 0])
      BY <2>2, TransactingIs
    <3>2. QED
      BY <1>1, <3>1 DEF Thread, Moves
  <2>3. CASE t \in Threads /\ AskTransaction(t)
    <3>1. PICK pc \in {"take", "cConnect"} : Moves(t, [th[t] EXCEPT !.pc = pc, !.back = "take"])
      BY <2>3, AskTransactionIs
    <3>2. QED
      BY <1>1, <3>1 DEF Thread, Moves
  <2>4. CASE t \in Threads /\ AskForced(t)
    <3>1. Moves(t, [th[t] EXCEPT !.pc = "cConnect", !.back = "idle"])
      BY <2>4, AskForcedIs
    <3>2. QED
      BY <1>1, <3>1 DEF Thread, Moves
  <2>5. QED
    BY <2>1, <2>2, <2>3, <2>4 DEF Transacting
<1>3. RegisterInv'
  BY <1>1, <1>2, BesideReader DEF Opening, readerVars
<1>4. ScanInv'
  <2>1. ~HeadsForOne(t)' /\ ~th'[t].stop
    BY <1>1, <1>2, OnlyScansStop DEF HeadsForOne, Registers, Rebuilds, WillRebuild, Moves, Opening
  <2>2. QED
    BY <1>1, <1>2, <2>1, BesideScan DEF readerVars
<1>5. QED
  BY <1>3, <1>4
-----------------------------------------------------------------------------
(* The reader's steps *)

Beside == CassandraInv /\ RegisterInv /\ ScanInv

\* The startup goes on, a query or a reconnect begins, and what a query found connected.
LEMMA AskingKeeps ==
  ASSUME TypeOK, Beside, NEW t \in AllThreads,
         \/ t = Main /\ StartUp
         \/ t \in Threads /\ (AskQuery(t) \/ AskReconnect(t))
         \/ Asked(t),
         UNCHANGED abort
  PROVE  Beside'
<1> USE DEF Beside
<1>1. /\ th[t] \in Thread /\ UNCHANGED <<clientVars, readerVars>>
      /\ th[t].pc \in {"startup", "idle", "asked"}
      /\ th[t].pc = "idle" => th[t].job \in {"query", "reconnect"}
      /\ th[t].pc = "startup" => t = Main
  BY DEF TypeOK, StartUp, AskQuery, AskReconnect, Asked, Ready
<1>2. Main \notin Threads /\ (th[t].pc = "asked" => t # Main)
  BY ClientAssumption DEF CassandraInv, MainStaysOut
<1>3. /\ Moves(t, th'[t]) /\ th'[t].pc \in {"cConnect", "rConnect", "qEnter", "idle"}
      /\ th'[t].pc = "cConnect" => th'[t].back = "startup"
      /\ ~th'[t].stop /\ th'[t].job \in {th[t].job, "query"}
      /\ th'[t].pc = "rConnect" => t = Main \/ th'[t].job \in {"query", "reconnect"}
      /\ t = Main => /\ th'[t].pc \in {"cConnect", "rConnect"} /\ th'[t].back = "startup"
                     /\ th'[t].then = "served"
  <2>1. ~th[t].stop
    BY <1>1, OnlyScansStop
  <2>2. CASE t = Main /\ StartUp
    <3>1. PICK pc \in {"cConnect", "rConnect"} :
            Moves(t, [th[t] EXCEPT !.pc = pc, !.back = "startup", !.then = "served"])
      BY <2>2, StartUpIs
    <3>2. QED
      BY <1>1, <2>1, <2>2, <3>1 DEF Thread, Moves
  <2>3. CASE t \in Threads /\ AskQuery(t)
    <3>1. PICK pc \in {"qEnter", "rConnect"} :
            Moves(t, [Fresh("query", pc) EXCEPT !.then = "asked"])
      BY <2>3, AskQueryIs
    <3>2. QED
      BY <1>2, <2>3, <3>1 DEF Fresh, Moves
  <2>4. CASE t \in Threads /\ AskReconnect(t)
    <3>1. Moves(t, [th[t] EXCEPT !.pc = "rConnect", !.then = "idle"]) /\ th[t].job = "reconnect"
      BY <2>4, AskReconnectIs DEF AskReconnect, Ready
    <3>2. QED
      BY <1>1, <1>2, <2>1, <2>4, <3>1 DEF Thread, Moves
  <2>5. CASE Asked(t)
    <3>1. PICK pc \in {"qEnter", "idle"} : Moves(t, [th[t] EXCEPT !.pc = pc])
      BY <2>5, AskedIs
    <3>2. t # Main
      BY <1>2, <2>5 DEF Asked
    <3>3. QED
      BY <1>1, <2>1, <3>1, <3>2 DEF Thread, Moves
  <2>6. QED
    BY <2>2, <2>3, <2>4, <2>5
<1>4. CassandraInv'
  BY <1>1, <1>3, BesideClient DEF clientVars, Opening
<1>5. RegisterInv'
  BY <1>1, <1>3, BesideReader DEF readerVars, Opening
<1>6. ScanInv'
  <2>1. ~(t \in Threads /\ th'[t].job = "probe" /\ HeadsForOne(t)')
    BY <1>2, <1>3 DEF HeadsForOne, Registers, Rebuilds, WillRebuild, Opening
  <2>2. QED
    BY <1>1, <1>3, <2>1, BesideScan DEF readerVars
<1>7. QED
  BY <1>4, <1>5, <1>6

\* A transaction begins.
LEMMA AskTransactionKeeps ==
  ASSUME TypeOK, CassandraInv, NEW t \in Threads, AskTransaction(t)
  PROVE  CassandraInv'
<1>1. PICK pc \in {"take", "cConnect"} : Moves(t, [th[t] EXCEPT !.pc = pc, !.back = "take"])
  BY AskTransactionIs
<1>2. /\ t \in AllThreads /\ th[t] \in Thread /\ t # Main /\ th[t].pc = "idle"
      /\ th[t].job = "transaction" /\ UNCHANGED clientVars
  BY ClientAssumption DEF TypeOK, AllThreads, AskTransaction
<1>3. Moves(t, th'[t]) /\ th'[t].pc = pc /\ th'[t].job = th[t].job
  BY <1>1, <1>2 DEF Moves, Thread
<1>4. QED
  BY <1>2, <1>3, BesideClient DEF clientVars, Opening

\* A probe sets out to register: to rebuild the session only when nothing is registered,
\* and then no scan reads what is registered.
LEMMA ProbeKeeps ==
  ASSUME TypeOK, Beside, NEW t \in Threads, Probe(t), UNCHANGED abort
  PROVE  Beside'
<1> USE DEF Beside
<1>1. PICK pc \in {"rConnect", "rMissing"} :
        /\ Moves(t, [th[t] EXCEPT !.pc = pc, !.then = "idle", !.sees = qLock])
        /\ pc = "rConnect" => providers = {}
  BY ProbeIs
<1>2. /\ t \in AllThreads /\ th[t] \in Thread /\ t # Main /\ th[t].pc = "idle"
      /\ th[t].job = "probe" /\ UNCHANGED <<clientVars, readerVars>>
  BY ClientAssumption DEF TypeOK, AllThreads, Probe, Ready
<1>3. /\ Moves(t, th'[t]) /\ th'[t].pc = pc /\ th'[t].job = th[t].job
      /\ th'[t].stop = th[t].stop
  BY <1>1, <1>2 DEF Moves, Thread
<1>4. CassandraInv'
  BY <1>2, <1>3, BesideClient DEF clientVars, Opening
<1>5. RegisterInv'
  BY <1>2, <1>3, BesideReader DEF readerVars, Opening
<1>6. ScanInv'
  <2>1. \A u \in AllThreads \ {t} : th'[u] = th[u]
    BY <1>3 DEF Moves
  <2>2. ~th'[t].stop
    BY <1>2, <1>3, OnlyScansStop
  <2>3. AbortsAreNoticed'
    BY <1>2, <1>3, <2>1, <2>2 DEF ScanInv, AbortsAreNoticed, readerVars
  <2>4. NothingIsScanned'
    BY <1>2, <1>3, <2>1 DEF ScanInv, NothingIsScanned, readerVars
  <2>5. ProbesSawNothing'
    <3>1. SUFFICES ASSUME NEW p \in Threads, NEW u \in AllThreads, th'[p].job = "probe",
                          th'[p].sees = u, th'[u].pc = "scanning", HeadsForOne(p)'
                   PROVE  ~th'[u].same
      BY DEF ProbesSawNothing
    <3>2. CASE providers = {}
      BY <1>2, <2>4, <3>1, <3>2 DEF NothingIsScanned, readerVars
    <3>3. CASE providers # {}
      <4>1. p # t
        BY <1>1, <1>3, <3>1, <3>3 DEF HeadsForOne, Registers, Rebuilds, WillRebuild, Opening
      <4>2. th'[p] = th[p] /\ u # t /\ th'[u] = th[u]
        BY <1>3, <2>1, <3>1, <4>1 DEF AllThreads
      <4>3. HeadsForOne(p)
        BY <3>1, <4>2 DEF HeadsForOne, Registers, Rebuilds, WillRebuild
      <4>4. QED
        BY <3>1, <4>2, <4>3 DEF ScanInv, ProbesSawNothing
    <3>4. QED
      BY <3>2, <3>3
  <2>6. QED
    BY <2>3, <2>4, <2>5 DEF ScanInv
<1>7. QED
  BY <1>4, <1>5, <1>6
\* No more than one thread registers, and none while the lock is free.
LEMMA OneRegisters ==
  ASSUME RegisterInv
  PROVE  /\ rLock = NoThread => \A u \in AllThreads : ~Registers(u)
         /\ \A t, u \in AllThreads : Registers(t) /\ Registers(u) => u = t
  BY ClientAssumption DEF RegisterInv, RegistersAlone, AllThreads

\* Rebuilding is registering.
LEMMA RebuildingRegisters ==
  ASSUME NEW u
  PROVE  (Rebuilds(u) => Registers(u)) /\ (WillRebuild(u) => Registers(u))
         /\ (th[u].pc = "rFlag" => Registers(u))
  BY DEF Rebuilds, WillRebuild, Registers

\* The views of a thread that does not change.
LEMMA OthersStay ==
  ASSUME NEW t \in AllThreads, NEW j, Moves(t, j), NEW u \in AllThreads, u # t
  PROVE  /\ th'[u] = th[u] /\ Registers(u)' = Registers(u) /\ Rebuilds(u)' = Rebuilds(u)
         /\ WillRebuild(u)' = WillRebuild(u) /\ BeenThrough(u)' = BeenThrough(u)
<1>1. th'[u] = th[u]
  BY DEF Moves
<1>2. QED
  BY <1>1 DEF Registers, Rebuilds, WillRebuild, BeenThrough

\* The lock is taken; a connect forgets what was declined.
LEMMA EntersKeeps ==
  ASSUME TypeOK, Beside, NEW t \in AllThreads, ConnectEnters(t) \/ MissingEnters(t), UNCHANGED abort
  PROVE  Beside'
<1> USE DEF Beside
<1>1. PICK goal \in {"connect", "missing"} :
        /\ ThenNeeds(t, goal)
        /\ goal = "connect" => declined' = {} /\ th[t].pc = "rConnect"
        /\ goal = "missing" => declined' = declined
  BY DEF ConnectEnters, MissingEnters
<1>2. /\ th[t] \in Thread /\ th[t].pc \in {"rConnect", "rMissing"}
      /\ rLock = NoThread /\ rLock' = t /\ declined' \in {declined, {}}
      /\ UNCHANGED <<clientVars, ctx, providers, rConnected, aborted>>
  BY DEF TypeOK, ConnectEnters, MissingEnters
<1>3. PICK pc \in {"rNeeds", "cConnect"} :
        Moves(t, [th[t] EXCEPT !.pc = pc, !.back = "rNeeds", !.goal = goal, !.tab = 1, !.loc = {}])
  BY <1>1, ThenNeedsIs
<1>4. /\ Moves(t, th'[t]) /\ th'[t].pc = pc /\ th'[t].back = "rNeeds" /\ th'[t].goal = goal
      /\ th'[t].tab = 1 /\ th'[t].loc = {} /\ th'[t].job = th[t].job
      /\ th'[t].then = th[t].then /\ th'[t].sees = th[t].sees /\ th'[t].stop = th[t].stop
  BY <1>2, <1>3 DEF Moves, Thread
<1>5. CassandraInv'
  <2>1. t = Main => th[t].then # "asked"
    BY DEF CassandraInv, MainStaysOut
  <2>2. QED
    BY <1>2, <1>4, <2>1, BesideClient DEF clientVars, Opening
<1>6. RegisterInv'
  <2>1. \A u \in AllThreads : ~Registers(u) /\ ~Rebuilds(u) /\ ~WillRebuild(u)
    BY <1>2, OneRegisters, RebuildingRegisters
  <2>2. /\ ~Rebuilds(t)' /\ th'[t].pc # "rFlag"
        /\ WillRebuild(t)' => declined' = {} /\ th'[t].loc = {} /\ th'[t].tab = 1
    BY <1>1, <1>4 DEF Rebuilds, WillRebuild
  <2>3. \A u \in AllThreads : u # t =>
          ~Registers(u)' /\ ~Rebuilds(u)' /\ ~WillRebuild(u)' /\ th'[u].pc # "rFlag"
    BY <1>4, <2>1, OthersStay, RebuildingRegisters
  <2>4. RegistersAlone'
    BY <1>2, <2>2, <2>3 DEF RegistersAlone
  <2>5. ListsAreDisjoint'
    BY <1>2, <2>1 DEF RegisterInv, ListsAreDisjoint
  <2>6. QED
    BY <1>2, <2>4, <2>5 DEF RegisterInv
<1>7. ScanInv'
  <2>1. HeadsForOne(t)' => HeadsForOne(t)
    BY <1>1, <1>4 DEF HeadsForOne, Rebuilds, WillRebuild
  <2>2. ~th'[t].stop
    BY <1>2, <1>4, OnlyScansStop
  <2>3. QED
    BY <1>2, <1>4, <2>1, <2>2, BesideScan
<1>8. QED
  BY <1>5, <1>6, <1>7

\* Cassandra is connected: to the tables.
LEMMA NeedsKeeps ==
  ASSUME TypeOK, Beside, NEW t \in AllThreads, Needs(t), UNCHANGED abort
  PROVE  Beside'
<1> USE DEF Beside
<1>1. Moves(t, [th[t] EXCEPT !.pc = "rTables"])
  BY GoesIs DEF Needs, Pcs
<1>2. th[t] \in Thread /\ th[t].pc = "rNeeds" /\ UNCHANGED <<clientVars, readerVars>>
  BY DEF TypeOK, Needs
<1>3. /\ Moves(t, th'[t]) /\ th'[t].pc = "rTables" /\ th'[t].back = th[t].back
      /\ th'[t].goal = th[t].goal /\ th'[t].tab = th[t].tab /\ th'[t].loc = th[t].loc
      /\ th'[t].job = th[t].job /\ th'[t].then = th[t].then /\ th'[t].sees = th[t].sees
      /\ th'[t].stop = th[t].stop
  BY <1>1, <1>2 DEF Moves, Thread
<1>4. CassandraInv'
  <2>1. t = Main => th[t].then # "asked" /\ th[t].back # "take"
    BY DEF CassandraInv, MainStaysOut
  <2>2. QED
    BY <1>2, <1>3, <2>1, BesideClient DEF clientVars, Opening
<1>5. RegisterInv'
  <2>1. Registers(t) /\ rLock' = t
    BY <1>2 DEF Registers, RegisterInv, RegistersAlone, readerVars
  <2>2. \A u \in AllThreads : u # t =>
          /\ ~Registers(u)' /\ ~Rebuilds(u)' /\ ~WillRebuild(u)' /\ th'[u].pc # "rFlag"
          /\ ~Rebuilds(u)
    BY <1>3, <2>1, OneRegisters, OthersStay, RebuildingRegisters
  <2>3. ~WillRebuild(t)' /\ th'[t].pc # "rFlag" /\ ~Rebuilds(t)
    BY <1>2, <1>3 DEF Rebuilds, WillRebuild
  <2>4. Rebuilds(t)' => WillRebuild(t)
    BY <1>2, <1>3, <2>1 DEF Rebuilds, WillRebuild
  <2>5. Rebuilds(t)' => declined' = {} /\ th'[t].loc = {}
    BY <1>2, <1>3, <2>4 DEF RegisterInv, RegistersAlone, readerVars
  <2>6. RegistersAlone'
    BY <2>1, <2>2, <2>3, <2>5 DEF RegistersAlone
  <2>7. ListsAreDisjoint'
    BY <1>2, <2>2, <2>3 DEF RegisterInv, ListsAreDisjoint, readerVars
  <2>8. QED
    BY <1>2, <2>6, <2>7 DEF RegisterInv, readerVars
<1>6. ScanInv'
  <2>1. HeadsForOne(t)' => HeadsForOne(t)
    BY <1>2, <1>3 DEF HeadsForOne, Rebuilds, WillRebuild, Registers
  <2>2. ~th'[t].stop
    BY <1>2, <1>3, OnlyScansStop
  <2>3. QED
    BY <1>2, <1>3, <2>1, <2>2, BesideScan DEF readerVars
<1>7. QED
  BY <1>4, <1>5, <1>6

\* A connect or the registering of what was missing is over, or came to nothing.
LEMMA EndsKeeps ==
  ASSUME TypeOK, Beside, NEW t \in AllThreads, NeedsFail(t) \/ MissingEnds(t) \/ ConnectEnds(t),
         UNCHANGED abort
  PROVE  Beside'
<1> USE DEF Beside
<1>1. /\ th[t] \in Thread /\ th[t].pc \in {"rNeeds", "rTables", "rFlag"} /\ ~Rebuilds(t)
      /\ rLock' = NoThread /\ Returns(t)
      /\ UNCHANGED <<clientVars, ctx, providers, declined, aborted>>
      /\ th[t].pc # "rFlag" /\ rConnected' => rConnected
  BY DEF TypeOK, NeedsFail, MissingEnds, ConnectEnds, Rebuilds
<1>2. /\ th'[t] = Fresh(th[t].job, th[t].then) /\ th'[t] \in Thread
      /\ th' \in [AllThreads -> Thread] /\ \A u \in AllThreads \ {t} : th'[u] = th[u]
  BY <1>1, ThreadReturns
<1>3. /\ Moves(t, th'[t]) /\ th'[t].pc = th[t].then /\ th'[t].job = th[t].job
      /\ th'[t].back = "idle" /\ th'[t].then = "idle" /\ ~th'[t].stop
      /\ th[t].then \in {"idle", "served", "asked"}
  BY <1>1, <1>2, ThreadFields DEF Moves, Fresh
<1>4. CassandraInv'
  <2>1. t = Main => th[t].then # "asked"
    BY DEF CassandraInv, MainStaysOut
  <2>2. QED
    BY <1>1, <1>3, <2>1, BesideClient DEF clientVars, Opening
<1>5. RegisterInv'
  <2>1. Registers(t)
    BY <1>1 DEF Registers
  <2>2. \A u \in AllThreads : u # t =>
          /\ ~Registers(u)' /\ ~Rebuilds(u)' /\ ~WillRebuild(u)' /\ th'[u].pc # "rFlag"
          /\ ~Rebuilds(u)
    BY <1>3, <2>1, OneRegisters, OthersStay, RebuildingRegisters
  <2>3. ~Registers(t)' /\ ~Rebuilds(t)' /\ ~WillRebuild(t)' /\ th'[t].pc # "rFlag"
    BY <1>3 DEF Registers, Rebuilds, WillRebuild, Opening
  <2>4. RegistersAlone'
    BY <2>2, <2>3 DEF RegistersAlone
  <2>5. ListsAreDisjoint'
    BY <1>1, <2>2 DEF RegisterInv, ListsAreDisjoint
  <2>6. rConnected' => ctx'
    BY <1>1 DEF RegisterInv, RegistersAlone
  <2>7. QED
    BY <2>4, <2>5, <2>6 DEF RegisterInv
<1>6. ScanInv'
  <2>1. ~HeadsForOne(t)'
    BY <1>3 DEF HeadsForOne, Rebuilds, WillRebuild, Registers, Opening
  <2>2. QED
    BY <1>1, <1>3, <2>1, BesideScan
<1>7. QED
  BY <1>4, <1>5, <1>6
\* What becomes of the table at hand.
LEMMA RegisterTableDoes ==
  ASSUME TypeOK, NEW t \in AllThreads, RegisterTable(t)
  PROVE  LET table == CqliteTables[th[t].tab]
             late  == th[t].goal = "missing" IN
         \/ /\ late /\ th'[t].loc = th[t].loc /\ UNCHANGED <<providers, declined>>
         \/ /\ late /\ providers' = providers \cup {table} /\ declined' = declined \ {table}
         \/ /\ ~late /\ th'[t].loc = th[t].loc \cup {table} /\ UNCHANGED <<providers, declined>>
         \/ /\ late => table \notin providers
            /\ th'[t].loc = th[t].loc /\ declined' = declined \cup {table} /\ UNCHANGED providers
<1> DEFINE table == CqliteTables[th[t].tab]
           late  == th[t].goal = "missing"
           next  == [th[t] EXCEPT !.tab = @ + 1]
<1>1. th[t] \in Thread /\ th \in [AllThreads -> Thread]
  BY DEF TypeOK
<1>2. ASSUME Becomes(t, next) PROVE th'[t].loc = th[t].loc
  BY <1>1, <1>2 DEF Becomes, Thread
<1>3. ASSUME Becomes(t, [next EXCEPT !.loc = @ \cup {table}])
      PROVE  th'[t].loc = th[t].loc \cup {table}
  BY <1>1, <1>3 DEF Becomes, Thread
<1>4. CASE /\ late /\ table \in providers /\ Becomes(t, next) /\ UNCHANGED <<providers, declined>>
  BY <1>2, <1>4
<1>5. CASE /\ ~(late /\ table \in providers)
           /\ providers' = IF late THEN providers \cup {table} ELSE providers
           /\ declined' = IF late THEN declined \ {table} ELSE declined
           /\ Becomes(t, [next EXCEPT !.loc = @ \cup {table}])
  <2>1. th'[t].loc = th[t].loc \cup {table}
    BY <1>3, <1>5
  <2> HIDE DEF next
  <2>2. QED
    BY <1>5, <2>1
<1>6. CASE /\ ~(late /\ table \in providers) /\ declined' = declined \cup {table}
           /\ Becomes(t, next) /\ UNCHANGED providers
  BY <1>2, <1>6
<1>7. QED
  BY <1>4, <1>5, <1>6 DEF RegisterTable

\* The tables a connect has been through are not the one at hand.
LEMMA TableIsNew ==
  ASSUME TypeOK, NEW t \in AllThreads, RegisterTable(t), th'[t].tab = th[t].tab + 1
  PROVE  /\ CqliteTables[th[t].tab] \notin BeenThrough(t)
         /\ BeenThrough(t)' = BeenThrough(t) \cup {CqliteTables[th[t].tab]}
<1>1. th[t].tab \in 1..Len(CqliteTables) /\ Len(CqliteTables) \in Nat
  <2>1. Len(CqliteTables) \in Nat
    BY ReaderAssumption
  <2>2. QED
    BY <2>1, RegisterTableIs
<1>2. DOMAIN CqliteTables = 1..Len(CqliteTables)
  BY ReaderAssumption
<1>3. \A i \in 1..(th[t].tab - 1) : CqliteTables[i] # CqliteTables[th[t].tab]
  <2>1. SUFFICES ASSUME NEW i \in 1..(th[t].tab - 1), CqliteTables[i] = CqliteTables[th[t].tab]
                 PROVE  FALSE
    OBVIOUS
  <2>2. i \in DOMAIN CqliteTables /\ th[t].tab \in DOMAIN CqliteTables /\ i # th[t].tab
    BY <1>1, <1>2
  <2>3. QED
    BY <2>1, <2>2, ReaderAssumption DEF IsInjective
<1>4. 1..(th'[t].tab - 1) = 1..(th[t].tab - 1) \cup {th[t].tab}
  BY <1>1
<1>5. QED
  BY <1>3, <1>4 DEF BeenThrough

\* One table is registered or declined.
LEMMA RegisterTableKeeps ==
  ASSUME TypeOK, Beside, NEW t \in AllThreads, RegisterTable(t), UNCHANGED abort
  PROVE  Beside'
<1> USE DEF Beside
<1> DEFINE table == CqliteTables[th[t].tab]
<1>1. /\ th[t] \in Thread /\ th[t].pc = "rTables"
      /\ UNCHANGED <<clientVars, rLock, ctx, rConnected, aborted>>
  BY DEF TypeOK, RegisterTable
<1>2. PICK loc : Moves(t, [th[t] EXCEPT !.tab = th[t].tab + 1, !.loc = loc])
  BY RegisterTableIs
<1>3. /\ Moves(t, th'[t]) /\ th'[t].pc = "rTables" /\ th'[t].back = th[t].back
      /\ th'[t].goal = th[t].goal /\ th'[t].tab = th[t].tab + 1
      /\ th'[t].job = th[t].job /\ th'[t].then = th[t].then /\ th'[t].sees = th[t].sees
      /\ th'[t].stop = th[t].stop
  BY <1>1, <1>2 DEF Moves, Thread
<1>4. th[t].goal \in {"connect", "missing"}
  BY <1>1, ThreadFields
<1>5. CassandraInv'
  <2>1. t = Main => th[t].then # "asked" /\ th[t].back # "take"
    BY DEF CassandraInv, MainStaysOut
  <2>2. QED
    BY <1>1, <1>3, <2>1, BesideClient DEF clientVars, Opening
<1>6. RegisterInv'
  <2>1. Registers(t) /\ rLock' = t
    BY <1>1 DEF Registers, RegisterInv, RegistersAlone
  <2>2. \A u \in AllThreads : u # t =>
          /\ ~Registers(u)' /\ ~Rebuilds(u)' /\ ~WillRebuild(u)' /\ th'[u].pc # "rFlag"
          /\ ~Rebuilds(u)
    BY <1>3, <2>1, OneRegisters, OthersStay, RebuildingRegisters
  <2>3. ~WillRebuild(t)' /\ th'[t].pc # "rFlag"
    BY <1>3 DEF WillRebuild
  <2>4. Rebuilds(t)' = Rebuilds(t) /\ (Rebuilds(t) <=> th[t].goal # "missing")
    BY <1>1, <1>3, <1>4 DEF Rebuilds
  <2>5. ASSUME Rebuilds(t)
        PROVE  /\ declined' \cap th'[t].loc = {}
               /\ declined' \cup th'[t].loc \subseteq BeenThrough(t)'
    <3>1. /\ declined \cap th[t].loc = {} /\ declined \cup th[t].loc \subseteq BeenThrough(t)
      BY <2>5 DEF RegisterInv, RegistersAlone
    <3>2. table \notin BeenThrough(t) /\ BeenThrough(t)' = BeenThrough(t) \cup {table}
      BY <1>3, TableIsNew
    <3>3. \/ th'[t].loc = th[t].loc \cup {table} /\ declined' = declined
          \/ th'[t].loc = th[t].loc /\ declined' = declined \cup {table}
      BY <2>4, <2>5, RegisterTableDoes
    <3> HIDE DEF table
    <3>4. QED
      BY <3>1, <3>2, <3>3
  <2>6. ASSUME ~Rebuilds(t)
        PROVE  declined' \cap providers' = {}
    <3>1. declined \cap providers = {}
      BY <2>2, <2>6 DEF RegisterInv, ListsAreDisjoint
    <3>2. \/ UNCHANGED <<providers, declined>>
          \/ providers' = providers \cup {table} /\ declined' = declined \ {table}
          \/ table \notin providers /\ declined' = declined \cup {table} /\ UNCHANGED providers
      BY <2>4, <2>6, RegisterTableDoes
    <3> HIDE DEF table
    <3>3. QED
      BY <3>1, <3>2
  <2>7. RegistersAlone'
    BY <2>1, <2>2, <2>3, <2>4, <2>5 DEF RegistersAlone
  <2>8. ListsAreDisjoint'
    BY <2>4, <2>6 DEF ListsAreDisjoint
  <2>9. QED
    BY <1>1, <2>7, <2>8 DEF RegisterInv
<1>7. ScanInv'
  <2>1. HeadsForOne(t)' => HeadsForOne(t)
    BY <1>1, <1>3 DEF HeadsForOne, Rebuilds, WillRebuild
  <2>2. ~th'[t].stop
    BY <1>1, <1>3, OnlyScansStop
  <2>3. providers' = {} => providers = {}
    BY RegisterTableDoes
  <2>4. QED
    BY <1>1, <1>3, <2>1, <2>2, <2>3, BesideScan
<1>8. QED
  BY <1>5, <1>6, <1>7

\* The session is rebuilt: what was collected is what is registered, and no scan reads it.
LEMMA SwapKeeps ==
  ASSUME TypeOK, Beside, NEW t \in AllThreads, SwapSession(t), UNCHANGED abort
  PROVE  Beside'
<1> USE DEF Beside
<1>1. /\ th[t].pc = "rTables" /\ th[t].goal = "connect" /\ ctx' = TRUE /\ providers' = th[t].loc
      /\ UNCHANGED <<clientVars, rLock, declined, rConnected, aborted>>
      /\ \A u \in AllThreads : th[u] \in Thread
  BY DEF SwapSession, TypeOK
<1>2. /\ th'[t] = [th[t] EXCEPT !.pc = "rFlag"]
      /\ \A u \in AllThreads \ {t} : th'[u] = [th[u] EXCEPT !.same = FALSE]
  BY SwapSessionIs
<1>3. /\ th'[t].pc = "rFlag" /\ th'[t].job = th[t].job /\ th'[t].back = th[t].back
      /\ th'[t].then = th[t].then /\ th'[t].stop = th[t].stop
  BY <1>1, <1>2 DEF Thread
<1>4. ASSUME NEW u \in AllThreads, u # t
      PROVE  /\ th'[u].pc = th[u].pc /\ th'[u].job = th[u].job /\ th'[u].back = th[u].back
             /\ th'[u].then = th[u].then /\ th'[u].mine = th[u].mine
             /\ th'[u].goal = th[u].goal /\ th'[u].stop = th[u].stop /\ th'[u].told = th[u].told
             /\ ~th'[u].same
  <2>1. th[u] \in Thread /\ th'[u] = [th[u] EXCEPT !.same = FALSE]
    BY <1>1, <1>2, <1>4
  <2>2. QED
    BY <2>1 DEF Thread
<1>5. CassandraInv'
  <2>1. th[t].job # "force" /\ Main \in AllThreads
    BY <1>1 DEF CassandraInv, MainStaysOut, ForcersForce, Opening, AllThreads
  <2>2. \A u \in AllThreads : SameClient(u) \/ ElsewhereClient(u)
    BY <1>1, <1>3, <1>4, <2>1 DEF SameClient, ElsewhereClient, Opening
  <2>3. MainStaysOut'
    BY <1>3, <1>4, <2>1 DEF CassandraInv, MainStaysOut
  <2>4. AsideClient
    BY <1>1, <2>2, <2>3 DEF AsideClient, clientVars
  <2>5. QED
    BY <2>4, AsideClientKeeps
<1>6. RegisterInv'
  <2>1. Registers(t) /\ rLock' = t /\ Rebuilds(t)
    BY <1>1 DEF Registers, Rebuilds, RegisterInv, RegistersAlone
  <2>2. \A u \in AllThreads : u # t => ~Registers(u)
    BY <2>1, OneRegisters
  <2>3. \A u \in AllThreads : u # t => ~Registers(u)' /\ ~WillRebuild(u)' /\ ~Rebuilds(u)'
    BY <1>4, <2>2 DEF Registers, WillRebuild, Rebuilds
  <2>4. ~WillRebuild(t)' /\ ~Rebuilds(t)'
    BY <1>3 DEF WillRebuild, Rebuilds
  <2>5. RegistersAlone'
    BY <1>1, <2>1, <2>3, <2>4 DEF RegistersAlone
  <2>6. declined' \cap providers' = {}
    BY <1>1, <2>1 DEF RegisterInv, RegistersAlone
  <2>7. QED
    BY <1>1, <2>5, <2>6 DEF RegisterInv, ListsAreDisjoint
<1>7. ScanInv'
  <2>1. AbortsAreNoticed'
    BY <1>1, <1>3, <1>4 DEF ScanInv, AbortsAreNoticed
  <2>2. \A u \in AllThreads : th'[u].pc = "scanning" => ~th'[u].same
    BY <1>3, <1>4
  <2>3. QED
    BY <2>1, <2>2 DEF ScanInv, NothingIsScanned, ProbesSawNothing
<1>8. QED
  BY <1>5, <1>6, <1>7
\* A scan begins, seen by nobody, or a statement names a table that is not registered.
LEMMA EnterQueryKeeps ==
  ASSUME TypeOK, Beside, NEW t \in AllThreads, EnterQuery(t), UNCHANGED abort
  PROVE  Beside'
<1> USE DEF Beside
<1>1. /\ th[t].pc = "qEnter" /\ aborted' = FALSE /\ (\A u \in AllThreads : th[u] \in Thread)
      /\ UNCHANGED <<clientVars, flushed, rLock, rWait, ctx, providers, declined, rConnected>>
  BY DEF EnterQuery, TypeOK
<1>2. /\ t \in Threads /\ t # Main /\ Main \in AllThreads /\ NoThread \notin AllThreads
      /\ th[t].job # "force"
  BY <1>1, EnterQueryIs, ClientAssumption DEF CassandraInv, ForcersForce, Opening, AllThreads
<1>3. CASE Moves(t, Fresh("query", "idle"))
  <2>1. /\ Moves(t, th'[t]) /\ th'[t].pc = "idle" /\ th'[t].job = "query" /\ ~th'[t].stop
    BY <1>3 DEF Moves, Fresh
  <2>2. CassandraInv'
    BY <1>1, <1>2, <2>1, BesideClient DEF clientVars, Opening
  <2>3. RegisterInv'
    BY <1>1, <2>1, BesideReader DEF Opening
  <2>4. ScanInv'
    BY <1>1, <2>1, BesideScan
  <2>5. QED
    BY <2>2, <2>3, <2>4
<1>4. CASE /\ providers # {}
           /\ th'[t] = [th[t] EXCEPT !.pc = "scanning", !.same = TRUE, !.told = (abort # "idle")]
           /\ \A u \in AllThreads \ {t} :
                th'[u] = IF th[u].sees = t THEN [th[u] EXCEPT !.sees = NoThread] ELSE th[u]
  <2>1. /\ th'[t].pc = "scanning" /\ th'[t].told = (abort # "idle") /\ th'[t].stop = th[t].stop
        /\ th'[t].job = th[t].job
    BY <1>1, <1>4 DEF Thread
  <2>2. ASSUME NEW u \in AllThreads, u # t
        PROVE  /\ th'[u].pc = th[u].pc /\ th'[u].job = th[u].job /\ th'[u].back = th[u].back
               /\ th'[u].then = th[u].then /\ th'[u].mine = th[u].mine
               /\ th'[u].goal = th[u].goal /\ th'[u].tab = th[u].tab /\ th'[u].loc = th[u].loc
               /\ th'[u].same = th[u].same /\ th'[u].stop = th[u].stop
               /\ th'[u].told = th[u].told /\ th'[u].sees # t
               /\ th'[u].sees \in {th[u].sees, NoThread}
    <3>1. th[u] \in Thread /\ u \in AllThreads \ {t}
      BY <1>1, <2>2
    <3>2. CASE th[u].sees = t
      <4>1. th'[u] = [th[u] EXCEPT !.sees = NoThread]
        BY <1>4, <3>1, <3>2
      <4>2. QED
        BY <1>2, <3>1, <4>1 DEF Thread, AllThreads
    <3>3. CASE th[u].sees # t
      BY <1>4, <3>1, <3>3
    <3>4. QED
      BY <3>2, <3>3
  <2>3. CassandraInv'
    <3>1. \A u \in AllThreads : SameClient(u) \/ ElsewhereClient(u)
      BY <1>1, <1>2, <2>1, <2>2 DEF SameClient, ElsewhereClient, Opening
    <3>2. MainStaysOut'
      BY <1>2, <2>2 DEF CassandraInv, MainStaysOut
    <3>3. AsideClient
      BY <1>1, <3>1, <3>2 DEF AsideClient, clientVars
    <3>4. QED
      BY <3>3, AsideClientKeeps
  <2>4. RegisterInv'
    <3>1. ~Registers(t)' /\ ~Rebuilds(t)' /\ ~WillRebuild(t)' /\ ~Rebuilds(t) /\ th'[t].pc # "rFlag"
      BY <1>1, <2>1 DEF Registers, Rebuilds, WillRebuild, Opening
    <3>2. ASSUME NEW u \in AllThreads, u # t
          PROVE  /\ Registers(u)' = Registers(u) /\ Rebuilds(u)' = Rebuilds(u)
                 /\ WillRebuild(u)' = WillRebuild(u)
      BY <2>2, <3>2 DEF Registers, Rebuilds, WillRebuild
    <3>3. AsideReader
      BY <1>1, <2>2, <3>1, <3>2 DEF AsideReader
    <3>4. QED
      BY <3>3, AsideReaderKeeps
  <2>5. AbortsAreNoticed'
    <3>1. ~th'[t].stop
      BY <1>1, <2>1, OnlyScansStop
    <3>2. abort' # "idle" \/ aborted' => th'[t].told
      BY <1>1, <2>1, Zenon
    <3>3. QED
      BY <1>1, <2>2, <3>1, <3>2 DEF ScanInv, AbortsAreNoticed
  <2>6. ProbesSawNothing'
    <3>1. SUFFICES ASSUME NEW p \in Threads, NEW u \in AllThreads, th'[p].job = "probe",
                          th'[p].sees = u, th'[u].pc = "scanning", HeadsForOne(p)'
                   PROVE  ~th'[u].same
      BY DEF ProbesSawNothing
    <3>2. p # t /\ p \in AllThreads
      BY <2>1, <3>1 DEF HeadsForOne, Rebuilds, WillRebuild, Registers, Opening, AllThreads
    <3>3. u # t /\ th[p].sees = u /\ th[p].job = "probe"
      BY <1>2, <2>2, <3>1, <3>2
    <3>4. th[u].pc = "scanning" /\ th'[u].same = th[u].same
      BY <2>2, <3>1, <3>3
    <3>5. HeadsForOne(p)
      BY <2>2, <3>1, <3>2 DEF HeadsForOne, Rebuilds, WillRebuild, Registers
    <3>6. QED
      BY <3>3, <3>4, <3>5 DEF ScanInv, ProbesSawNothing
  <2>7. NothingIsScanned'
    BY <1>1, <1>4 DEF NothingIsScanned
  <2>8. QED
    BY <2>3, <2>4, <2>5, <2>6, <2>7 DEF ScanInv
<1>5. QED
  BY <1>3, <1>4, EnterQueryIs DEF CassandraInv

\* A scan is over.
LEMMA ScanEndsKeeps ==
  ASSUME TypeOK, Beside, NEW t \in AllThreads, ScanEnds(t), UNCHANGED abort
  PROVE  Beside'
<1> USE DEF Beside
<1>1. /\ th[t].pc = "scanning" /\ t # Main
      /\ UNCHANGED <<clientVars, rLock, ctx, providers, declined, rConnected, aborted>>
  BY DEF ScanEnds, CassandraInv, MainStaysOut
<1>2. Moves(t, th'[t]) /\ th'[t].pc = "idle" /\ th'[t].job = "query" /\ ~th'[t].stop
  BY ScanEndsIs DEF Moves, Fresh
<1>3. CassandraInv'
  BY <1>1, <1>2, BesideClient DEF clientVars, Opening
<1>4. RegisterInv'
  BY <1>1, <1>2, BesideReader DEF Opening
<1>5. ScanInv'
  BY <1>1, <1>2, BesideScan
<1>6. QED
  BY <1>3, <1>4, <1>5

\* A step that touches neither a lock nor a thread.
LEMMA StillKeeps ==
  ASSUME Beside, UNCHANGED <<th, cLock, cConnected, cSession, prepared, sessions, forced,
                             overlapped, rLock, declined, providers, ctx, rConnected>>
  PROVE  CassandraInv' /\ RegisterInv' /\ (UNCHANGED <<abort, aborted>> => ScanInv')
<1> USE DEF Beside
<1>1. MainStaysOut'
  BY DEF CassandraInv, MainStaysOut
<1>2. AsideClient
  BY <1>1 DEF AsideClient, SameClient
<1>3. ASSUME NEW u \in AllThreads
      PROVE  /\ th'[u] = th[u] /\ Registers(u)' = Registers(u) /\ Rebuilds(u)' = Rebuilds(u)
             /\ WillRebuild(u)' = WillRebuild(u) /\ HeadsForOne(u)' = HeadsForOne(u)
  BY DEF Registers, Rebuilds, WillRebuild, HeadsForOne
<1>4. AsideReader
  BY <1>3 DEF AsideReader
<1>5. UNCHANGED <<abort, aborted>> => AsideScan
  BY <1>3 DEF AsideScan, ScanInv, AbortsAreNoticed
<1>6. QED
  BY <1>2, <1>4, <1>5, AsideClientKeeps, AsideReaderKeeps, AsideScanKeeps

\* A cancel: every scan under way is marked before it is told anything.
LEMMA AbortKeeps ==
  ASSUME TypeOK, Beside, AbortLooks \/ AbortFlags \/ AbortCancels
  PROVE  Beside'
<1> USE DEF Beside
<1>1. CASE AbortFlags
  <2>1. /\ abort = "flag" /\ aborted' = TRUE /\ abort' = "cancel"
        /\ UNCHANGED <<clientVars, rLock, ctx, providers, declined, rConnected, th>>
    BY <1>1 DEF AbortFlags
  <2>2. CassandraInv' /\ RegisterInv'
    BY <2>1, StillKeeps DEF clientVars
  <2>3. AbortsAreNoticed' /\ NothingIsScanned'
    BY <2>1 DEF ScanInv, AbortsAreNoticed, NothingIsScanned
  <2>4. ProbesSawNothing'
    <3>1. \A p \in Threads : HeadsForOne(p)' = HeadsForOne(p)
      BY <2>1 DEF HeadsForOne, Rebuilds, WillRebuild, Registers
    <3>2. QED
      BY <2>1, <3>1 DEF ScanInv, ProbesSawNothing
  <2>5. QED
    BY <2>2, <2>3, <2>4 DEF ScanInv
<1>2. CASE AbortLooks \/ AbortCancels
  <2>1. UNCHANGED <<clientVars, readerVars>> /\ (\A u \in AllThreads : th[u] \in Thread)
    BY <1>2 DEF AbortLooks, AbortCancels, TypeOK
  <2>2. ASSUME NEW u \in AllThreads
        PROVE  /\ th'[u].pc = th[u].pc /\ th'[u].job = th[u].job /\ th'[u].back = th[u].back
               /\ th'[u].then = th[u].then /\ th'[u].mine = th[u].mine
               /\ th'[u].goal = th[u].goal /\ th'[u].tab = th[u].tab /\ th'[u].loc = th[u].loc
               /\ th'[u].same = th[u].same /\ th'[u].sees = th[u].sees
               /\ th[u].told => th'[u].told
               /\ th'[u].stop => th[u].stop \/ (th[u].pc = "scanning" /\ AbortCancels)
               /\ AbortLooks /\ th[u].pc = "scanning" => th'[u].told
    <3>1. th[u] \in Thread
      BY <2>1
    <3>2. CASE th[u].pc = "scanning" /\ th'[u] = [th[u] EXCEPT !.told = TRUE]
      BY <3>1, <3>2 DEF Thread
    <3>3. CASE th[u].pc = "scanning" /\ th'[u] = [th[u] EXCEPT !.stop = TRUE] /\ AbortCancels
      <4>1. ~AbortLooks
        BY <3>3 DEF AbortLooks, AbortCancels
      <4>2. QED
        BY <3>1, <3>3, <4>1 DEF Thread
    <3>4. CASE th'[u] = th[u] /\ (AbortLooks => th[u].pc # "scanning")
      BY <3>4
    <3>5. QED
      BY <1>2, <3>2, <3>3, <3>4, AbortIs
  <2>3. CassandraInv'
    <3>1. MainStaysOut' /\ \A u \in AllThreads : SameClient(u)
      BY <2>2 DEF CassandraInv, MainStaysOut, SameClient, AllThreads
    <3>2. AsideClient
      BY <2>1, <3>1 DEF AsideClient, clientVars
    <3>3. QED
      BY <3>2, AsideClientKeeps
  <2>4. RegisterInv'
    <3>1. ASSUME NEW u \in AllThreads
          PROVE  /\ Registers(u)' = Registers(u) /\ Rebuilds(u)' = Rebuilds(u)
                 /\ WillRebuild(u)' = WillRebuild(u)
      BY <2>2 DEF Registers, Rebuilds, WillRebuild
    <3>2. AsideReader
      BY <2>1, <2>2, <3>1 DEF AsideReader, readerVars
    <3>3. QED
      BY <3>2, AsideReaderKeeps
  <2>5. AbortsAreNoticed'
    <3>1. CASE AbortLooks
      <4>1. ~AbortCancels
        BY <3>1 DEF AbortLooks, AbortCancels
      <4>2. QED
        BY <2>2, <3>1, <4>1 DEF ScanInv, AbortsAreNoticed
    <3>2. CASE AbortCancels
      <4>1. abort = "cancel" /\ abort' = "idle"
        BY <3>2 DEF AbortCancels
      <4>2. QED
        BY <2>1, <2>2, <4>1 DEF ScanInv, AbortsAreNoticed, readerVars
    <3>3. QED
      BY <1>2, <3>1, <3>2
  <2>6. NothingIsScanned'
    BY <2>1, <2>2 DEF ScanInv, NothingIsScanned, readerVars
  <2>7. ProbesSawNothing'
    <3>1. \A p \in Threads : p \in AllThreads /\ HeadsForOne(p)' = HeadsForOne(p)
      BY <2>2 DEF HeadsForOne, Rebuilds, WillRebuild, Registers, AllThreads
    <3>2. QED
      BY <2>2, <3>1 DEF ScanInv, ProbesSawNothing
  <2>8. QED
    BY <2>3, <2>4, <2>5, <2>6, <2>7 DEF ScanInv
<1>3. QED
  BY <1>1, <1>2
-----------------------------------------------------------------------------
(* Every step keeps the types *)

ReaderTypeOK ==
    /\ flushed \subseteq Tables /\ providers \subseteq Tables /\ declined \subseteq Tables
    /\ rLock \in AllThreads \cup {NoThread} /\ qLock \in Threads \cup {NoThread}
    /\ rWait \in 0..RetryAfter
    /\ ctx \in BOOLEAN /\ rConnected \in BOOLEAN /\ aborted \in BOOLEAN

ThreadsTypeOK == th \in [AllThreads -> Thread]

AbortTypeOK == abort \in {"idle", "flag", "cancel"}

LEMMA TypeOKIs ==
  /\ TypeOK <=> SchemaTypeOK /\ ClientTypeOK /\ ThreadsTypeOK /\ ReaderTypeOK /\ AbortTypeOK
  /\ TypeOK' <=> /\ SchemaTypeOK' /\ ClientTypeOK' /\ ThreadsTypeOK' /\ ReaderTypeOK'
                 /\ AbortTypeOK'
<1>1. TypeOK <=> SchemaTypeOK /\ ClientTypeOK /\ ThreadsTypeOK /\ ReaderTypeOK /\ AbortTypeOK
  BY DEF TypeOK, ReaderTypeOK, ThreadsTypeOK, AbortTypeOK
<1>2. TypeOK' <=> /\ SchemaTypeOK' /\ ClientTypeOK' /\ ThreadsTypeOK' /\ ReaderTypeOK'
                  /\ AbortTypeOK'
  BY DEF TypeOK, ReaderTypeOK, ThreadsTypeOK, AbortTypeOK
<1>3. QED
  BY <1>1, <1>2

LEMMA SameSchema ==
  ASSUME SchemaTypeOK, UNCHANGED schemaVars
  PROVE  SchemaTypeOK'
  BY DEF SchemaTypeOK, schemaVars

LEMMA SameClientTypes ==
  ASSUME ClientTypeOK, UNCHANGED clientVars
  PROVE  ClientTypeOK'
  BY DEF ClientTypeOK, clientVars

LEMMA SameReaderTypes ==
  ASSUME ReaderTypeOK, UNCHANGED readerVars
  PROVE  ReaderTypeOK'
  BY DEF ReaderTypeOK, readerVars

\* The Cassandra client's.
LEMMA ClientTypes ==
  ASSUME TypeOK, CassandraInv, NEW t \in AllThreads,
         Connecting(t) \/ Transacting(t) \/ (t \in Threads /\ AskForced(t))
  PROVE  ClientTypeOK' /\ ThreadsTypeOK'
<1>1. /\ th[t] \in Thread /\ ClientTypeOK /\ cSession \in Session /\ prepared \in Session
      /\ sessions \in 0..(1 + forced) /\ forced \in 0..MaxForced /\ MaxForced \in Nat
      /\ ReconnectInterval \in Nat /\ Session = 0..(1 + MaxForced) /\ overlapped \subseteq Session
      /\ \A u \in AllThreads : th[u].mine \in Session
  BY ThreadFields, ClientAssumption DEF TypeOK, ClientTypeOK, Session, MaxSessions
<1>2. CASE ConnectNotNeeded(t)
  BY <1>1, <1>2, SameClientTypes, ConnectingIs DEF ConnectNotNeeded, Moves, ThreadsTypeOK
<1>3. CASE ConnectBegins(t)
  <2>1. cWait' \in 0..ReconnectInterval /\ cLock' \in AllThreads
    BY <1>1, <1>3 DEF ConnectBegins
  <2>2. QED
    BY <1>1, <1>3, <2>1, ConnectingIs DEF ConnectBegins, Moves, ThreadsTypeOK, ClientTypeOK
<1>4. CASE SessionOpens(t)
  <2>1. sessions + 1 <= 1 + forced
    BY <1>4, OpeningIsPaid DEF SessionOpens
  <2>2. sessions' \in 0..(1 + forced) /\ cSession' \in Session
    BY <1>1, <1>4, <2>1 DEF SessionOpens
  <2>3. overlapped' \subseteq Session
    BY <1>1, <1>4 DEF SessionOpens, AllThreads
  <2>4. QED
    BY <1>1, <1>4, <2>2, <2>3, ConnectingIs DEF SessionOpens, Moves, ThreadsTypeOK, ClientTypeOK
<1>5. CASE ClearPrepared(t)
  <2>1. ThreadsTypeOK'
    BY <1>5, ConnectingIs DEF Moves, ThreadsTypeOK
  <2>2. cSession' \in Session /\ prepared' \in Session
    BY <1>1, <1>5 DEF ClearPrepared
  <2>3. QED
    BY <1>1, <1>5, <2>1, <2>2 DEF ClearPrepared, ClientTypeOK
<1>6. CASE ConnectFails(t)
  <2>1. ThreadsTypeOK'
    BY <1>6, ConnectingIs DEF Moves, ThreadsTypeOK
  <2>2. cSession' \in Session /\ prepared' \in Session
    BY <1>1, <1>6 DEF ConnectFails
  <2>3. QED
    BY <1>1, <1>6, <2>1, <2>2 DEF ConnectFails, ClientTypeOK
<1>7. CASE TakeSession(t) \/ PrepareFails(t)
  BY <1>1, <1>7, SameClientTypes, TransactingIs DEF TakeSession, PrepareFails, Moves, ThreadsTypeOK
<1>8. CASE Prepare(t)
  <2>1. prepared' \in Session
    BY <1>1, <1>8 DEF Prepare
  <2>2. QED
    BY <1>1, <1>8, <2>1, TransactingIs DEF Prepare, Moves, ThreadsTypeOK, ClientTypeOK
<1>9. CASE t \in Threads /\ AskForced(t)
  <2>1. forced' \in 0..MaxForced /\ sessions' \in 0..(1 + forced')
    BY <1>1, <1>9 DEF AskForced
  <2>2. QED
    BY <1>1, <1>9, <2>1, AskForcedIs DEF AskForced, Moves, ThreadsTypeOK, ClientTypeOK
<1>10. QED
  BY <1>2, <1>3, <1>4, <1>5, <1>6, <1>7, <1>8, <1>9 DEF Connecting, Transacting

\* The reader's.
LEMMA ReaderTypes ==
  ASSUME TypeOK, CassandraInv, NEW t \in AllThreads, Registering(t) \/ EnterQuery(t) \/ ScanEnds(t)
  PROVE  ReaderTypeOK' /\ ThreadsTypeOK' /\ UNCHANGED clientVars
<1>1. /\ ReaderTypeOK /\ th[t] \in Thread /\ th[t].loc \subseteq Tables
      /\ RetryAfter \in 0..RetryAfter
  BY TypeOKIs, ThreadFields, ReaderAssumption DEF TypeOK
<1>2. CASE ConnectEnters(t) \/ MissingEnters(t)
  <2>1. PICK goal \in {"connect", "missing"} : ThenNeeds(t, goal)
    BY <1>2 DEF ConnectEnters, MissingEnters
  <2>2. ThreadsTypeOK'
    BY <2>1, ThenNeedsIs DEF Moves, ThreadsTypeOK
  <2>3. QED
    BY <1>1, <1>2, <2>2 DEF ConnectEnters, MissingEnters, ReaderTypeOK
<1>3. CASE Needs(t)
  <2>1. ThreadsTypeOK'
    BY <1>3, ThreadGoes DEF Needs, ThreadsTypeOK, Pcs
  <2>2. QED
    BY <1>1, <1>3, <2>1, SameReaderTypes DEF Needs
<1>4. CASE NeedsFail(t) \/ MissingEnds(t) \/ ConnectEnds(t)
  <2>1. ThreadsTypeOK'
    BY <1>4, ThreadReturns DEF NeedsFail, MissingEnds, ConnectEnds, ThreadsTypeOK
  <2>2. QED
    BY <1>1, <1>4, <2>1 DEF NeedsFail, MissingEnds, ConnectEnds, ReaderTypeOK
<1>5. CASE RegisterTable(t)
  <2>1. ThreadsTypeOK' /\ CqliteTables[th[t].tab] \in Tables
    BY <1>5, RegisterTableIs DEF Moves, ThreadsTypeOK
  <2>2. providers' \subseteq Tables /\ declined' \subseteq Tables
    BY <1>1, <1>5, <2>1, RegisterTableDoes DEF ReaderTypeOK
  <2>3. QED
    BY <1>1, <1>5, <2>1, <2>2 DEF RegisterTable, ReaderTypeOK
<1>6. CASE SwapSession(t)
  <2>1. ThreadsTypeOK'
    BY <1>6, SwapSessionIs DEF ThreadsTypeOK
  <2>2. QED
    BY <1>1, <1>6, <2>1 DEF SwapSession, ReaderTypeOK
<1>7. CASE EnterQuery(t)
  <2>1. ThreadsTypeOK' /\ t \in Threads /\ qLock' \in {t, qLock}
    BY <1>7, EnterQueryIs DEF ThreadsTypeOK, CassandraInv
  <2>2. QED
    BY <1>1, <1>7, <2>1 DEF EnterQuery, ReaderTypeOK
<1>8. CASE ScanEnds(t)
  <2>1. ThreadsTypeOK'
    BY <1>8, ScanEndsIs DEF ThreadsTypeOK, Moves
  <2>2. QED
    BY <1>1, <1>8, <2>1 DEF ScanEnds, ReaderTypeOK
<1>9. QED
  BY <1>2, <1>3, <1>4, <1>5, <1>6, <1>7, <1>8 DEF Registering
-----------------------------------------------------------------------------
(* The invariant *)

LEMMA ReaderInit ==
  ASSUME Init
  PROVE  ReaderInv
<1>1. PICK jobs \in Work :
        th = [t \in AllThreads |-> IF t = Main THEN Fresh("startup", "startup")
                                               ELSE Fresh(jobs[t], "idle")]
  BY DEF Init
<1>2. jobs \in [Threads -> Jobs] /\ Main \notin Threads /\ NoThread \notin AllThreads
  BY ReaderAssumption, ClientAssumption DEF AllThreads
<1>3. ThreadsTypeOK
  <2>1. "startup" \in Pcs /\ "idle" \in Pcs
    BY DEF Pcs
  <2>2. Fresh("startup", "startup") \in Thread
    BY <2>1, FreshType
  <2>3. \A t \in Threads : Fresh(jobs[t], "idle") \in Thread
    BY <1>2, <2>1, FreshType
  <2>4. QED
    BY <1>1, <2>2, <2>3 DEF ThreadsTypeOK, AllThreads
<1>4. \A t \in AllThreads : /\ th[t].pc \in {"startup", "idle"} /\ ~th[t].stop
                            /\ th[t].back = "idle" /\ th[t].then = "idle"
  BY <1>1 DEF Fresh
<1>5. /\ th[Main].job = "startup" /\ Main \in AllThreads /\ Threads \subseteq AllThreads
      /\ \A t \in Threads : th[t].pc = "idle"
  BY <1>1, <1>2 DEF Fresh, AllThreads
<1>6. /\ cLock = NoThread /\ cConnected = FALSE /\ cSession = 0 /\ cWait = 0 /\ prepared = 0
      /\ sessions = 0 /\ forced = 0 /\ overlapped = {} /\ rLock = NoThread /\ rWait = 0
      /\ ctx = FALSE /\ providers = {} /\ declined = {} /\ rConnected = FALSE
      /\ qLock = NoThread /\ aborted = FALSE /\ abort = "idle" /\ flushed = {}
  BY DEF Init, ClientInit
<1>7. TypeOK
  <2>1. SchemaTypeOK
    BY SchemaInitType DEF Init
  <2>2. ClientTypeOK
    <3>1. 0 \in Session /\ 0 \in 0..ReconnectInterval /\ 0 \in 0..MaxForced /\ 0 \in 0..(1 + 0)
      BY ClientAssumption DEF Session, MaxSessions
    <3>2. QED
      BY <1>6, <3>1 DEF ClientTypeOK
  <2>3. ReaderTypeOK /\ AbortTypeOK
    <3>1. 0 \in 0..RetryAfter
      BY ReaderAssumption
    <3>2. QED
      BY <1>6, <3>1 DEF ReaderTypeOK, AbortTypeOK
  <2>4. QED
    BY <1>3, <2>1, <2>2, <2>3, TypeOKIs
<1>8. CassandraInv
  <2>1. Forcing = {} /\ Credit = 1
    BY <1>4, <1>5, <1>6 DEF Forcing, Credit
  <2>2. SessionsArePaid
    BY <1>6, <2>1, FS_EmptySet DEF SessionsArePaid
  <2>3. MainStaysOut /\ ForcersForce
    BY <1>4, <1>5 DEF MainStaysOut, ForcersForce
  <2>4. ConnectsAlone /\ StatementsAreKnown
    BY <1>4, <1>6 DEF ConnectsAlone, StatementsAreKnown, Opening
  <2>5. QED
    BY <2>2, <2>3, <2>4 DEF CassandraInv
<1>9. RegisterInv
  <2>1. \A t \in AllThreads : ~Registers(t) /\ ~Rebuilds(t) /\ ~WillRebuild(t) /\ th[t].pc # "rFlag"
    BY <1>4 DEF Registers, Rebuilds, WillRebuild, Opening
  <2>2. QED
    BY <1>6, <2>1 DEF RegisterInv, RegistersAlone, ListsAreDisjoint
<1>10. ScanInv
  BY <1>4 DEF ScanInv, AbortsAreNoticed, NothingIsScanned, ProbesSawNothing
<1>11. QED
  BY <1>7, <1>8, <1>9, <1>10 DEF ReaderInv

\* A thread goes on or begins, and it is not the schema's or a cancel's step.
LEMMA ThreadStepKeeps ==
  ASSUME ReaderInv, NEW t \in AllThreads, UNCHANGED <<schemaVars, abort>>,
         GoesOn(t) \/ (t \in Threads /\ (Probe(t) \/ Begins(t)))
  PROVE  ReaderInv'
<1>1. /\ TypeOK /\ Beside /\ CassandraInv /\ RegisterInv /\ ScanInv
      /\ ClientTypeOK /\ ReaderTypeOK /\ ThreadsTypeOK
      /\ SchemaTypeOK' /\ AbortTypeOK'
  BY TypeOKIs, SameSchema DEF ReaderInv, Beside, AbortTypeOK
<1>2. SUFFICES Beside' /\ ClientTypeOK' /\ ReaderTypeOK' /\ ThreadsTypeOK'
  BY <1>1, TypeOKIs DEF ReaderInv, Beside
<1>3. CASE \/ t = Main /\ StartUp
           \/ t \in Threads /\ (AskQuery(t) \/ AskReconnect(t))
           \/ Asked(t)
  <2>1. Beside'
    BY <1>1, <1>3, AskingKeeps
  <2>2. UNCHANGED <<clientVars, readerVars>>
    BY <1>3 DEF StartUp, AskQuery, AskReconnect, Asked
  <2>3. ThreadsTypeOK'
    BY <1>1, <1>3, StartUpIs, AskQueryIs, AskReconnectIs, AskedIs DEF Moves, ThreadsTypeOK
  <2>4. QED
    BY <1>1, <2>1, <2>2, <2>3, SameClientTypes, SameReaderTypes
<1>4. CASE t \in Threads /\ Probe(t)
  <2>1. Beside'
    BY <1>1, <1>4, ProbeKeeps
  <2>2. UNCHANGED <<clientVars, readerVars>> /\ ThreadsTypeOK'
    BY <1>1, <1>4, ProbeIs DEF Probe, Moves, ThreadsTypeOK
  <2>3. QED
    BY <1>1, <2>1, <2>2, SameClientTypes, SameReaderTypes
<1>5. CASE t \in Threads /\ AskTransaction(t) /\ UNCHANGED readerVars
  <2>1. CassandraInv'
    BY <1>1, <1>5, AskTransactionKeeps
  <2>2. RegisterInv' /\ ScanInv'
    BY <1>1, <1>5, TransactingBeside
  <2>3. UNCHANGED clientVars /\ ThreadsTypeOK'
    BY <1>1, <1>5, AskTransactionIs DEF AskTransaction, Moves, ThreadsTypeOK
  <2>4. QED
    BY <1>1, <1>5, <2>1, <2>2, <2>3, SameClientTypes, SameReaderTypes DEF Beside
<1>6. CASE t \in Threads /\ AskForced(t) /\ UNCHANGED readerVars
  <2>1. CassandraInv'
    BY <1>1, <1>6, ForcedKeeps
  <2>2. RegisterInv' /\ ScanInv'
    BY <1>1, <1>6, TransactingBeside
  <2>3. QED
    BY <1>1, <1>6, <2>1, <2>2, ClientTypes, SameReaderTypes DEF Beside
<1>7. CASE Connecting(t) /\ UNCHANGED readerVars
  <2>1. CassandraInv'
    BY <1>1, <1>7, NotNeededKeeps, BeginsKeeps, OpensKeeps, ClearKeeps, FailsKeeps DEF Connecting
  <2>2. RegisterInv' /\ ScanInv'
    BY <1>1, <1>7, ConnectingBeside
  <2>3. QED
    BY <1>1, <1>7, <2>1, <2>2, ClientTypes, SameReaderTypes DEF Beside
<1>8. CASE Transacting(t) /\ UNCHANGED readerVars
  <2>1. CassandraInv'
    BY <1>1, <1>8, TransactionKeeps
  <2>2. RegisterInv' /\ ScanInv'
    BY <1>1, <1>8, TransactingBeside
  <2>3. QED
    BY <1>1, <1>8, <2>1, <2>2, ClientTypes, SameReaderTypes DEF Beside
<1>9. CASE Registering(t) \/ EnterQuery(t) \/ ScanEnds(t)
  <2>1. Beside'
    BY <1>1, <1>9, EntersKeeps, NeedsKeeps, EndsKeeps, RegisterTableKeeps, SwapKeeps,
       EnterQueryKeeps, ScanEndsKeeps DEF Registering
  <2>2. QED
    BY <1>1, <1>9, <2>1, ReaderTypes, SameClientTypes
<1>10. QED
  BY <1>3, <1>4, <1>5, <1>6, <1>7, <1>8, <1>9 DEF GoesOn, Begins, Querying

LEMMA ReaderStep ==
  ASSUME ReaderInv, [Next]_vars
  PROVE  ReaderInv'
<1>1. /\ TypeOK /\ Beside /\ CassandraInv /\ RegisterInv /\ ScanInv
      /\ ClientTypeOK /\ ReaderTypeOK /\ ThreadsTypeOK /\ SchemaTypeOK /\ AbortTypeOK
  BY TypeOKIs DEF ReaderInv, Beside
<1>2. SUFFICES /\ Beside' /\ SchemaTypeOK' /\ ClientTypeOK' /\ ReaderTypeOK'
               /\ ThreadsTypeOK' /\ AbortTypeOK'
  BY TypeOKIs DEF ReaderInv, Beside
<1>3. CASE UNCHANGED vars
  <2>1. UNCHANGED <<schemaVars, clientVars, readerVars, th, abort>>
    BY <1>3 DEF vars
  <2>2. Beside'
    BY <1>1, <2>1, StillKeeps DEF Beside, clientVars, readerVars
  <2>3. QED
    BY <1>1, <2>1, <2>2, SameSchema, SameClientTypes, SameReaderTypes DEF ThreadsTypeOK, AbortTypeOK
<1>4. CASE SchemaNext /\ UNCHANGED <<clientVars, readerVars, th, abort>>
  <2>1. Beside'
    BY <1>1, <1>4, StillKeeps DEF Beside, clientVars, readerVars
  <2>2. QED
    BY <1>1, <1>4, <2>1, SchemaType, SameClientTypes, SameReaderTypes DEF ThreadsTypeOK, AbortTypeOK
<1>5. ASSUME NEW t \in AllThreads, UNCHANGED <<schemaVars, abort>>,
             GoesOn(t) \/ (t \in Threads /\ (Probe(t) \/ Begins(t)))
      PROVE  ReaderInv'
  BY <1>5, ThreadStepKeeps
<1>6. ASSUME NEW t \in Threads, UNCHANGED <<schemaVars, abort>>, ProbeReturns(t)
      PROVE  UNCHANGED vars
  BY <1>6 DEF ProbeReturns, vars
<1>7. ASSUME NEW table \in Tables, UNCHANGED <<schemaVars, abort>>, Flush(table)
      PROVE  Beside' /\ ReaderTypeOK' /\ UNCHANGED <<clientVars, th>>
  <2>1. Beside'
    BY <1>1, <1>7, StillKeeps DEF Beside, clientVars, Flush
  <2>2. QED
    BY <1>1, <1>7, <2>1 DEF Flush, ReaderTypeOK
<1>8. ASSUME UNCHANGED <<schemaVars, abort>>, Tick
      PROVE  Beside' /\ ReaderTypeOK' /\ ClientTypeOK' /\ UNCHANGED th
  <2>1. Beside'
    BY <1>1, <1>8, StillKeeps DEF Beside, Tick
  <2>2. rWait' \in 0..RetryAfter /\ cWait' \in 0..ReconnectInterval
    BY <1>1, <1>8, ReaderAssumption, ClientAssumption DEF Tick, ReaderTypeOK, ClientTypeOK
  <2>3. QED
    BY <1>1, <1>8, <2>1, <2>2 DEF Tick, ReaderTypeOK, ClientTypeOK
<1>9. ASSUME UNCHANGED schemaVars, AbortLooks \/ AbortFlags \/ AbortCancels
      PROVE  Beside' /\ ReaderTypeOK' /\ UNCHANGED clientVars /\ ThreadsTypeOK' /\ AbortTypeOK'
  <2>1. Beside'
    BY <1>1, <1>9, AbortKeeps
  <2>2. UNCHANGED clientVars /\ ReaderTypeOK' /\ AbortTypeOK'
    BY <1>1, <1>9 DEF AbortLooks, AbortFlags, AbortCancels, ReaderTypeOK, AbortTypeOK, readerVars
  <2>3. ThreadsTypeOK'
    BY <1>1, <1>9, AbortIs DEF AbortFlags, ThreadsTypeOK
  <2>4. QED
    BY <2>1, <2>2, <2>3
<1>10. CASE Next
  <2>1. CASE \E t \in AllThreads : UNCHANGED <<schemaVars, abort>>
                /\ (GoesOn(t) \/ (t \in Threads /\ (Probe(t) \/ Begins(t))))
    BY <1>5, <2>1, TypeOKIs DEF ReaderInv, Beside
  <2>2. CASE UNCHANGED <<schemaVars, abort>> /\ ((\E table \in Tables : Flush(table)) \/ Tick)
    BY <1>1, <1>7, <1>8, <2>2, SameSchema, SameClientTypes DEF ThreadsTypeOK, AbortTypeOK
  <2>3. CASE UNCHANGED schemaVars /\ (AbortLooks \/ AbortFlags \/ AbortCancels)
    BY <1>1, <1>9, <2>3, SameSchema, SameClientTypes
  <2>4. CASE UNCHANGED <<schemaVars, abort>> /\ \E t \in Threads : ProbeReturns(t)
    BY <1>3, <1>6, <2>4
  <2>5. QED
    BY <1>4, <1>10, <2>1, <2>2, <2>3, <2>4 DEF Next, AllThreads
<1>11. QED
  BY <1>3, <1>10

\* Every reachable state.
LEMMA ReaderInvHolds == Spec => []ReaderInv
<1>1. Init => ReaderInv
  BY ReaderInit
<1>2. ReaderInv /\ [Next]_vars => ReaderInv'
  BY ReaderStep
<1>3. QED
  BY <1>1, <1>2, PTL DEF Spec
\* Theorem: with no connect under way the two clients' sessions, statements and lists
\* agree: the flag tells of a session, a cached statement is of the session or of one that
\* was replaced under a transaction, and no table is both registered and declined.
THEOREM ClientsStaySound == Spec => []ClientsSound
<1>1. ReaderInv => ClientsSound
  <2>1. SUFFICES ASSUME ReaderInv PROVE ClientsSound
    OBVIOUS
  <2>2. TypeOK /\ CassandraInv /\ RegisterInv
    BY <2>1 DEF ReaderInv
  <2>3. cLock = NoThread => \A t \in AllThreads : th[t].pc # "cClearing"
    BY <2>2, ClientAssumption DEF CassandraInv, ConnectsAlone, Opening, AllThreads
  <2>4. ConnectedHasSession /\ StaleStatementsOverlapped
    BY <2>2, <2>3 DEF CassandraInv, StatementsAreKnown, ConnectedHasSession,
                      StaleStatementsOverlapped
  <2>5. rLock = NoThread => \A t \in AllThreads : ~Rebuilds(t)
    BY <2>2, OneRegisters, RebuildingRegisters
  <2>6. ReaderIsConsistent
    BY <2>2, <2>5 DEF RegisterInv, ListsAreDisjoint, ReaderIsConsistent
  <2>7. QED
    BY <2>2, <2>4, <2>6 DEF ClientsSound
<1>2. QED
  BY <1>1, ReaderInvHolds, PTL

\* Theorem: a statement that says it was cancelled had an abort at work while it ran.
THEOREM CancelsMetAnAbort == Spec => []ReaderCancelsMetAnAbort
<1>1. ReaderInv => ReaderCancelsMetAnAbort
  BY DEF ReaderInv, ScanInv, AbortsAreNoticed, ReaderCancelsMetAnAbort, SaysCancelled,
         AllThreads
<1>2. QED
  BY <1>1, ReaderInvHolds, PTL

\* A thread's step leaves the other threads where they are.
LEMMA OthersStandStill ==
  ASSUME TypeOK, NEW v \in AllThreads, GoesOn(v) \/ Probe(v) \/ Begins(v),
         NEW t \in AllThreads, t # v
  PROVE  th'[t].pc = th[t].pc
<1>1. (\E r : Becomes(v, r)) \/ SwapSession(v) \/ BeginScan(v)
  <2>1. CASE StartUp /\ v = Main
    BY <2>1 DEF StartUp
  <2>2. CASE Probe(v) \/ AskQuery(v) \/ AskReconnect(v) \/ AskTransaction(v) \/ AskForced(v)
    BY <2>2 DEF Probe, AskQuery, AskReconnect, AskTransaction, AskForced
  <2>3. CASE Registering(v)
    BY <2>3 DEF Registering, ConnectEnters, MissingEnters, ThenNeeds, Needs, NeedsFail,
                RegisterTable, MissingEnds, ConnectEnds, Returns, Goes
  <2>4. CASE Querying(v)
    BY <2>4 DEF Querying, Asked, EnterQuery, ScanEnds, Goes
  <2>5. CASE Connecting(v)
    BY <2>5 DEF Connecting, ConnectNotNeeded, ConnectBegins, SessionOpens, ClearPrepared,
                ConnectFails, Goes
  <2>6. CASE Transacting(v)
    BY <2>6 DEF Transacting, TakeSession, Prepare, PrepareFails
  <2>7. QED
    BY <2>1, <2>2, <2>3, <2>4, <2>5, <2>6 DEF GoesOn, Begins
<1>2. th \in [AllThreads -> Thread] /\ th[t] \in Thread
  BY DEF TypeOK
<1>3. CASE \E r : Becomes(v, r)
  BY <1>2, <1>3 DEF Becomes
<1>4. CASE SwapSession(v)
  <2>1. th'[t] = [th[t] EXCEPT !.same = FALSE]
    BY <1>4, SwapSessionIs
  <2>2. QED
    BY <1>2, <2>1 DEF Thread
<1>5. CASE BeginScan(v)
  <2>1. th'[t] = th[t] \/ th'[t] = [th[t] EXCEPT !.sees = NoThread]
    BY <1>5 DEF BeginScan
  <2>2. QED
    BY <1>2, <2>1 DEF Thread
<1>6. QED
  BY <1>1, <1>3, <1>4, <1>5

\* The session is rebuilt in one way only.
LEMMA OnlySwapsRebuild ==
  ASSUME ReaderInv, Next, NEW t \in Threads, th[t].pc = "rTables", th'[t].pc = "rFlag"
  PROVE  SwapSession(t)
<1>1. TypeOK /\ t \in AllThreads /\ th[t] \in Thread
  BY DEF ReaderInv, TypeOK, AllThreads
<1>2. UNCHANGED th => FALSE
  OBVIOUS
<1>3. ASSUME AbortLooks \/ AbortCancels PROVE FALSE
  <2>1. th'[t] = th[t] \/ th[t].pc = "scanning"
    BY <1>1, <1>3, AbortIs
  <2>2. QED
    BY <2>1
<1>4. PICK v \in AllThreads : GoesOn(v) \/ Probe(v) \/ Begins(v)
  <2>1. ~AbortLooks /\ ~AbortFlags /\ ~AbortCancels
    BY <1>2, <1>3 DEF AbortFlags
  <2>2. QED
    BY <1>2, <2>1 DEF Next, ProbeReturns, Flush, Tick, AllThreads
<1>5. v = t
  BY <1>1, <1>4, OthersStandStill
<1>6. Registering(t)
  BY <1>4, <1>5 DEF GoesOn, Probe, Begins, AskQuery, AskReconnect, AskTransaction, AskForced,
       Ready, StartUp, Querying, Asked, EnterQuery, ScanEnds, Connecting, ConnectNotNeeded,
       ConnectBegins, SessionOpens, ClearPrepared, ConnectFails, Transacting, TakeSession,
       Prepare, PrepareFails, Preparing
<1>7. ~RegisterTable(t)
  <2>1. SUFFICES ASSUME RegisterTable(t) PROVE FALSE
    OBVIOUS
  <2>2. PICK loc : Moves(t, [th[t] EXCEPT !.tab = th[t].tab + 1, !.loc = loc])
    BY <1>1, <2>1, RegisterTableIs
  <2>3. QED
    BY <1>1, <2>2 DEF Moves, Thread
<1>8. ~MissingEnds(t)
  <2>1. SUFFICES ASSUME MissingEnds(t) PROVE FALSE
    OBVIOUS
  <2>2. th'[t] = Fresh(th[t].job, th[t].then)
    BY <1>1, <2>1, ThreadReturns DEF MissingEnds
  <2>3. th[t].then \in {"idle", "served", "asked"}
    BY <1>1, ThreadFields
  <2>4. QED
    BY <2>2, <2>3 DEF Fresh
<1>9. QED
  BY <1>6, <1>7, <1>8 DEF Registering, ConnectEnters, MissingEnters, Needs, NeedsFail, ConnectEnds

\* Theorem: a probe does not replace the providers of a scan that was running when it
\* decided to register.
THEOREM ProbesSpareScans == Spec => ProbesSpareScansTheySaw
<1>1. ReaderInv /\ [Next]_vars =>
        [\A t \in Threads :
            th[t].job = "probe" /\ th[t].pc = "rTables" /\ th'[t].pc = "rFlag"
                => th[t].sees \notin Bereft]_vars
  <2>1. SUFFICES ASSUME ReaderInv, Next, NEW t \in Threads, th[t].job = "probe",
                        th[t].pc = "rTables", th'[t].pc = "rFlag", th[t].sees \in Bereft
                 PROVE  FALSE
    OBVIOUS
  <2>2. Rebuilds(t)
    BY <2>1, OnlySwapsRebuild DEF SwapSession, Rebuilds
  <2>3. /\ th[t].sees \in AllThreads /\ th[th[t].sees].pc = "scanning" /\ th[th[t].sees].same
    BY <2>1 DEF Bereft, AllThreads
  <2>4. QED
    BY <2>1, <2>2, <2>3 DEF ReaderInv, ScanInv, ProbesSawNothing, HeadsForOne
<1>2. QED
  BY <1>1, ReaderInvHolds, PTL DEF Spec, ProbesSpareScansTheySaw

=============================================================================
