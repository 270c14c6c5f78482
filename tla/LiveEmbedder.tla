---------------------------- MODULE LiveEmbedder ----------------------------
(***************************************************************************)
(* The live embedder (backend/app/routes/vector.py): a task that reads the *)
(* snippets the sink has written and embeds the ones it has not embedded   *)
(* yet, beside index_all, which embeds everything without telling it.      *)
(*                                                                         *)
(* A snippet stands for its digest, and an embedding for the snippet that  *)
(* is stored beside it: the two are written by one INSERT.  Each write is  *)
(* a step, in the order of the writes' timestamps.                         *)
(***************************************************************************)
EXTENDS Integers, Sequences, FiniteSets, SequencesExt

CONSTANTS
    ReadOrder,      \* the assets, in the order in which a table read lists them
    Snippets,
    NoText,         \* the asset carries no text, or nothing is known of it
    EmbedByDefault, \* settings.vector_live_embeddings
    MaxPerCycle,    \* settings.vector_live_max_per_cycle
    MaxChanges,     \* bound: snippets the sink writes
    MaxFaults,      \* bound: passes, writes and backends that fail
    MaxBulks        \* bound: calls of index_all

ASSUME EmbedderAssumption ==
    /\ ReadOrder \in Seq(ToSet(ReadOrder)) /\ IsInjective(ReadOrder)
    /\ NoText \notin Snippets
    /\ EmbedByDefault \in BOOLEAN
    /\ {MaxPerCycle, MaxChanges, MaxFaults, MaxBulks} \subseteq Nat /\ MaxPerCycle > 0

VARIABLES
    snippet,   \* drone_latest_status: each asset's text_payload
    stored,    \* drone_text_embeddings: the snippet each vector was made of
    enabled,   \* _enabled
    primed,    \* _primed
    seen,      \* _seen
    phase,     \* where the loop is in _pass
    rows,      \* what _prime has read
    embeds,    \* each asset's embed_one: the snippet, and how far it is
    pending,   \* _pending
    failing,   \* _error is not None
    bulk,      \* what _run_indexing has read and not written
    strayed,   \* history: assets last written without the embedder's knowledge
    count      \* what is bounded: changes, faults, bulks

embedderVars == <<snippet, stored, enabled, primed, seen, phase, rows, embeds, pending,
                  failing, bulk, strayed, count>>

Assets == ToSet(ReadOrder)
Text   == Snippets \cup {NoText}
Nothing == [a \in Assets |-> NoText]
NoEmbed == [text |-> NoText, landed |-> FALSE]

Counting(what, bound) == count[what] < bound /\ count' = [count EXCEPT ![what] = @ + 1]

-----------------------------------------------------------------------------
(* Around it: the sink, and the switch *)

SinkWrites(a, s) ==
    /\ snippet[a] # s /\ Counting("changes", MaxChanges)
    /\ snippet' = [snippet EXCEPT ![a] = s]
    /\ UNCHANGED <<stored, enabled, primed, seen, phase, rows, embeds, pending, failing,
                   bulk, strayed>>

\* The pass under way goes on, and what it has seen is kept.
SetEnabled(on) ==
    /\ enabled' = on
    /\ failing' = (failing /\ on)
    /\ UNCHANGED <<snippet, stored, primed, seen, phase, rows, embeds, pending, bulk,
                   strayed, count>>

-----------------------------------------------------------------------------
(* run and _pass *)

BeginPass ==
    /\ phase = "idle" /\ enabled
    /\ phase' = IF primed THEN "read" ELSE "prime"
    /\ UNCHANGED <<snippet, stored, enabled, primed, seen, rows, embeds, pending, failing,
                   bulk, strayed, count>>

\* Faulty: the task ends with the pass that failed.
PassStops ==
    /\ phase \in {"prime", "read"} /\ Counting("faults", MaxFaults)
    /\ phase' = "stopped" /\ failing' = TRUE
    /\ UNCHANGED <<snippet, stored, enabled, primed, seen, rows, embeds, pending, bulk,
                   strayed>>

\* Cassandra is not connected, or one of the two reads raises.
PassFails ==
    /\ phase \in {"prime", "read"} /\ Counting("faults", MaxFaults)
    /\ phase' = "idle" /\ failing' = TRUE
    /\ UNCHANGED <<snippet, stored, enabled, primed, seen, rows, embeds, pending, bulk,
                   strayed>>

\* _prime, up to the await and from it.
PrimeReads ==
    /\ phase = "prime"
    /\ rows' = stored /\ strayed' = {}
    /\ phase' = "primed"
    /\ UNCHANGED <<snippet, stored, enabled, primed, seen, embeds, pending, failing, bulk,
                   count>>

Prime ==
    /\ phase = "primed"
    /\ seen' = [a \in Assets |-> IF rows[a] = NoText THEN seen[a] ELSE rows[a]]
    /\ primed' = TRUE /\ rows' = Nothing
    /\ phase' = "read"
    /\ UNCHANGED <<snippet, stored, enabled, embeds, pending, failing, bulk, strayed, count>>

\* The places of a read whose snippet is not the one seen, and the first
\* MaxPerCycle of them.
Changed == {i \in DOMAIN ReadOrder : snippet[ReadOrder[i]] \notin {NoText, seen[ReadOrder[i]]}}
Batch   == {i \in Changed : Cardinality({k \in Changed : k < i}) < MaxPerCycle}

ReadRows ==
    /\ phase = "read"
    /\ pending' = Cardinality(Changed \ Batch)
    /\ embeds' = [a \in Assets |->
                    IF \E i \in Batch : ReadOrder[i] = a
                    THEN [text |-> snippet[a], landed |-> FALSE] ELSE NoEmbed]
    /\ phase' = "embed"
    /\ UNCHANGED <<snippet, stored, enabled, primed, seen, rows, failing, bulk, strayed, count>>

EmbedLands(a) ==
    /\ embeds[a].text # NoText /\ ~embeds[a].landed
    /\ stored' = [stored EXCEPT ![a] = embeds[a].text]
    /\ strayed' = strayed \ {a}
    /\ embeds' = [embeds EXCEPT ![a].landed = TRUE]
    /\ UNCHANGED <<snippet, enabled, primed, seen, phase, rows, pending, failing, bulk, count>>

EmbedSeen(a) ==
    /\ embeds[a].landed
    /\ seen' = [seen EXCEPT ![a] = embeds[a].text]
    /\ embeds' = [embeds EXCEPT ![a] = NoEmbed]
    /\ UNCHANGED <<snippet, stored, enabled, primed, phase, rows, pending, failing, bulk,
                   strayed, count>>

\* Faulty: seen before it is written.
EmbedFailsSeen(a) ==
    /\ embeds[a].text # NoText /\ ~embeds[a].landed /\ Counting("faults", MaxFaults)
    /\ seen' = [seen EXCEPT ![a] = embeds[a].text]
    /\ embeds' = [embeds EXCEPT ![a] = NoEmbed]
    /\ UNCHANGED <<snippet, stored, enabled, primed, phase, rows, pending, failing, bulk,
                   strayed>>

\* get_embedding raises, or the write does: then it may have been applied.
EmbedFails(a) ==
    /\ embeds[a].text # NoText /\ ~embeds[a].landed /\ Counting("faults", MaxFaults)
    /\ \/ UNCHANGED <<stored, strayed>>
       \/ stored' = [stored EXCEPT ![a] = embeds[a].text] /\ strayed' = strayed \cup {a}
    /\ embeds' = [embeds EXCEPT ![a] = NoEmbed]
    /\ UNCHANGED <<snippet, enabled, primed, seen, phase, rows, pending, failing, bulk>>

\* Only the loop looks at the switch, before the next pass.
PassEnds ==
    /\ phase = "embed" /\ \A a \in Assets : embeds[a] = NoEmbed
    /\ phase' = "idle" /\ failing' = FALSE
    /\ UNCHANGED <<snippet, stored, enabled, primed, seen, rows, embeds, pending, bulk,
                   strayed, count>>

-----------------------------------------------------------------------------
(* index_all, in the background *)

IndexAll ==
    /\ bulk = Nothing /\ Counting("bulks", MaxBulks)
    /\ bulk' = snippet
    /\ UNCHANGED <<snippet, stored, enabled, primed, seen, phase, rows, embeds, pending,
                   failing, strayed>>

IndexOne(a) ==
    /\ bulk[a] # NoText
    /\ stored' = [stored EXCEPT ![a] = bulk[a]]
    /\ strayed' = strayed \cup {a}
    /\ bulk' = [bulk EXCEPT ![a] = NoText]
    /\ UNCHANGED <<snippet, enabled, primed, seen, phase, rows, embeds, pending, failing, count>>

IndexOneFails(a) ==
    /\ bulk[a] # NoText /\ Counting("faults", MaxFaults)
    /\ bulk' = [bulk EXCEPT ![a] = NoText]
    /\ UNCHANGED <<snippet, stored, enabled, primed, seen, phase, rows, embeds, pending,
                   failing, strayed>>

\* What is in memory is lost; a write that was sent may still have been applied.
Restart ==
    /\ Counting("faults", MaxFaults)
    /\ enabled' = EmbedByDefault /\ primed' = FALSE /\ seen' = Nothing
    /\ phase' = "idle" /\ rows' = Nothing /\ embeds' = [a \in Assets |-> NoEmbed]
    /\ pending' = 0 /\ failing' = FALSE /\ bulk' = Nothing
    /\ UNCHANGED <<snippet, stored, strayed>>

-----------------------------------------------------------------------------
\* The sink has written some assets and an earlier run has embedded others.
EmbedderInit ==
    /\ snippet \in [Assets -> Text] /\ stored \in [Assets -> Text]
    /\ enabled = EmbedByDefault /\ primed = FALSE /\ seen = Nothing
    /\ phase = "idle" /\ rows = Nothing /\ embeds = [a \in Assets |-> NoEmbed]
    /\ pending = 0 /\ failing = FALSE /\ bulk = Nothing /\ strayed = {}
    /\ count = [changes |-> 0, faults |-> 0, bulks |-> 0]

\* The task goes on.
Embedding ==
    \/ BeginPass \/ PrimeReads \/ Prime \/ ReadRows \/ PassEnds
    \/ \E a \in Assets : EmbedLands(a) \/ EmbedSeen(a)

EmbedderNext ==
    \/ Embedding \/ PassFails \/ IndexAll \/ Restart
    \/ \E on \in BOOLEAN : SetEnabled(on)
    \/ \E a \in Assets :
        \/ EmbedFails(a) \/ IndexOne(a) \/ IndexOneFails(a)
        \/ \E s \in Snippets : SinkWrites(a, s)

EmbedderSpec == EmbedderInit /\ [][EmbedderNext]_embedderVars /\ WF_embedderVars(Embedding)

-----------------------------------------------------------------------------
(* Properties *)

EmbedderTypeOK ==
    /\ {snippet, stored, seen, rows, bulk} \subseteq [Assets -> Text]
    /\ {enabled, primed, failing} \subseteq BOOLEAN
    /\ phase \in {"idle", "prime", "primed", "read", "embed"}
    /\ embeds \in [Assets -> [text : Text, landed : BOOLEAN]]
    /\ pending \in 0..Len(ReadOrder)
    /\ strayed \subseteq Assets
    /\ count \in [changes : 0..MaxChanges, faults : 0..MaxFaults, bulks : 0..MaxBulks]

\* "Recorded only after the write, so a failed write is retried": what _seen holds
\* of an asset is what is stored, unless index_all or a write reported as failed
\* has written it since, or this pass has and is about to record it.
SeenIsStored ==
    \A a \in Assets :
        seen[a] \notin {NoText, stored[a]} => a \in strayed \/ embeds[a].landed

\* What a pass remembers, at every moment.
EmbedderSound == EmbedderTypeOK /\ SeenIsStored

\* "Keeps drone_text_embeddings following the snippets the sink writes": left on,
\* it catches up once the snippets rest, through the cap, failed passes and writes
\* and restarts, with every asset that was not written behind its back.
FollowsSnippets ==
    <>[]enabled =>
        <>[](/\ \A a \in Assets : snippet[a] \in {NoText, stored[a]} \/ a \in strayed
             /\ ~failing /\ pending = 0)

=============================================================================
