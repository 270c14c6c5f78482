---------------------------- MODULE DemoSettings ----------------------------
(***************************************************************************)
(* The demo's controls, from the Settings page to the table of assets: the *)
(* backend's settings (backend/app/routes/settings.py), the page's form    *)
(* (frontend/src/pages/Settings.tsx), the producer that polls them and     *)
(* paces its events by them (ingress/producer/producer.py), and what the   *)
(* cleanup and the breach scenario (backend/app/routes/demo.py) do to      *)
(* drone_latest_status meanwhile.                                          *)
(***************************************************************************)
EXTENDS Integers, FiniteSets, FiniteSetsExt

CONSTANTS
    Asked,         \* the fleet sizes and rates somebody asks for: records of both
    TurnsPerSec,   \* turns of the producer's loop in a second
    BackendMax,    \* env.demo_max_entities
    ProducerMax,   \* max_entities of the producer
    DefaultSize, DefaultRate,   \* both environments declare the same
    MaxClicks,     \* bound: what is done on the page, and backend restarts
    MaxMishaps     \* bound: scenarios, failed polls, lost events, producer restarts

ASSUME DemoAssumption ==
    /\ Asked \subseteq [size : Nat \ {0}, rate : Nat \ {0}]
    /\ {TurnsPerSec, BackendMax, ProducerMax, DefaultSize, DefaultRate} \subseteq Nat \ {0}
    /\ DefaultSize <= ProducerMax
    /\ {MaxClicks, MaxMishaps} \subseteq Nat

VARIABLES
    current,     \* settings.py's _current
    form,        \* the page's form
    synced,      \* history: nobody else has changed `paused' since the page's last answer
    poller,      \* the payload the poll has read and not applied, as a set
    live,        \* LiveSettings
    turn,        \* the loop's turn: the settings it took, and whether it is under way
    owed,        \* events owed, in parts of a turn: 0 up to TurnsPerSec - 1
    ptr,
    drift,       \* history: events sent less events due at this rate, in the same parts
    shares,      \* history: each asset's events at this size, less the fewest of any
    inFlight,    \* assets with an event in the topic that the sink may yet write
    fleetRows,   \* the assets of drone_latest_status
    scenario,    \* the breach scenario's target, between its read and its write
    quiet,       \* history: nothing but the fleet has written since a cleanup
    used         \* what is bounded

demoVars == <<current, form, synced, poller, live, turn, owed, ptr, drift, shares, inFlight,
              fleetRows, scenario, quiet, used>>
producerVars == <<live, turn, owed, ptr, drift, shares>>
tableVars    == <<inFlight, fleetRows, scenario>>

Drones    == 0..(ProducerMax - 1)
FleetOf(s) == 0..(Min({s.size, ProducerMax}) - 1)
Defaults  == [size |-> Min({DefaultSize, BackendMax}), rate |-> DefaultRate, paused |-> FALSE]
AtStart   == [size |-> DefaultSize, rate |-> DefaultRate, paused |-> FALSE]
NoShares  == [d \in Drones |-> 0]

Using(what, bound) == used[what] < bound /\ used' = [used EXCEPT ![what] = @ + 1]

-----------------------------------------------------------------------------
(* The page and the backend.  Each request holds the lock. *)

\* The page is opened, or another one is.
LoadPage ==
    /\ Using("clicks", MaxClicks)
    /\ form' = current /\ synced' = TRUE
    /\ UNCHANGED <<current, poller, quiet>> /\ UNCHANGED <<producerVars, tableVars>>

\* "Startup defaults loaded -- apply them to take effect".
RestoreDefaults ==
    /\ Using("clicks", MaxClicks)
    /\ form' = Defaults /\ synced' = FALSE
    /\ UNCHANGED <<current, poller, quiet>> /\ UNCHANGED <<producerVars, tableVars>>

\* The sliders are moved and the whole form is posted; the answer becomes the form.
Save(ask) ==
    LET clamped == [form EXCEPT !.size = Min({ask.size, BackendMax}), !.rate = ask.rate] IN
    /\ Using("clicks", MaxClicks)
    /\ current' = clamped /\ form' = clamped /\ synced' = TRUE
    /\ quiet' = (quiet /\ clamped.size = current.size)
    /\ UNCHANGED poller /\ UNCHANGED <<producerVars, tableVars>>

\* Faulty: the page that toggles keeps the form it had.
TogglePauseUnseen(here) ==
    /\ Using("clicks", MaxClicks)
    /\ current' = [current EXCEPT !.paused = ~@]
    /\ UNCHANGED form /\ synced' = here
    /\ UNCHANGED <<poller, quiet>> /\ UNCHANGED <<producerVars, tableVars>>

\* From this page, whose form takes the answer's `paused', or from another.
TogglePause(here) ==
    /\ Using("clicks", MaxClicks)
    /\ current' = [current EXCEPT !.paused = ~@]
    /\ IF here THEN form' = [form EXCEPT !.paused = ~current.paused] /\ synced' = TRUE
               ELSE UNCHANGED form /\ synced' = FALSE
    /\ UNCHANGED <<poller, quiet>> /\ UNCHANGED <<producerVars, tableVars>>

\* "State is deliberately in memory only".
BackendRestarts ==
    /\ Using("clicks", MaxClicks)
    /\ current' = Defaults /\ synced' = FALSE
    /\ quiet' = (quiet /\ Defaults.size = current.size)
    /\ UNCHANGED <<form, poller>> /\ UNCHANGED <<producerVars, tableVars>>

\* TRUNCATE drone_latest_status.
Cleanup ==
    /\ Using("clicks", MaxClicks)
    /\ fleetRows' = {}
    /\ quiet' = /\ FleetOf(live) = FleetOf(current)
                /\ \A s \in poller : FleetOf(s) = FleetOf(current)
                /\ turn.busy => FleetOf(turn.with) = FleetOf(current)
                /\ inFlight \subseteq FleetOf(current)
                /\ scenario \subseteq FleetOf(current)
    /\ UNCHANGED <<current, form, synced, poller, inFlight, scenario>>
    /\ UNCHANGED producerVars

-----------------------------------------------------------------------------
(* The breach scenario *)

\* The assets that are flying, of which it takes any.
ScenarioPicks(d) ==
    /\ scenario = {} /\ d \in fleetRows /\ Using("mishaps", MaxMishaps)
    /\ scenario' = {d}
    /\ UNCHANGED <<current, form, synced, poller, inFlight, fleetRows, quiet>>
    /\ UNCHANGED producerVars

\* An UPDATE of a row that has gone makes a row; so it may if the answer is an error.
ScenarioWrites ==
    /\ scenario # {}
    /\ fleetRows' = fleetRows \cup scenario /\ scenario' = {}
    /\ UNCHANGED <<current, form, synced, poller, inFlight, quiet, used>>
    /\ UNCHANGED producerVars

ScenarioFails ==
    /\ scenario # {}
    /\ scenario' = {}
    /\ UNCHANGED <<current, form, synced, poller, inFlight, fleetRows, quiet, used>>
    /\ UNCHANGED producerVars

-----------------------------------------------------------------------------
(* The producer *)

PollReads ==
    /\ poller = {}
    /\ poller' = {current}
    /\ UNCHANGED <<current, form, synced, quiet, used>> /\ UNCHANGED <<producerVars, tableVars>>

\* No answer in time, or none that can be read: the values it has are kept.
PollFails ==
    /\ poller # {} /\ Using("mishaps", MaxMishaps)
    /\ poller' = {}
    /\ UNCHANGED <<current, form, synced, quiet>> /\ UNCHANGED <<producerVars, tableVars>>

\* Faulty: the fleet keeps the size it was started with.
ApplyRateOnly ==
    /\ poller # {}
    /\ \E s \in poller : live' = [s EXCEPT !.size = live.size]
    /\ poller' = {}
    /\ UNCHANGED <<current, form, synced, turn, owed, ptr, drift, shares, quiet, used>>
    /\ UNCHANGED tableVars

\* All the fields together, under the lock that snapshot takes.
Apply ==
    /\ poller # {}
    /\ \E s \in poller : live' = s
    /\ poller' = {}
    /\ UNCHANGED <<current, form, synced, turn, owed, ptr, drift, shares, quiet, used>>
    /\ UNCHANGED tableVars

\* A turn begins with a snapshot of the settings, unless they say that it is paused;
\* what they become after that is for the next turn.
TakeSettings ==
    /\ ~turn.busy /\ ~live.paused
    /\ turn' = [busy |-> TRUE, with |-> live]
    /\ drift' = IF live.rate = turn.with.rate THEN drift ELSE 0
    /\ shares' = IF FleetOf(live) = FleetOf(turn.with) THEN shares ELSE NoShares
    /\ UNCHANGED <<current, form, synced, poller, live, owed, ptr, quiet, used>>
    /\ UNCHANGED tableVars

\* The assets of a batch, and how many of its events are d's.
Ids(n, batch) == {(ptr + k) % n : k \in 0..(batch - 1)}
EventsOf(d, n, batch) == Cardinality({k \in 0..(batch - 1) : (ptr + k) % n = d})

Shared(n, batch) ==
    LET more(d) == shares[d] + EventsOf(d, n, batch)
        least   == Min({more(d) : d \in 0..(n - 1)}) IN
    [d \in Drones |-> IF d < n THEN more(d) - least ELSE 0]

\* Faulty: the cursor runs over all the assets there is room for.
SendWideCursor ==
    LET n     == Min({turn.with.size, ProducerMax})
        total == owed + turn.with.rate
        batch == total \div TurnsPerSec IN
    /\ turn.busy /\ turn' = [turn EXCEPT !.busy = FALSE]
    /\ owed' = total % TurnsPerSec
    /\ ptr' = (ptr + batch) % ProducerMax
    /\ inFlight' = inFlight \cup Ids(n, batch)
    /\ drift' = drift + batch * TurnsPerSec - turn.with.rate
    /\ shares' = Shared(n, batch)
    /\ UNCHANGED <<current, form, synced, poller, live, fleetRows, scenario, quiet, used>>

\* Faulty: the events are spread over all the assets there is room for.
SendForWholeFleet ==
    LET n     == ProducerMax
        total == owed + turn.with.rate
        batch == total \div TurnsPerSec IN
    /\ turn.busy /\ turn' = [turn EXCEPT !.busy = FALSE]
    /\ owed' = total % TurnsPerSec
    /\ ptr' = (ptr + batch) % n
    /\ inFlight' = inFlight \cup Ids(n, batch)
    /\ drift' = drift + batch * TurnsPerSec - turn.with.rate
    /\ shares' = Shared(n, batch)
    /\ UNCHANGED <<current, form, synced, poller, live, fleetRows, scenario, quiet, used>>

\* The rest of the turn: what the rate owes by now is sent, and the fraction left
\* over is carried.
SendBatch ==
    LET n     == Min({turn.with.size, ProducerMax})
        total == owed + turn.with.rate
        batch == total \div TurnsPerSec IN
    /\ turn.busy /\ turn' = [turn EXCEPT !.busy = FALSE]
    /\ owed' = total % TurnsPerSec
    /\ ptr' = IF batch > 0 THEN (ptr + batch) % n ELSE ptr
    /\ inFlight' = inFlight \cup Ids(n, batch)
    /\ drift' = drift + batch * TurnsPerSec - turn.with.rate
    /\ shares' = Shared(n, batch)
    /\ UNCHANGED <<current, form, synced, poller, live, fleetRows, scenario, quiet, used>>

Turn == TakeSettings \/ SendBatch

\* It starts from its environment, and first polls an interval later.
ProducerRestarts ==
    /\ Using("mishaps", MaxMishaps)
    /\ live' = AtStart /\ turn' = [busy |-> FALSE, with |-> AtStart] /\ owed' = 0
    /\ ptr' = 0 /\ drift' = 0 /\ shares' = NoShares
    /\ poller' = {}
    /\ quiet' = (quiet /\ FleetOf(AtStart) = FleetOf(current))
    /\ UNCHANGED <<current, form, synced>> /\ UNCHANGED tableVars

-----------------------------------------------------------------------------
(* The topic and the sink *)

\* A batch that fails is written again, so an event may be written more than once.
SinkUpserts(d) ==
    /\ d \in inFlight
    /\ fleetRows' = fleetRows \cup {d}
    /\ inFlight' \in {inFlight, inFlight \ {d}}
    /\ UNCHANGED <<current, form, synced, poller, scenario, quiet, used>>
    /\ UNCHANGED producerVars

\* "acks=0 is lossy by design".
EventLost(d) ==
    /\ d \in inFlight /\ Using("mishaps", MaxMishaps)
    /\ inFlight' = inFlight \ {d}
    /\ UNCHANGED <<current, form, synced, poller, fleetRows, scenario, quiet>>
    /\ UNCHANGED producerVars

-----------------------------------------------------------------------------
\* The table may have rows of an earlier run.
DemoInit ==
    /\ current = Defaults /\ form = Defaults /\ synced = TRUE /\ poller = {}
    /\ live = AtStart /\ turn = [busy |-> FALSE, with |-> AtStart] /\ owed = 0
    /\ ptr = 0 /\ drift = 0 /\ shares = NoShares
    /\ inFlight = {} /\ fleetRows \in SUBSET Drones /\ scenario = {}
    /\ quiet = (fleetRows \subseteq FleetOf(Defaults) /\ FleetOf(AtStart) = FleetOf(Defaults))
    /\ used = [clicks |-> 0, mishaps |-> 0]

DemoNext ==
    \/ LoadPage \/ RestoreDefaults \/ BackendRestarts \/ Cleanup
    \/ \E ask \in Asked : Save(ask)
    \/ \E here \in BOOLEAN : TogglePause(here)
    \/ ScenarioWrites \/ ScenarioFails
    \/ PollReads \/ PollFails \/ Apply \/ Turn \/ ProducerRestarts
    \/ \E d \in Drones : ScenarioPicks(d) \/ SinkUpserts(d) \/ EventLost(d)

\* The poller comes round; the loop turns; the sink writes what it is sent.
DemoFairness ==
    /\ WF_demoVars(PollReads \/ Apply) /\ WF_demoVars(Turn)
    /\ \A d \in Drones : WF_demoVars(SinkUpserts(d))

DemoSpec == DemoInit /\ [][DemoNext]_demoVars /\ DemoFairness

-----------------------------------------------------------------------------
(* Properties *)

DemoTypeOK ==
    /\ \A s \in {current, form, live, turn.with} \cup poller :
        /\ s.size \in 1..Max({BackendMax, DefaultSize})
        /\ s.rate \in {ask.rate : ask \in Asked} \cup {DefaultRate} /\ s.paused \in BOOLEAN
    /\ Cardinality(poller) <= 1 /\ Cardinality(scenario) <= 1
    /\ {synced, quiet, turn.busy} \subseteq BOOLEAN
    /\ owed \in 0..(TurnsPerSec - 1) /\ ptr \in Drones
    /\ drift \in Int /\ shares \in [Drones -> Nat]
    /\ inFlight \cup fleetRows \cup scenario \subseteq Drones
    /\ used \in [clicks : 0..MaxClicks, mishaps : 0..MaxMishaps]

\* A save posts the whole form, `paused' too.  It undoes a pause only from a page
\* that has loaded the defaults or has not been answered since somebody else's
\* toggle or a restart: every other page shows what is in force.
FreshPagesKeepThePause == synced => form.paused = current.paused

\* "Carrying it means four quarter-turns send one event between them", and "takes
\* effect on the next turn with no burst of the old one": since the rate was
\* adopted, what has been sent is less than one event from what was due, over any
\* number of turns, pauses and changes of the fleet.
RateIsKept == drift > -TurnsPerSec /\ drift < TurnsPerSec

\* "Round-robin cursor, for an even per-entity cadence": since a fleet size was
\* adopted, no asset of it is more than one event ahead of another, wherever the
\* old size had left the cursor.
EvenCadence == \A d \in FleetOf(turn.with) : shares[d] <= 1

\* What the produce loop keeps of its pace.
PaceIsKept == DemoTypeOK /\ RateIsKept /\ EvenCadence

\* "Clearing the table lets the KPIs settle on the new size": so it does, if the
\* cleanup comes after the producer has adopted the size, the turn it was in is over,
\* the sink has written the retired assets' last events, and no scenario is at a
\* retired one: until the size changes again, only assets of the fleet have rows.
QuietCleanupSettles == quiet => fleetRows \subseteq FleetOf(current)

\* "Every control here has a visible effect on the live stack": left unpaused, the
\* producer has the settings in the end and every asset of the fleet a row,
\* whatever was lost, cleared or restarted before.
ControlsTakeEffect ==
    <>[](~current.paused) => <>[](live = current /\ FleetOf(current) \subseteq fleetRows)

=============================================================================
