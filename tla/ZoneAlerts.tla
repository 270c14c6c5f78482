----------------------------- MODULE ZoneAlerts -----------------------------
(***************************************************************************)
(* What the sink derives from the events it writes                         *)
(* (ingress/consumer/consumer.py): the tracker's speeds, the zone cache    *)
(* and the alerts, all of them in memory, while the zones change, batches  *)
(* fail and the process dies and has its records again from the last       *)
(* commit.  EventSink is about the rows themselves; here a batch is only   *)
(* the records it handles.                                                 *)
(***************************************************************************)
EXTENDS Geometry, SequencesExt, FiniteSetsExt

CONSTANTS
    Fleet,        \* assets
    ZoneOrder,    \* the zones, in the order in which the table read lists them
    Points,       \* where an asset may be
    Texts,        \* what a zone's polygon_wkt may be
    Ring,         \* parse_wkt_polygon: each text's points, <<>> if it is no polygon
    NoZone,       \* the zone is not in the cache
    Grid,         \* the points that containment is checked for
    Cooldown,     \* ALERT_COOLDOWN_S, in ticks
    ReloadEvery,  \* ZONE_RELOAD_S, in ticks
    MaxSpeed,     \* MAX_PLAUSIBLE_SPEED_MPS, in units a tick
    MaxEvents,    \* bound: events produced
    MaxTime,      \* bound: ticks
    MaxEdits,     \* bound: changes of a zone
    MaxDeaths,    \* bound: restarts
    MaxMisses     \* bound: zone reads, alert writes and batches that fail

Zones  == ToSet(ZoneOrder)
Shapes == {text \in Texts : Usable(Ring[text])}
Held   == Shapes \cup {NoZone}

ASSUME AlertsAssumption ==
    /\ IsInjective(ZoneOrder) /\ NoZone \notin Texts /\ DOMAIN Ring = Texts
    /\ Points \subseteq Int \X Int
    /\ {Cooldown, ReloadEvery, MaxSpeed, MaxEvents, MaxTime, MaxEdits, MaxDeaths, MaxMisses}
            \subseteq Nat

VARIABLES
    zones,     \* restricted_zones: each zone's polygon_wkt, and whether it is enabled
    events,    \* the topic
    sink,      \* the loop: where it is, the next record, and the last commit
    tracker,   \* DroneTracker._state
    cache,     \* AlertGenerator._zones: each zone's polygon, if it is there
    loaded,    \* _loaded
    elapsed,   \* ticks since last_zone_reload, up to one more than ReloadEvery
    cooling,   \* what is left of each cooldown: _last_alert
    alerts,    \* alerts_by_bucket
    now,
    past       \* bounds and history: edits, deaths, misses; ticks since the last
               \* edit; whether the last zone read failed

alertVars == <<zones, events, sink, tracker, cache, loaded, elapsed, cooling, alerts, now,
               past>>

NoFix == [at |-> <<>>, time |-> 0, moved |-> 0, took |-> 1]

Missing(what, bound) == past[what] < bound
Missed(what)         == [past EXCEPT ![what] = @ + 1]

-----------------------------------------------------------------------------
(* DroneTracker.update *)

ApartSq(p, q) == Dot(<<p[1] - q[1], p[2] - q[2]>>, <<p[1] - q[1], p[2] - q[2]>>)

\* The new state, with the speed as the squared distance moved and the time taken.
\* Events out of order count as a thousandth of a second: any move is a glitch,
\* and a glitch keeps the speed there was.
Fix(prev, e) ==
    IF prev = NoFix
    THEN [at |-> e.at, time |-> e.time, moved |-> 0, took |-> 1]
    ELSE LET dt == IF e.time > prev.time THEN e.time - prev.time ELSE 0
             d  == ApartSq(prev.at, e.at) IN
         IF d > MaxSpeed * MaxSpeed * dt * dt
         THEN [at |-> e.at, time |-> e.time, moved |-> prev.moved, took |-> prev.took]
         ELSE [at |-> e.at, time |-> e.time, moved |-> d, took |-> IF dt = 0 THEN 1 ELSE dt]

-----------------------------------------------------------------------------
(* AlertGenerator *)

Warning     == 20   \* WARNING_DISTANCE_M
AlertWithin == 10    \* ALERT_RISK_THRESHOLD, as a distance
HighBelow   == 4     \* severity "high"
InsideAs    == 1     \* the risk of 0.95 inside a zone, as a distance

\* load_zones: the zones that are enabled and usable.
Loadable == [z \in Zones |-> IF zones[z].enabled /\ zones[z].text \in Shapes
                             THEN zones[z].text ELSE NoZone]

\* distance_to_polygon_m, for the points and the polygons there are.
Distances == [shape \in Shapes |-> [p \in Points \cup Grid |-> DistanceSq(p, Ring[shape])]]

Inside(p, shape)  == Distances[shape][p][1] = 0
\* The risk falls as this grows.
RiskSq(p, shape)  == IF Inside(p, shape) THEN Square(InsideAs) ELSE Distances[shape][p]
IsNear(p, shape)  == shape # NoZone /\ Less(Distances[shape][p], Square(Warning))
Alerts(p, shape)  == IsNear(p, shape) /\ ~Less(Square(AlertWithin), RiskSq(p, shape))

Severity(p, shape) ==
    IF Inside(p, shape) THEN "critical"
    ELSE IF Less(RiskSq(p, shape), Square(HighBelow)) THEN "high" ELSE "warning"

\* Faulty: the last zone that is near.
LastZone(p, held) ==
    LET near == {i \in 1..Len(ZoneOrder) : IsNear(p, held[ZoneOrder[i]])} IN
    IF near = {} THEN <<>> ELSE <<ZoneOrder[Max(near)]>>

\* check_proximity's nearest_zone_id, of the zones held: the first of the highest
\* risk.
NearestZone(p, held) ==
    LET near == {i \in 1..Len(ZoneOrder) : IsNear(p, held[ZoneOrder[i]])}
        risk(i) == RiskSq(p, held[ZoneOrder[i]]) IN
    IF near = {} THEN <<>>
    ELSE <<ZoneOrder[CHOOSE i \in near : \A j \in near :
                Less(risk(i), risk(j)) \/ (~Less(risk(j), risk(i)) /\ i <= j)]>>

\* _loaded is set whatever the read does; a read that fails keeps the zones.
LoadZones(fails) ==
    /\ loaded' = TRUE
    /\ cache' = IF fails THEN cache ELSE Loadable
    /\ past' = [past EXCEPT !.unread = fails, !.misses = IF fails THEN @ + 1 ELSE @]

-----------------------------------------------------------------------------
(* main's loop *)

\* Faulty: the zones are read once and for all.
PollRecordsOnce(fails) ==
    /\ sink.pc = "idle" /\ sink.next <= Len(events) /\ ~fails
    /\ sink' = [sink EXCEPT !.pc = "batch"]
    /\ UNCHANGED <<loaded, cache, past, elapsed>>
    /\ UNCHANGED <<zones, events, tracker, cooling, alerts, now>>

\* The zones are read again before the batch, if they are due, and are not due
\* again before the interval is over, whether they could be read or not.
PollRecords(fails) ==
    /\ sink.pc = "idle" /\ sink.next <= Len(events)
    /\ sink' = [sink EXCEPT !.pc = "batch"]
    /\ \/ /\ elapsed > ReloadEvery
          /\ fails => Missing("misses", MaxMisses)
          /\ LoadZones(fails)
          /\ elapsed' = 0
       \/ /\ elapsed <= ReloadEvery /\ ~fails
          /\ UNCHANGED <<loaded, cache, past, elapsed>>
    /\ UNCHANGED <<zones, events, tracker, cooling, alerts, now>>

\* The first event of all reads them.
FirstLoad(fails) ==
    /\ sink.pc = "batch" /\ ~loaded
    /\ fails => Missing("misses", MaxMisses)
    /\ LoadZones(fails)
    /\ UNCHANGED <<zones, events, sink, tracker, elapsed, cooling, alerts, now>>

\* Faulty: an alert is written a tick early.
HandleEarly(lost) ==
    LET e      == events[sink.next]
        due    == {z \in Zones : Alerts(e.at, cache[z])}
        write  == {z \in due : cooling[e.asset][z] <= 1} IN
    /\ sink.pc = "batch" /\ loaded /\ sink.next <= Len(events)
    /\ lost = {}
    /\ tracker' = [tracker EXCEPT ![e.asset] = Fix(@, e)]
    /\ cooling' = [cooling EXCEPT ![e.asset] =
                        [z \in Zones |-> IF z \in write THEN Cooldown ELSE @[z]]]
    /\ alerts' = alerts \cup {[event |-> sink.next, zone |-> z, at |-> now, life |-> past.deaths,
                               severity |-> Severity(e.at, cache[z])] : z \in write}
    /\ sink' = [sink EXCEPT !.next = @ + 1]
    /\ UNCHANGED past
    /\ UNCHANGED <<zones, events, cache, loaded, elapsed, now>>

\* One record.  The cooldown starts before the alert is written, and nobody waits
\* for the write: `lost' are the zones whose alert does not arrive.
Handle(lost) ==
    LET e      == events[sink.next]
        due    == {z \in Zones : Alerts(e.at, cache[z])}
        write  == {z \in due : cooling[e.asset][z] = 0} IN
    /\ sink.pc = "batch" /\ loaded /\ sink.next <= Len(events)
    /\ lost \subseteq write /\ (lost # {} => Missing("misses", MaxMisses))
    /\ tracker' = [tracker EXCEPT ![e.asset] = Fix(@, e)]
    /\ cooling' = [cooling EXCEPT ![e.asset] =
                        [z \in Zones |-> IF z \in write THEN Cooldown ELSE @[z]]]
    /\ alerts' = alerts \cup {[event |-> sink.next, zone |-> z, at |-> now, life |-> past.deaths,
                               severity |-> Severity(e.at, cache[z])] : z \in write \ lost}
    /\ sink' = [sink EXCEPT !.next = @ + 1]
    /\ past' = IF lost = {} THEN past ELSE Missed("misses")
    /\ UNCHANGED <<zones, events, cache, loaded, elapsed, now>>

\* The batch is handled; the sink waits for its rows.
AwaitRows ==
    /\ sink.pc = "batch" /\ loaded /\ sink.next > sink.commit
    /\ sink' = [sink EXCEPT !.pc = "acks"]
    /\ UNCHANGED <<zones, events, tracker, cache, loaded, elapsed, cooling, alerts, now, past>>

CommitBatch ==
    /\ sink.pc = "acks"
    /\ sink' = [sink EXCEPT !.pc = "idle", !.commit = sink.next]
    /\ UNCHANGED <<zones, events, tracker, cache, loaded, elapsed, cooling, alerts, now, past>>

\* A row could not be written: the next poll goes on from where the last one ended.
RowsFail ==
    /\ sink.pc = "acks" /\ Missing("misses", MaxMisses)
    /\ sink' = [sink EXCEPT !.pc = "idle"]
    /\ past' = Missed("misses")
    /\ UNCHANGED <<zones, events, tracker, cache, loaded, elapsed, cooling, alerts, now>>

\* The process starts with nothing in memory, at the last commit.
Dies ==
    /\ Missing("deaths", MaxDeaths)
    /\ sink' = [sink EXCEPT !.pc = "idle", !.next = sink.commit]
    /\ tracker' = [a \in Fleet |-> NoFix] /\ cache' = [z \in Zones |-> NoZone]
    /\ loaded' = FALSE /\ elapsed' = 0 /\ cooling' = [a \in Fleet |-> [z \in Zones |-> 0]]
    /\ past' = [Missed("deaths") EXCEPT !.unread = FALSE]
    /\ UNCHANGED <<zones, events, alerts, now>>

-----------------------------------------------------------------------------
(* Around it *)

\* An event may carry an earlier time than the one before it.  What arrives during
\* a batch waits for the next poll.
Fly(a, p, time) ==
    /\ Len(events) < MaxEvents /\ sink.pc = "idle"
    /\ events' = Append(events, [asset |-> a, at |-> p, time |-> time])
    /\ UNCHANGED <<zones, sink, tracker, cache, loaded, elapsed, cooling, alerts, now, past>>

EditZone(z, text, enabled) ==
    /\ Missing("edits", MaxEdits) /\ sink.pc # "batch"
    /\ zones[z] # [text |-> text, enabled |-> enabled]
    /\ zones' = [zones EXCEPT ![z] = [text |-> text, enabled |-> enabled]]
    /\ past' = [Missed("edits") EXCEPT !.quiet = 0]
    /\ UNCHANGED <<events, sink, tracker, cache, loaded, elapsed, cooling, alerts, now>>

\* Handling a batch takes no time; waiting does.
AlertTick ==
    /\ now < MaxTime /\ sink.pc # "batch"
    /\ now' = now + 1
    /\ elapsed' = Min({elapsed + 1, ReloadEvery + 1})
    /\ cooling' = [a \in Fleet |-> [z \in Zones |-> Max({0, cooling[a][z] - 1})]]
    /\ past' = [past EXCEPT !.quiet = Min({@ + 1, ReloadEvery + 1})]
    /\ UNCHANGED <<zones, events, sink, tracker, cache, loaded, alerts>>

-----------------------------------------------------------------------------
\* seed_zones has run, and the zones may have been edited since.
AlertsInit ==
    /\ zones \in [Zones -> [text : Texts, enabled : BOOLEAN]]
    /\ events = <<>> /\ sink = [pc |-> "idle", next |-> 1, commit |-> 1]
    /\ tracker = [a \in Fleet |-> NoFix] /\ cache = [z \in Zones |-> NoZone]
    /\ loaded = FALSE /\ elapsed = 0 /\ cooling = [a \in Fleet |-> [z \in Zones |-> 0]]
    /\ alerts = {} /\ now = 0
    /\ past = [edits |-> 0, deaths |-> 0, misses |-> 0, quiet |-> ReloadEvery + 1,
               unread |-> FALSE]

AlertsNext ==
    \/ \E fails \in BOOLEAN : PollRecords(fails) \/ FirstLoad(fails)
    \/ \E lost \in SUBSET Zones : Handle(lost)
    \/ AwaitRows \/ CommitBatch \/ RowsFail \/ Dies \/ AlertTick
    \/ \E a \in Fleet, p \in Points : \E time \in {now, Max({0, now - 1})} : Fly(a, p, time)
    \/ \E z \in Zones : \/ EditZone(z, zones[z].text, ~zones[z].enabled)
                        \/ \E text \in Texts : EditZone(z, text, zones[z].enabled)

AlertsSpec == AlertsInit /\ [][AlertsNext]_alertVars

-----------------------------------------------------------------------------
(* Properties *)

AlertsTypeOK ==
    /\ zones \in [Zones -> [text : Texts, enabled : BOOLEAN]]
    /\ events \in Seq([asset : Fleet, at : Points, time : 0..MaxTime])
    /\ sink.pc \in {"idle", "batch", "acks"}
    /\ 1 <= sink.commit /\ sink.commit <= sink.next /\ sink.next <= Len(events) + 1
    /\ \A a \in Fleet : tracker[a] # NoFix => tracker[a].at \in Points /\ tracker[a].took > 0
    /\ cache \in [Zones -> Held] /\ loaded \in BOOLEAN
    /\ elapsed \in 0..(ReloadEvery + 1) /\ now \in 0..MaxTime
    /\ cooling \in [Fleet -> [Zones -> 0..Cooldown]]
    /\ alerts \subseteq [event : 1..Len(events), zone : Zones, at : 0..MaxTime,
                         life : 0..MaxDeaths, severity : {"critical", "high", "warning"}]

\* "One alert per asset per zone per this many seconds": also when the zones are
\* reloaded and batches fail, as long as the process lives.
OneAlertPerCooldown ==
    \A x, y \in alerts :
        /\ x # y /\ x.life = y.life /\ x.zone = y.zone
        /\ events[x.event].asset = events[y.event].asset
        => x.at + Cooldown <= y.at \/ y.at + Cooldown <= x.at

\* An edited zone is the one alerts are raised against from the first batch after
\* the reload interval, unless the zones could not be read.
EditsTakeEffect ==
    sink.pc = "batch" /\ loaded /\ ~past.unread /\ past.quiet > ReloadEvery
        => cache = Loadable

\* "Above this, a derived speed is a position glitch": whatever jumps, repeats and
\* late events an asset sends, the speed on record is one it may have flown.
SpeedsArePlausible ==
    \A a \in Fleet :
        tracker[a].moved <= MaxSpeed * MaxSpeed * tracker[a].took * tracker[a].took

\* What the tracker and the cached zones keep at every moment.
TrackerSound == AlertsTypeOK /\ SpeedsArePlausible /\ EditsTakeEffect

\* Whether every point is filed right.
FiledRight(held) ==
    \A p \in Grid :
        LET z == NearestZone(p, held) IN z # <<>> =>
            LET distance == Distances[held[z[1]]][p] IN
            \A y \in Zones : held[y] # NoZone =>
                \/ ~Less(Distances[held[y]][p], distance)
                \/ Inside(p, held[y]) /\ ~Less(Square(InsideAs), distance)

\* What depends on constants only is tabulated as a set of pairs, which TLC works
\* out once.
Filed == {<<held, FiledRight(held)>> : held \in [Zones -> Held]}

\* "nearest_zone_id": an event is filed under the zone it is nearest to, except that
\* inside a zone the risk is 0.95 and just outside another it is more.
NearestUnlessInside == <<cache, TRUE>> \in Filed

OnBoundary(p, ring) == \E e \in Edges(ring) : EdgeDistanceSq(p, e)[1] = 0

Swapped(p)    == <<p[2], p[1]>>
Turned(ring)  == [i \in 1..Len(ring) |-> Swapped(ring[Len(ring) - i + 1])]

\* The polygons of the zones table.
Drawn == {zones[z].text : z \in Zones} \cap Shapes

IsSound(ring) ==
    \A p \in Grid : ~OnBoundary(p, ring) =>
        /\ PointInPolygon(p, ring) = PointInPolygon(Swapped(p), Turned(ring))
        /\ PointInPolygon(p, ring) = PointInPolygon(p, Tail(ring) \o <<Head(ring)>>)

Sound == {<<shape, IsSound(Ring[shape])>> : shape \in Shapes}

\* Containment does not depend on the ray, nor on where the ring begins and which
\* way it runs; only a point on the boundary may go either way.
ContainmentIsSound == \A shape \in Drawn : <<shape, TRUE>> \in Sound

\* zones.what_if_zone: inside, nearby, or not affected.
WhatIf(p, shape) ==
    IF PointInPolygon(p, Ring[shape]) THEN "inside"
    ELSE IF Less(Distances[shape][p], Square(Warning)) THEN "nearby" ELSE "unaffected"

Agrees(shape) ==
    \A p \in Grid :
        /\ IsNear(p, shape) <=> WhatIf(p, shape) # "unaffected"
        /\ ~OnBoundary(p, Ring[shape])
            => (Severity(p, shape) = "critical" <=> WhatIf(p, shape) = "inside")

Agreed == {<<shape, Agrees(shape)>> : shape \in Shapes}

\* "So its answer matches the live alerting": the assets a what-if calls affected
\* are the ones the sink would flag as near, and the ones it calls inside are its
\* breaches; on the boundary itself the sink calls a breach what is only nearby.
WhatIfMatchesAlerts == \A shape \in Drawn : <<shape, TRUE>> \in Agreed

\* The geometry two programs share, and the zone an event is filed under.
GeometryAgrees == NearestUnlessInside /\ ContainmentIsSound /\ WhatIfMatchesAlerts

=============================================================================
