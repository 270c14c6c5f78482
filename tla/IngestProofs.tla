---------------------------- MODULE IngestProofs ----------------------------
(***************************************************************************)
(* TLAPS proofs about the two ends of the topic: ZoneAlerts, the tracker   *)
(* and the alerts of the sink, for any zones, places and clock; and        *)
(* DemoSettings, the controls and the pace of the producer, for any fleet, *)
(* rate and number of turns.                                               *)
(***************************************************************************)
EXTENDS ZoneAlerts, DemoSettings, FiniteSetTheorems, WellFoundedInduction, TLAPS

-----------------------------------------------------------------------------
(* ZoneAlerts: the invariants *)

Event   == [asset : Fleet, at : Points, time : 0..MaxTime]
Tracked == [at : Points, time : 0..MaxTime, moved : Int, took : Nat \ {0}]
AlertIn(n) == [event : 1..n, zone : Zones, at : 0..MaxTime, life : 0..MaxDeaths,
               severity : {"critical", "high", "warning"}]

AlertTypes ==
    /\ zones \in [Zones -> [text : Texts, enabled : BOOLEAN]]
    /\ events \in Seq(Event)
    /\ sink \in [pc : {"idle", "batch", "acks"}, next : Nat, commit : Nat]
    /\ 1 <= sink.commit /\ sink.commit <= sink.next /\ sink.next <= Len(events) + 1
    /\ tracker \in [Fleet -> Tracked \cup {NoFix}]
    /\ cache \in [Zones -> Held] /\ loaded \in BOOLEAN
    /\ elapsed \in 0..(ReloadEvery + 1) /\ now \in 0..MaxTime
    /\ cooling \in [Fleet -> [Zones -> 0..Cooldown]]
    /\ alerts \subseteq AlertIn(Len(events))
    /\ past \in [edits : Nat, deaths : 0..MaxDeaths, misses : Nat,
                 quiet : 0..(ReloadEvery + 1), unread : BOOLEAN]

\* A cache that was read and is not the table's is behind by an edit made since the
\* read; and the zones of a batch were looked after within the interval.
CacheIsBehind ==
    /\ loaded /\ ~past.unread /\ cache # Loadable => past.quiet <= elapsed
    /\ sink.pc = "batch" => elapsed <= ReloadEvery

\* What is left of a cooldown covers every alert of this life of the process.
CoolingCovers ==
    \A x \in alerts :
        /\ x.at <= now /\ x.life <= past.deaths
        /\ x.life = past.deaths =>
            x.at + Cooldown <= now + cooling[events[x.event].asset][x.zone]

\* The inductive invariant.
AlertsInv ==
    /\ AlertTypes
    /\ CacheIsBehind
    /\ SpeedsArePlausible
    /\ CoolingCovers
    /\ OneAlertPerCooldown

-----------------------------------------------------------------------------
(* Small facts *)

\* The least and the greatest of two numbers.
LEMMA PairMinMax ==
  ASSUME NEW a \in Int, NEW b \in Int
  PROVE  /\ Min({a, b}) = IF a <= b THEN a ELSE b
         /\ Max({a, b}) = IF a <= b THEN b ELSE a
<1>1. Min({a, b}) = IF a <= b THEN a ELSE b
  <2>1. \E x \in {a, b} : \A y \in {a, b} : x <= y
    OBVIOUS
  <2>2. Min({a, b}) \in {a, b} /\ \A y \in {a, b} : Min({a, b}) <= y
    BY <2>1 DEF Min
  <2>3. QED
    BY <2>2
<1>2. Max({a, b}) = IF a <= b THEN b ELSE a
  <2>1. \E x \in {a, b} : \A y \in {a, b} : x >= y
    OBVIOUS
  <2>2. Max({a, b}) \in {a, b} /\ \A y \in {a, b} : Max({a, b}) >= y
    BY <2>1 DEF Max
  <2>3. QED
    BY <2>2
<1>3. QED
  BY <1>1, <1>2

\* The bounds are natural numbers.
LEMMA AlertBounds ==
  /\ Cooldown \in Nat /\ ReloadEvery \in Nat /\ MaxSpeed \in Nat /\ MaxTime \in Nat
  /\ MaxDeaths \in Nat /\ MaxMisses \in Nat /\ MaxEdits \in Nat /\ MaxEvents \in Nat
  BY AlertsAssumption

\* What the table holds can be loaded.
LEMMA LoadableType == Loadable \in [Zones -> Held]
  BY DEF Loadable, Held

\* A squared distance is a number.
LEMMA ApartType ==
  ASSUME NEW p \in Points, NEW q \in Points
  PROVE  ApartSq(p, q) \in Int
<1>1. p[1] \in Int /\ p[2] \in Int /\ q[1] \in Int /\ q[2] \in Int
  BY AlertsAssumption
<1>2. QED
  BY <1>1 DEF ApartSq, Dot

\* No product of natural numbers is negative.
LEMMA SquaresOrder ==
  ASSUME NEW v \in Nat, NEW t \in Nat
  PROVE  v * v * t * t \in Nat /\ v * v * 1 * 1 \in Nat
  OBVIOUS

\* The tracker's new state is a state, with a speed that could be flown.
LEMMA FixIsPlausible ==
  ASSUME NEW prev \in Tracked \cup {NoFix}, NEW e \in Event,
         prev.moved <= MaxSpeed * MaxSpeed * prev.took * prev.took
  PROVE  /\ Fix(prev, e) \in Tracked
         /\ Fix(prev, e).moved <= MaxSpeed * MaxSpeed * Fix(prev, e).took * Fix(prev, e).took
<1>0. MaxSpeed \in Nat /\ MaxTime \in Nat /\ e.at \in Points /\ e.time \in 0..MaxTime
  BY AlertBounds DEF Event
<1>1. CASE prev = NoFix
  <2>1. Fix(prev, e) = [at |-> e.at, time |-> e.time, moved |-> 0, took |-> 1]
    BY <1>1 DEF Fix
  <2>2. 0 <= MaxSpeed * MaxSpeed * 1 * 1
    BY <1>0, SquaresOrder
  <2>3. QED
    BY <1>0, <2>1, <2>2 DEF Tracked
<1>2. CASE prev # NoFix
  <2>0. /\ prev \in Tracked /\ prev.at \in Points /\ prev.time \in 0..MaxTime
        /\ prev.moved \in Int /\ prev.took \in Nat \ {0}
    BY <1>2 DEF Tracked
  <2> DEFINE dt == IF e.time > prev.time THEN e.time - prev.time ELSE 0
             d  == ApartSq(prev.at, e.at)
  <2>1. dt \in Nat /\ d \in Int
    BY <1>0, <2>0, ApartType
  <2>2. Fix(prev, e) =
          IF d > MaxSpeed * MaxSpeed * dt * dt
          THEN [at |-> e.at, time |-> e.time, moved |-> prev.moved, took |-> prev.took]
          ELSE [at |-> e.at, time |-> e.time, moved |-> d, took |-> IF dt = 0 THEN 1 ELSE dt]
    BY <1>2 DEF Fix
  <2> HIDE DEF dt, d
  <2>3. CASE d > MaxSpeed * MaxSpeed * dt * dt
    BY <1>0, <2>0, <2>2, <2>3 DEF Tracked
  <2>4. CASE ~(d > MaxSpeed * MaxSpeed * dt * dt) /\ dt # 0
    <3>1. Fix(prev, e) = [at |-> e.at, time |-> e.time, moved |-> d, took |-> dt]
      BY <2>2, <2>4
    <3>2. MaxSpeed * MaxSpeed * dt * dt \in Nat
      BY <1>0, <2>1, SquaresOrder
    <3>3. d <= MaxSpeed * MaxSpeed * dt * dt
      BY <2>1, <2>4, <3>2
    <3>4. QED
      BY <1>0, <2>1, <2>4, <3>1, <3>3 DEF Tracked
  <2>5. CASE ~(d > MaxSpeed * MaxSpeed * dt * dt) /\ dt = 0
    <3>1. Fix(prev, e) = [at |-> e.at, time |-> e.time, moved |-> d, took |-> 1]
      BY <2>2, <2>5
    <3>2. MaxSpeed * MaxSpeed * dt * dt = 0 /\ MaxSpeed * MaxSpeed * 1 * 1 \in Nat
      BY <1>0, <2>5, SquaresOrder
    <3>3. d <= MaxSpeed * MaxSpeed * 1 * 1
      BY <2>1, <2>5, <3>2
    <3>4. QED
      BY <1>0, <2>1, <3>1, <3>3 DEF Tracked
  <2>6. QED
    BY <2>3, <2>4, <2>5
<1>3. QED
  BY <1>1, <1>2

-----------------------------------------------------------------------------
(* ZoneAlerts: the steps *)

\* Steps of the loop that move the sink alone, or count a miss.
LEMMA LoopKeepsAlerts ==
  ASSUME AlertsInv, AwaitRows \/ CommitBatch \/ RowsFail \/ UNCHANGED alertVars
  PROVE  AlertsInv'
<1> USE DEF AlertsInv
<1>a. UNCHANGED <<zones, events, tracker, cache, loaded, elapsed, cooling, alerts, now>>
  BY DEF AwaitRows, CommitBatch, RowsFail, alertVars
<1>b. /\ sink \in [pc : {"idle", "batch", "acks"}, next : Nat, commit : Nat]
      /\ past \in [edits : Nat, deaths : 0..MaxDeaths, misses : Nat,
                   quiet : 0..(ReloadEvery + 1), unread : BOOLEAN]
  BY DEF AlertTypes
<1>c. /\ sink' \in [pc : {"idle", "batch", "acks"}, next : Nat, commit : Nat]
      /\ sink'.pc = "batch" => sink.pc = "batch"
      /\ sink'.next = sink.next /\ sink'.commit \in {sink.commit, sink.next}
  BY <1>b DEF AwaitRows, CommitBatch, RowsFail, alertVars
<1>d. /\ past' \in [edits : Nat, deaths : 0..MaxDeaths, misses : Nat,
                    quiet : 0..(ReloadEvery + 1), unread : BOOLEAN]
      /\ past'.deaths = past.deaths /\ past'.quiet = past.quiet /\ past'.unread = past.unread
  BY <1>b DEF AwaitRows, CommitBatch, RowsFail, alertVars, Missed
<1>1. AlertTypes'
  <2>1. 1 <= sink'.commit /\ sink'.commit <= sink'.next /\ sink'.next <= Len(events) + 1
    BY <1>b, <1>c DEF AlertTypes
  <2>2. QED
    BY <1>a, <1>c, <1>d, <2>1 DEF AlertTypes
<1>2. Loadable' = Loadable
  BY <1>a DEF Loadable
<1>3. CacheIsBehind'
  BY <1>a, <1>c, <1>d, <1>2 DEF CacheIsBehind
<1>4. SpeedsArePlausible' /\ CoolingCovers' /\ OneAlertPerCooldown'
  BY <1>a, <1>d DEF SpeedsArePlausible, CoolingCovers, OneAlertPerCooldown
<1>5. QED
  BY <1>1, <1>3, <1>4

\* The zones are read, or a read fails and is remembered.
LEMMA LoadKeepsAlerts ==
  ASSUME AlertsInv, NEW fails \in BOOLEAN, PollRecords(fails) \/ FirstLoad(fails)
  PROVE  AlertsInv'
<1> USE DEF AlertsInv
<1>a. UNCHANGED <<zones, events, tracker, cooling, alerts, now>>
  BY DEF PollRecords, FirstLoad
<1>b. /\ sink \in [pc : {"idle", "batch", "acks"}, next : Nat, commit : Nat]
      /\ past \in [edits : Nat, deaths : 0..MaxDeaths, misses : Nat,
                   quiet : 0..(ReloadEvery + 1), unread : BOOLEAN]
      /\ cache \in [Zones -> Held] /\ loaded \in BOOLEAN
      /\ elapsed \in 0..(ReloadEvery + 1) /\ ReloadEvery \in Nat
  BY AlertBounds DEF AlertTypes
<1>c. /\ sink' \in [pc : {"idle", "batch", "acks"}, next : Nat, commit : Nat]
      /\ sink'.next = sink.next /\ sink'.commit = sink.commit
  BY <1>b DEF PollRecords, FirstLoad
<1>d. ASSUME LoadZones(fails)
      PROVE  /\ past' \in [edits : Nat, deaths : 0..MaxDeaths, misses : Nat,
                           quiet : 0..(ReloadEvery + 1), unread : BOOLEAN]
             /\ past'.deaths = past.deaths /\ past'.quiet = past.quiet
             /\ past'.unread = fails /\ loaded' = TRUE
             /\ ~fails => cache' = Loadable
             /\ cache' \in [Zones -> Held]
  <2>1. past' \in [edits : Nat, deaths : 0..MaxDeaths, misses : Nat,
                   quiet : 0..(ReloadEvery + 1), unread : BOOLEAN]
    <3>1. CASE fails
      <4>1. past' = [past EXCEPT !.unread = TRUE, !.misses = past.misses + 1]
        BY <1>b, <1>d, <3>1 DEF LoadZones
      <4>2. past.misses + 1 \in Nat
        BY <1>b
      <4>3. QED
        BY <1>b, <4>1, <4>2
    <3>2. CASE ~fails
      <4>1. past' = [past EXCEPT !.unread = FALSE, !.misses = past.misses]
        BY <1>b, <1>d, <3>2 DEF LoadZones
      <4>2. QED
        BY <1>b, <4>1
    <3>3. QED
      BY <3>1, <3>2
  <2>2. past'.deaths = past.deaths /\ past'.quiet = past.quiet /\ past'.unread = fails
    BY <1>b, <1>d DEF LoadZones
  <2>3. cache' \in [Zones -> Held] /\ loaded' = TRUE /\ (~fails => cache' = Loadable)
    BY <1>b, <1>d, LoadableType DEF LoadZones
  <2>4. QED
    BY <2>1, <2>2, <2>3
<1>e. Loadable' = Loadable
  BY <1>a DEF Loadable
<1>1. CASE LoadZones(fails) /\ elapsed' \in 0..ReloadEvery
  <2>1. AlertTypes'
    BY <1>a, <1>b, <1>c, <1>d, <1>1 DEF AlertTypes
  <2>2. CacheIsBehind'
    BY <1>b, <1>d, <1>e, <1>1 DEF CacheIsBehind
  <2>3. SpeedsArePlausible' /\ CoolingCovers' /\ OneAlertPerCooldown'
    BY <1>a, <1>d, <1>1 DEF SpeedsArePlausible, CoolingCovers, OneAlertPerCooldown
  <2>4. QED
    BY <2>1, <2>2, <2>3
<1>2. CASE UNCHANGED <<loaded, cache, past, elapsed>> /\ elapsed <= ReloadEvery
  <2>1. AlertTypes'
    BY <1>a, <1>c, <1>2 DEF AlertTypes
  <2>2. CacheIsBehind'
    BY <1>e, <1>2 DEF CacheIsBehind
  <2>3. SpeedsArePlausible' /\ CoolingCovers' /\ OneAlertPerCooldown'
    BY <1>a, <1>2 DEF SpeedsArePlausible, CoolingCovers, OneAlertPerCooldown
  <2>4. QED
    BY <2>1, <2>2, <2>3
<1>3. QED
  <2>1. CASE PollRecords(fails)
    BY <1>b, <1>1, <1>2, <2>1 DEF PollRecords
  <2>2. CASE FirstLoad(fails)
    <3>1. elapsed' = elapsed /\ LoadZones(fails) /\ sink.pc = "batch"
      BY <2>2 DEF FirstLoad
    <3>2. elapsed' \in 0..ReloadEvery
      BY <1>b, <3>1 DEF CacheIsBehind
    <3>3. QED
      BY <1>1, <3>1, <3>2
  <2>3. QED
    BY <2>1, <2>2

\* One record: an alert is written only where nothing is cooling, and starts a
\* cooldown of its own.
LEMMA HandleKeepsAlerts ==
  ASSUME AlertsInv, NEW lost \in SUBSET Zones, Handle(lost)
  PROVE  AlertsInv'
<1> USE DEF AlertsInv
<1> DEFINE e     == events[sink.next]
           due   == {z \in Zones : Alerts(e.at, cache[z])}
           write == {z \in due : cooling[e.asset][z] = 0}
           new   == {[event |-> sink.next, zone |-> z, at |-> now, life |-> past.deaths,
                      severity |-> Severity(e.at, cache[z])] : z \in write \ lost}
<1>a. /\ sink.pc = "batch" /\ sink.next <= Len(events)
      /\ tracker' = [tracker EXCEPT ![e.asset] = Fix(@, e)]
      /\ cooling' = [cooling EXCEPT ![e.asset] =
                        [z \in Zones |-> IF z \in write THEN Cooldown ELSE cooling[e.asset][z]]]
      /\ alerts' = alerts \cup new
      /\ sink' = [sink EXCEPT !.next = @ + 1]
      /\ past' = IF lost = {} THEN past ELSE Missed("misses")
      /\ UNCHANGED <<zones, events, cache, loaded, elapsed, now>>
  BY DEF Handle, AlertTypes
<1>b. /\ sink \in [pc : {"idle", "batch", "acks"}, next : Nat, commit : Nat]
      /\ past \in [edits : Nat, deaths : 0..MaxDeaths, misses : Nat,
                   quiet : 0..(ReloadEvery + 1), unread : BOOLEAN]
      /\ 1 <= sink.commit /\ sink.commit <= sink.next
      /\ events \in Seq(Event) /\ now \in 0..MaxTime /\ Cooldown \in Nat /\ MaxTime \in Nat
      /\ tracker \in [Fleet -> Tracked \cup {NoFix}]
      /\ cooling \in [Fleet -> [Zones -> 0..Cooldown]]
      /\ alerts \subseteq AlertIn(Len(events))
  BY AlertBounds DEF AlertTypes
<1>c. sink.next \in 1..Len(events) /\ e \in Event /\ e.asset \in Fleet
  <2>1. sink.next \in 1..Len(events)
    BY <1>a, <1>b
  <2>2. e \in Event
    BY <1>b, <2>1
  <2>3. QED
    BY <2>1, <2>2 DEF Event
<1>d. write \subseteq Zones /\ \A z \in write : cooling[e.asset][z] = 0
  OBVIOUS
<1>e. \A x \in new : /\ x.event = sink.next /\ x.zone \in write /\ x.at = now
                     /\ x.life = past.deaths
                     /\ x = [event |-> sink.next, zone |-> x.zone, at |-> now,
                             life |-> past.deaths, severity |-> Severity(e.at, cache[x.zone])]
  OBVIOUS
<1>f. new \subseteq AlertIn(Len(events))
  <2> SUFFICES ASSUME NEW z \in write
               PROVE  [event |-> sink.next, zone |-> z, at |-> now, life |-> past.deaths,
                       severity |-> Severity(e.at, cache[z])] \in AlertIn(Len(events))
    OBVIOUS
  <2>1. Severity(e.at, cache[z]) \in {"critical", "high", "warning"}
    BY DEF Severity
  <2>2. QED
    BY <1>b, <1>c, <2>1 DEF AlertIn
<1> HIDE DEF e, due, write, new
<1>g. /\ past' \in [edits : Nat, deaths : 0..MaxDeaths, misses : Nat,
                    quiet : 0..(ReloadEvery + 1), unread : BOOLEAN]
      /\ past'.deaths = past.deaths /\ past'.quiet = past.quiet /\ past'.unread = past.unread
  <2>1. CASE lost = {}
    BY <1>a, <1>b, <2>1
  <2>2. CASE lost # {}
    <3>1. past' = [past EXCEPT !["misses"] = @ + 1]
      BY <1>a, <2>2 DEF Missed
    <3>2. QED
      BY <1>b, <3>1
  <2>3. QED
    BY <2>1, <2>2
<1>h. \A a \in Fleet, z \in Zones :
        /\ cooling[a][z] \in 0..Cooldown
        /\ cooling'[a][z] = IF a = e.asset /\ z \in write THEN Cooldown ELSE cooling[a][z]
  BY <1>a, <1>b, <1>c
<1>1. AlertTypes'
  <2>1. /\ sink' \in [pc : {"idle", "batch", "acks"}, next : Nat, commit : Nat]
        /\ 1 <= sink'.commit /\ sink'.commit <= sink'.next /\ sink'.next <= Len(events) + 1
    <3>1. /\ sink' \in [pc : {"idle", "batch", "acks"}, next : Nat, commit : Nat]
          /\ sink'.next = sink.next + 1 /\ sink'.commit = sink.commit
      BY <1>a, <1>b
    <3>2. Len(events) \in Nat /\ sink.next \in Nat /\ sink.commit \in Nat
      BY <1>b
    <3>3. QED
      BY <1>a, <1>b, <3>1, <3>2
  <2>2. tracker[e.asset] \in Tracked \cup {NoFix}
    BY <1>b, <1>c
  <2>3. Fix(tracker[e.asset], e) \in Tracked
    BY <1>c, <2>2, FixIsPlausible DEF SpeedsArePlausible
  <2>4. tracker' \in [Fleet -> Tracked \cup {NoFix}]
    BY <1>a, <1>b, <1>c, <2>3
  <2>5. cooling' \in [Fleet -> [Zones -> 0..Cooldown]]
    <3>1. [z \in Zones |-> IF z \in write THEN Cooldown ELSE cooling[e.asset][z]]
            \in [Zones -> 0..Cooldown]
      BY <1>b, <1>c
    <3>2. QED
      BY <1>a, <1>b, <3>1
  <2>6. QED
    BY <1>a, <1>b, <1>f, <1>g, <2>1, <2>4, <2>5 DEF AlertTypes
<1>2. CacheIsBehind'
  <2>1. Loadable' = Loadable /\ sink'.pc = sink.pc
    BY <1>a, <1>b DEF Loadable
  <2>2. QED
    BY <1>a, <1>g, <2>1 DEF CacheIsBehind
<1>3. SpeedsArePlausible'
  <2> SUFFICES ASSUME NEW a \in Fleet
               PROVE  tracker'[a].moved <= MaxSpeed * MaxSpeed * tracker'[a].took * tracker'[a].took
    BY DEF SpeedsArePlausible
  <2>1. CASE a = e.asset
    <3>1. tracker'[a] = Fix(tracker[a], e)
      BY <1>a, <1>b, <2>1
    <3>2. tracker[a] \in Tracked \cup {NoFix}
      BY <1>b
    <3>3. tracker[a].moved <= MaxSpeed * MaxSpeed * tracker[a].took * tracker[a].took
      BY DEF SpeedsArePlausible
    <3>4. QED
      BY <1>c, <3>1, <3>2, <3>3, FixIsPlausible
  <2>2. CASE a # e.asset
    <3>1. tracker'[a] = tracker[a]
      BY <1>a, <1>b, <2>2
    <3>2. QED
      BY <3>1 DEF SpeedsArePlausible
  <2>3. QED
    BY <2>1, <2>2
<1>i. ASSUME NEW x \in alerts
      PROVE  /\ x.event \in 1..Len(events) /\ events[x.event].asset \in Fleet /\ x.zone \in Zones
             /\ x.at \in Nat /\ x.at <= now /\ x.life \in Nat /\ x.life <= past.deaths
             /\ x.life = past.deaths =>
                  x.at + Cooldown <= now + cooling[events[x.event].asset][x.zone]
  <2>1. x \in AlertIn(Len(events))
    BY <1>b
  <2>2. x.event \in 1..Len(events) /\ x.zone \in Zones /\ x.at \in Nat /\ x.life \in Nat
    BY <1>b, <2>1 DEF AlertIn
  <2>3. events[x.event] \in Event
    BY <1>b, <2>2
  <2>4. QED
    BY <2>2, <2>3 DEF Event, CoolingCovers
<1>4. CoolingCovers'
  <2> SUFFICES ASSUME NEW x \in alerts'
               PROVE  /\ x.at <= now /\ x.life <= past.deaths
                      /\ x.life = past.deaths =>
                           x.at + Cooldown <= now + cooling'[events[x.event].asset][x.zone]
    BY <1>a, <1>g DEF CoolingCovers
  <2>1. CASE x \in alerts
    <3> DEFINE c == cooling[events[x.event].asset][x.zone]
               d == cooling'[events[x.event].asset][x.zone]
    <3>1. c \in Nat /\ d \in Nat /\ c <= d
      <4>1. events[x.event].asset \in Fleet /\ x.zone \in Zones
        BY <1>i, <2>1
      <4>2. /\ c \in 0..Cooldown
            /\ d = IF events[x.event].asset = e.asset /\ x.zone \in write THEN Cooldown ELSE c
        BY <1>h, <4>1
      <4> HIDE DEF c, d
      <4>3. QED
        BY <1>b, <4>2
    <3> HIDE DEF c, d
    <3>2. x.life = past.deaths => x.at + Cooldown <= now + c
      BY <1>i, <2>1 DEF c
    <3>3. x.life = past.deaths => x.at + Cooldown <= now + d
      BY <1>b, <1>i, <2>1, <3>1, <3>2
    <3>4. QED
      BY <1>i, <2>1, <3>3 DEF d
  <2>2. CASE x \in new
    <3>1. x.event = sink.next /\ x.zone \in write /\ x.at = now /\ x.life = past.deaths
      BY <1>e, <2>2
    <3>2. events[x.event].asset = e.asset /\ x.zone \in Zones
      BY <1>d, <3>1 DEF e
    <3>3. cooling'[events[x.event].asset][x.zone] = Cooldown
      BY <1>c, <1>h, <3>1, <3>2
    <3>4. past.deaths \in Nat
      BY <1>b
    <3>5. QED
      BY <1>b, <3>1, <3>3, <3>4
  <2>3. QED
    BY <1>a, <2>1, <2>2
<1>5. OneAlertPerCooldown'
  <2> SUFFICES ASSUME NEW x \in alerts', NEW y \in alerts', x # y, x.life = y.life,
                      x.zone = y.zone, events[x.event].asset = events[y.event].asset
               PROVE  x.at + Cooldown <= y.at \/ y.at + Cooldown <= x.at
    BY <1>a DEF OneAlertPerCooldown
  <2>1. CASE x \in alerts /\ y \in alerts
    BY <2>1 DEF OneAlertPerCooldown
  <2>2. ASSUME NEW u \in alerts, NEW v \in new, u.life = v.life, u.zone = v.zone,
               events[u.event].asset = events[v.event].asset
        PROVE  u.at + Cooldown <= v.at
    <3>1. v.event = sink.next /\ v.zone \in write /\ v.at = now /\ v.life = past.deaths
      BY <1>e
    <3>2. events[u.event].asset = e.asset
      BY <2>2, <3>1 DEF e
    <3>3. cooling[events[u.event].asset][u.zone] = 0
      BY <1>d, <2>2, <3>1, <3>2
    <3>4. u.at + Cooldown <= now + cooling[events[u.event].asset][u.zone] /\ u.at \in Nat
      BY <1>i, <2>2, <3>1
    <3>5. QED
      BY <1>b, <3>1, <3>3, <3>4
  <2>3. CASE x \in alerts /\ y \in new
    BY <2>2, <2>3
  <2>4. CASE x \in new /\ y \in alerts
    BY <2>2, <2>4
  <2>5. CASE x \in new /\ y \in new
    BY <1>e, <2>5
  <2>6. QED
    BY <1>a, <2>1, <2>3, <2>4, <2>5
<1>6. QED
  BY <1>1, <1>2, <1>3, <1>4, <1>5

\* A death forgets the cooldowns, and begins another life.
LEMMA DiesKeepsAlerts ==
  ASSUME AlertsInv, Dies
  PROVE  AlertsInv'
<1> USE DEF AlertsInv
<1>a. /\ past.deaths < MaxDeaths
      /\ sink' = [sink EXCEPT !.pc = "idle", !.next = sink.commit]
      /\ tracker' = [a \in Fleet |-> NoFix] /\ cache' = [z \in Zones |-> NoZone]
      /\ loaded' = FALSE /\ elapsed' = 0 /\ cooling' = [a \in Fleet |-> [z \in Zones |-> 0]]
      /\ past' = [past EXCEPT !.deaths = @ + 1, !.unread = FALSE]
      /\ UNCHANGED <<zones, events, alerts, now>>
  <2>1. past \in [edits : Nat, deaths : 0..MaxDeaths, misses : Nat,
                  quiet : 0..(ReloadEvery + 1), unread : BOOLEAN]
    BY DEF AlertTypes
  <2>2. past' = [past EXCEPT !.deaths = @ + 1, !.unread = FALSE] /\ past.deaths < MaxDeaths
    BY <2>1 DEF Dies, Missing, Missed
  <2>3. QED
    BY <2>2 DEF Dies
<1>b. /\ sink \in [pc : {"idle", "batch", "acks"}, next : Nat, commit : Nat]
      /\ past \in [edits : Nat, deaths : 0..MaxDeaths, misses : Nat,
                   quiet : 0..(ReloadEvery + 1), unread : BOOLEAN]
      /\ ReloadEvery \in Nat /\ MaxDeaths \in Nat /\ Cooldown \in Nat /\ Len(events) \in Nat
      /\ 1 <= sink.commit /\ sink.commit <= sink.next /\ sink.next <= Len(events) + 1
  BY AlertBounds DEF AlertTypes
<1>c. past.deaths + 1 \in 0..MaxDeaths
  BY <1>a, <1>b
<1>d. /\ past' \in [edits : Nat, deaths : 0..MaxDeaths, misses : Nat,
                    quiet : 0..(ReloadEvery + 1), unread : BOOLEAN]
      /\ past'.deaths = past.deaths + 1
  BY <1>a, <1>b, <1>c
<1>1. AlertTypes'
  <2>1. /\ sink' \in [pc : {"idle", "batch", "acks"}, next : Nat, commit : Nat]
        /\ sink'.next = sink.commit /\ sink'.commit = sink.commit
    BY <1>a, <1>b
  <2>2. 1 <= sink'.commit /\ sink'.commit <= sink'.next /\ sink'.next <= Len(events) + 1
    BY <1>b, <2>1
  <2>3. tracker' \in [Fleet -> Tracked \cup {NoFix}] /\ cache' \in [Zones -> Held]
    BY <1>a DEF Held
  <2>4. cooling' \in [Fleet -> [Zones -> 0..Cooldown]] /\ elapsed' \in 0..(ReloadEvery + 1)
    BY <1>a, <1>b
  <2>5. QED
    BY <1>a, <1>d, <2>1, <2>2, <2>3, <2>4 DEF AlertTypes
<1>2. CacheIsBehind'
  BY <1>a, <1>b DEF CacheIsBehind
<1>3. SpeedsArePlausible'
  <2>1. 0 <= MaxSpeed * MaxSpeed * 1 * 1
    BY AlertBounds, SquaresOrder
  <2>2. QED
    BY <1>a, <2>1 DEF SpeedsArePlausible, NoFix
<1>4. CoolingCovers'
  <2>1. ASSUME NEW x \in alerts
        PROVE  x.at <= now /\ x.life <= past'.deaths /\ x.life # past'.deaths
    <3>1. x \in AlertIn(Len(events)) /\ x.life <= past.deaths /\ x.at <= now
      BY DEF AlertTypes, CoolingCovers
    <3>2. x.life \in Nat /\ past.deaths \in Nat
      BY <1>b, <3>1 DEF AlertIn
    <3>3. QED
      BY <1>d, <3>1, <3>2
  <2>2. QED
    BY <1>a, <2>1 DEF CoolingCovers
<1>5. OneAlertPerCooldown'
  BY <1>a DEF OneAlertPerCooldown
<1>6. QED
  BY <1>1, <1>2, <1>3, <1>4, <1>5

\* A new event is behind every alert's.
LEMMA FlyKeepsAlerts ==
  ASSUME AlertsInv, NEW a \in Fleet, NEW p \in Points,
         NEW time \in {now, Max({0, now - 1})}, Fly(a, p, time)
  PROVE  AlertsInv'
<1> USE DEF AlertsInv
<1>a. /\ events' = Append(events, [asset |-> a, at |-> p, time |-> time])
      /\ UNCHANGED <<zones, sink, tracker, cache, loaded, elapsed, cooling, alerts, now, past>>
  BY DEF Fly
<1>b. /\ events \in Seq(Event) /\ Len(events) \in Nat /\ now \in 0..MaxTime /\ MaxTime \in Nat
      /\ sink.next \in Nat
  BY AlertBounds DEF AlertTypes
<1>c. [asset |-> a, at |-> p, time |-> time] \in Event
  <2>1. time \in 0..MaxTime
    <3>1. 0 \in Int /\ now - 1 \in Int
      BY <1>b
    <3>2. Max({0, now - 1}) = IF 0 <= now - 1 THEN now - 1 ELSE 0
      BY <3>1, PairMinMax
    <3>3. QED
      BY <1>b, <3>2
  <2>2. QED
    BY <2>1 DEF Event
<1>d. /\ events' \in Seq(Event) /\ Len(events') = Len(events) + 1
      /\ \A i \in 1..Len(events) : events'[i] = events[i]
  BY <1>a, <1>b, <1>c
<1>e. \A x \in alerts : x.event \in 1..Len(events) /\ x \in AlertIn(Len(events) + 1)
  <2> SUFFICES ASSUME NEW x \in alerts
               PROVE  x.event \in 1..Len(events) /\ x \in AlertIn(Len(events) + 1)
    OBVIOUS
  <2>1. x \in AlertIn(Len(events))
    BY DEF AlertTypes
  <2>2. QED
    BY <1>b, <2>1 DEF AlertIn
<1>1. AlertTypes'
  <2>1. sink.next <= Len(events) + 1 /\ sink.next <= Len(events) + 1 + 1
    BY <1>b DEF AlertTypes
  <2>2. QED
    BY <1>a, <1>d, <1>e, <2>1 DEF AlertTypes
<1>2. CacheIsBehind' /\ SpeedsArePlausible'
  BY <1>a DEF CacheIsBehind, Loadable, SpeedsArePlausible
<1>3. \A x \in alerts : events'[x.event] = events[x.event]
  BY <1>d, <1>e
<1>4. CoolingCovers'
  BY <1>a, <1>3 DEF CoolingCovers
<1>5. OneAlertPerCooldown'
  <2> SUFFICES ASSUME NEW x \in alerts, NEW y \in alerts, x # y, x.life = y.life,
                      x.zone = y.zone, events'[x.event].asset = events'[y.event].asset
               PROVE  x.at + Cooldown <= y.at \/ y.at + Cooldown <= x.at
    BY <1>a DEF OneAlertPerCooldown
  <2>1. QED
    BY <1>3 DEF OneAlertPerCooldown
<1>6. QED
  BY <1>1, <1>2, <1>4, <1>5

\* An edit is new, so the cache may be behind by it.
LEMMA EditKeepsAlerts ==
  ASSUME AlertsInv, NEW z \in Zones, NEW text \in Texts, NEW enabled \in BOOLEAN,
         EditZone(z, text, enabled)
  PROVE  AlertsInv'
<1> USE DEF AlertsInv
<1>b. /\ past \in [edits : Nat, deaths : 0..MaxDeaths, misses : Nat,
                   quiet : 0..(ReloadEvery + 1), unread : BOOLEAN]
      /\ zones \in [Zones -> [text : Texts, enabled : BOOLEAN]]
      /\ ReloadEvery \in Nat /\ elapsed \in 0..(ReloadEvery + 1)
  BY AlertBounds DEF AlertTypes
<1>a. /\ zones' = [zones EXCEPT ![z] = [text |-> text, enabled |-> enabled]]
      /\ past' = [past EXCEPT !.edits = @ + 1, !.quiet = 0]
      /\ sink.pc # "batch"
      /\ UNCHANGED <<events, sink, tracker, cache, loaded, elapsed, cooling, alerts, now>>
  BY <1>b DEF EditZone, Missed
<1>c. /\ past' \in [edits : Nat, deaths : 0..MaxDeaths, misses : Nat,
                    quiet : 0..(ReloadEvery + 1), unread : BOOLEAN]
      /\ past'.deaths = past.deaths /\ past'.quiet = 0
  <2>1. past.edits + 1 \in Nat /\ 0 \in 0..(ReloadEvery + 1)
    BY <1>b
  <2>2. QED
    BY <1>a, <1>b, <2>1
<1>1. AlertTypes'
  <2>1. zones' \in [Zones -> [text : Texts, enabled : BOOLEAN]]
    BY <1>a, <1>b
  <2>2. QED
    BY <1>a, <1>c, <2>1 DEF AlertTypes
<1>2. CacheIsBehind'
  BY <1>a, <1>b, <1>c DEF CacheIsBehind
<1>3. SpeedsArePlausible' /\ CoolingCovers' /\ OneAlertPerCooldown'
  BY <1>a, <1>c DEF SpeedsArePlausible, CoolingCovers, OneAlertPerCooldown
<1>4. QED
  BY <1>1, <1>2, <1>3

\* Time passes for all the clocks alike.
LEMMA TickKeepsAlerts ==
  ASSUME AlertsInv, AlertTick
  PROVE  AlertsInv'
<1> USE DEF AlertsInv
<1>b. /\ past \in [edits : Nat, deaths : 0..MaxDeaths, misses : Nat,
                   quiet : 0..(ReloadEvery + 1), unread : BOOLEAN]
      /\ ReloadEvery \in Nat /\ elapsed \in 0..(ReloadEvery + 1) /\ MaxTime \in Nat
      /\ now \in 0..MaxTime /\ Cooldown \in Nat
      /\ cooling \in [Fleet -> [Zones -> 0..Cooldown]]
  BY AlertBounds DEF AlertTypes
<1>a. /\ now < MaxTime /\ sink.pc # "batch" /\ now' = now + 1
      /\ UNCHANGED <<zones, events, sink, tracker, cache, loaded, alerts>>
  BY DEF AlertTick
<1>c. elapsed' = IF elapsed + 1 <= ReloadEvery + 1 THEN elapsed + 1 ELSE ReloadEvery + 1
  <2>1. elapsed + 1 \in Int /\ ReloadEvery + 1 \in Int
    BY <1>b
  <2>2. QED
    BY <2>1, PairMinMax DEF AlertTick
<1>d. past' = [past EXCEPT !.quiet = IF @ + 1 <= ReloadEvery + 1 THEN @ + 1 ELSE ReloadEvery + 1]
  <2>1. past.quiet + 1 \in Int /\ ReloadEvery + 1 \in Int
    BY <1>b
  <2>2. Min({past.quiet + 1, ReloadEvery + 1})
          = IF past.quiet + 1 <= ReloadEvery + 1 THEN past.quiet + 1 ELSE ReloadEvery + 1
    BY <2>1, PairMinMax
  <2>3. QED
    BY <1>b, <2>2 DEF AlertTick
<1>e. \A a \in Fleet, z \in Zones :
        /\ cooling[a][z] \in 0..Cooldown
        /\ Max({0, cooling[a][z] - 1}) = IF 0 <= cooling[a][z] - 1 THEN cooling[a][z] - 1 ELSE 0
        /\ cooling'[a][z] = IF 0 <= cooling[a][z] - 1 THEN cooling[a][z] - 1 ELSE 0
  <2> SUFFICES ASSUME NEW a \in Fleet, NEW z \in Zones
               PROVE  /\ cooling[a][z] \in 0..Cooldown
                      /\ Max({0, cooling[a][z] - 1})
                           = IF 0 <= cooling[a][z] - 1 THEN cooling[a][z] - 1 ELSE 0
                      /\ cooling'[a][z] = Max({0, cooling[a][z] - 1})
    OBVIOUS
  <2>1. cooling[a][z] \in 0..Cooldown
    BY <1>b
  <2>2. 0 \in Int /\ cooling[a][z] - 1 \in Int
    BY <1>b, <2>1
  <2>3. QED
    BY <2>1, <2>2, PairMinMax DEF AlertTick
<1>f. /\ past' \in [edits : Nat, deaths : 0..MaxDeaths, misses : Nat,
                    quiet : 0..(ReloadEvery + 1), unread : BOOLEAN]
      /\ past'.deaths = past.deaths /\ past'.unread = past.unread
      /\ past'.quiet = IF past.quiet + 1 <= ReloadEvery + 1 THEN past.quiet + 1 ELSE ReloadEvery + 1
  <2> DEFINE q == IF past.quiet + 1 <= ReloadEvery + 1 THEN past.quiet + 1 ELSE ReloadEvery + 1
  <2>1. q \in 0..(ReloadEvery + 1)
    BY <1>b
  <2>2. past' = [past EXCEPT !.quiet = q]
    BY <1>d
  <2> HIDE DEF q
  <2>3. QED
    BY <1>b, <2>1, <2>2 DEF q
<1>1. AlertTypes'
  <2>1. cooling' \in [Fleet -> [Zones -> 0..Cooldown]]
    <3>1. \A a \in Fleet : cooling'[a] = [z \in Zones |-> Max({0, cooling[a][z] - 1})]
      BY DEF AlertTick
    <3>2. \A a \in Fleet, z \in Zones : Max({0, cooling[a][z] - 1}) \in 0..Cooldown
      BY <1>b, <1>e
    <3>3. QED
      BY <3>2 DEF AlertTick
  <2>2. elapsed' \in 0..(ReloadEvery + 1) /\ now' \in 0..MaxTime
    BY <1>a, <1>b, <1>c
  <2>3. QED
    BY <1>a, <1>f, <2>1, <2>2 DEF AlertTypes
<1>2. CacheIsBehind'
  <2>1. Loadable' = Loadable
    BY <1>a DEF Loadable
  <2>2. past.quiet <= elapsed => past'.quiet <= elapsed'
    BY <1>b, <1>c, <1>f
  <2>3. QED
    BY <1>a, <1>f, <2>1, <2>2 DEF CacheIsBehind
<1>3. SpeedsArePlausible' /\ OneAlertPerCooldown'
  BY <1>a DEF SpeedsArePlausible, OneAlertPerCooldown
<1>4. CoolingCovers'
  <2> SUFFICES ASSUME NEW x \in alerts
               PROVE  /\ x.at <= now + 1 /\ x.life <= past.deaths
                      /\ x.life = past.deaths =>
                           x.at + Cooldown <= now + 1 + cooling'[events[x.event].asset][x.zone]
    BY <1>a, <1>f DEF CoolingCovers
  <2>1. x \in AlertIn(Len(events)) /\ events \in Seq(Event)
    BY DEF AlertTypes
  <2>2. x.event \in 1..Len(events) /\ x.zone \in Zones /\ x.at \in Nat
    BY <1>b, <2>1 DEF AlertIn
  <2>3. events[x.event] \in Event
    BY <2>1, <2>2
  <2>4. events[x.event].asset \in Fleet
    BY <2>3 DEF Event
  <2> DEFINE c == cooling[events[x.event].asset][x.zone]
             d == cooling'[events[x.event].asset][x.zone]
  <2>5. c \in 0..Cooldown /\ d = IF 0 <= c - 1 THEN c - 1 ELSE 0
    BY <1>e, <2>2, <2>4
  <2>6. x.at <= now /\ x.life <= past.deaths /\ (x.life = past.deaths => x.at + Cooldown <= now + c)
    BY DEF CoolingCovers
  <2> HIDE DEF c, d
  <2>7. x.at <= now + 1 /\ (x.life = past.deaths => x.at + Cooldown <= now + 1 + d)
    BY <1>b, <2>2, <2>5, <2>6
  <2>8. QED
    BY <2>6, <2>7 DEF d
<1>5. QED
  BY <1>1, <1>2, <1>3, <1>4

\* The invariant holds initially.
LEMMA InitAlerts == AlertsInit => AlertsInv
<1> SUFFICES ASSUME AlertsInit PROVE AlertsInv
  OBVIOUS
<1>0. ReloadEvery \in Nat /\ MaxTime \in Nat /\ Cooldown \in Nat /\ MaxDeaths \in Nat
  BY AlertBounds
<1>1. AlertTypes
  <2>1. cooling \in [Fleet -> [Zones -> 0..Cooldown]]
    BY <1>0 DEF AlertsInit
  <2>2. past \in [edits : Nat, deaths : 0..MaxDeaths, misses : Nat,
                  quiet : 0..(ReloadEvery + 1), unread : BOOLEAN]
    BY <1>0 DEF AlertsInit
  <2>3. tracker \in [Fleet -> Tracked \cup {NoFix}] /\ cache \in [Zones -> Held]
    BY DEF AlertsInit, Held
  <2>4. /\ sink \in [pc : {"idle", "batch", "acks"}, next : Nat, commit : Nat]
        /\ sink.commit = 1 /\ sink.next = 1 /\ events \in Seq(Event) /\ Len(events) = 0
    BY DEF AlertsInit
  <2>5. elapsed \in 0..(ReloadEvery + 1) /\ now \in 0..MaxTime
    BY <1>0 DEF AlertsInit
  <2>5a. alerts = {}
    BY DEF AlertsInit
  <2>5b. loaded \in BOOLEAN
    BY Zenon DEF AlertsInit
  <2>6. zones \in [Zones -> [text : Texts, enabled : BOOLEAN]]
    BY DEF AlertsInit
  <2>7. QED
    BY <2>1, <2>2, <2>3, <2>4, <2>5, <2>5a, <2>5b, <2>6 DEF AlertTypes
<1>2. SpeedsArePlausible
  <2>1. 0 <= MaxSpeed * MaxSpeed * 1 * 1
    BY AlertBounds, SquaresOrder
  <2>2. QED
    BY <2>1 DEF AlertsInit, SpeedsArePlausible, NoFix
<1>3. CacheIsBehind /\ CoolingCovers /\ OneAlertPerCooldown
  BY DEF AlertsInit, CacheIsBehind, CoolingCovers, OneAlertPerCooldown
<1>4. QED
  BY <1>1, <1>2, <1>3 DEF AlertsInv

\* Every step keeps it.
LEMMA AlertsStep == AlertsInv /\ [AlertsNext]_alertVars => AlertsInv'
<1> SUFFICES ASSUME AlertsInv, [AlertsNext]_alertVars PROVE AlertsInv'
  OBVIOUS
<1>1. CASE \E z \in Zones : \/ EditZone(z, zones[z].text, ~zones[z].enabled)
                            \/ \E text \in Texts : EditZone(z, text, zones[z].enabled)
  <2>1. PICK z \in Zones : \/ EditZone(z, zones[z].text, ~zones[z].enabled)
                           \/ \E text \in Texts : EditZone(z, text, zones[z].enabled)
    BY <1>1
  <2>2. zones[z].text \in Texts /\ zones[z].enabled \in BOOLEAN /\ (~zones[z].enabled) \in BOOLEAN
    BY DEF AlertsInv, AlertTypes
  <2>3. QED
    BY <2>1, <2>2, EditKeepsAlerts
<1>2. CASE \E a \in Fleet, p \in Points : \E time \in {now, Max({0, now - 1})} : Fly(a, p, time)
  BY <1>2, FlyKeepsAlerts
<1>3. CASE AwaitRows \/ CommitBatch \/ RowsFail \/ Dies \/ AlertTick \/ UNCHANGED alertVars
  BY <1>3, LoopKeepsAlerts, DiesKeepsAlerts, TickKeepsAlerts
<1>4. CASE (\E fails \in BOOLEAN : PollRecords(fails) \/ FirstLoad(fails))
           \/ (\E lost \in SUBSET Zones : Handle(lost))
  BY <1>4, LoadKeepsAlerts, HandleKeepsAlerts
<1>5. QED
  BY <1>1, <1>2, <1>3, <1>4 DEF AlertsNext

\* The invariant gives the properties.
LEMMA AlertsSuffice == AlertsInv => TrackerSound /\ OneAlertPerCooldown
<1> SUFFICES ASSUME AlertsInv PROVE TrackerSound
  BY DEF AlertsInv
<1> USE DEF AlertsInv
<1>1. AlertsTypeOK
  <2>1. \A a \in Fleet : tracker[a] # NoFix => tracker[a].at \in Points /\ tracker[a].took > 0
    <3> SUFFICES ASSUME NEW a \in Fleet, tracker[a] # NoFix
                 PROVE  tracker[a].at \in Points /\ tracker[a].took > 0
      OBVIOUS
    <3>1. tracker[a] \in Tracked
      BY DEF AlertTypes
    <3>2. QED
      BY <3>1 DEF Tracked
  <2>2. QED
    BY <2>1 DEF AlertTypes, AlertsTypeOK, Event, AlertIn
<1>2. EditsTakeEffect
  <2>1. past.quiet \in Nat /\ elapsed \in Nat /\ ReloadEvery \in Nat
    BY AlertBounds DEF AlertTypes
  <2>2. QED
    BY <2>1 DEF CacheIsBehind, EditsTakeEffect
<1>3. QED
  BY <1>1, <1>2 DEF TrackerSound

\* Whatever an asset sends, its speed on record is one it may have flown; and an
\* edited zone is the one alerts are raised against from the first batch after the
\* reload interval, unless the zones could not be read.
THEOREM TrackerStaysSound == AlertsSpec => []TrackerSound
  BY InitAlerts, AlertsStep, AlertsSuffice, PTL DEF AlertsSpec

\* One life of the process raises at most one alert per asset, zone and cooldown,
\* through reloads, failed batches and lost writes.
THEOREM CooldownIsKept == AlertsSpec => []OneAlertPerCooldown
  BY InitAlerts, AlertsStep, AlertsSuffice, PTL DEF AlertsSpec

-----------------------------------------------------------------------------
(* DemoSettings: division, and turns of a ring *)

\* What a quotient and a remainder are.
LEMMA DivMod ==
  ASSUME NEW a \in Int, NEW n \in Nat \ {0}
  PROVE  \E q \in Int : \E r \in 0..(n - 1) : q = a \div n /\ r = a % n /\ a = n * q + r
<1>1. a % n \in 0..(n - 1)
  OBVIOUS
<1>2. a \div n \in Int
  OBVIOUS
<1>3. \A q \in Int, r \in Int : q = a \div n /\ r = a % n => a = n * q + r
  OBVIOUS
<1>4. PICK q \in Int : q = a \div n
  BY <1>2
<1>5. PICK r \in 0..(n - 1) : r = a % n
  BY <1>1
<1>6. a = n * q + r
  BY <1>3, <1>4, <1>5
<1>7. QED
  BY <1>4, <1>5, <1>6

\* Zero is the only multiple of n nearer to zero than n.
LEMMA NearMultiple ==
  ASSUME NEW n \in Nat \ {0}, NEW k \in Int, n * k < n, -n < n * k
  PROVE  k = 0
<1>1. ~(k >= 1)
  OBVIOUS
<1>2. ~(k <= -1)
  <2> SUFFICES ASSUME k <= -1 PROVE FALSE
    OBVIOUS
  <2>1. n * (-k) >= n
    OBVIOUS
  <2>2. QED
    BY <2>1
<1>3. QED
  BY <1>1, <1>2

\* A remainder is the only one there is.
LEMMA OneRemainder ==
  ASSUME NEW a \in Int, NEW n \in Nat \ {0}, NEW q \in Int, NEW r \in 0..(n - 1), a = n * q + r
  PROVE  a % n = r
<1>1. PICK p \in Int : \E m \in 0..(n - 1) : p = a \div n /\ m = a % n /\ a = n * p + m
  BY DivMod
<1>2. PICK m \in 0..(n - 1) : m = a % n /\ a = n * p + m
  BY <1>1
<1>3. n * (p - q) = r - m
  BY <1>2
<1>4. p - q = 0
  BY <1>2, <1>3, NearMultiple
<1>5. QED
  BY <1>2, <1>3, <1>4

\* One place further round a ring of n.
LEMMA NextPlace ==
  ASSUME NEW a \in Nat, NEW n \in Nat \ {0}
  PROVE  (a + 1) % n = IF (a % n) + 1 = n THEN 0 ELSE (a % n) + 1
<1>1. PICK p \in Int : \E m \in 0..(n - 1) : p = a \div n /\ m = a % n /\ a = n * p + m
  BY DivMod
<1>2. PICK m \in 0..(n - 1) : m = a % n /\ a = n * p + m
  BY <1>1
<1>3. CASE m + 1 = n
  <2>1. a + 1 = n * (p + 1) + 0 /\ p + 1 \in Int /\ 0 \in 0..(n - 1) /\ a + 1 \in Int
    BY <1>2, <1>3
  <2>2. (a + 1) % n = 0
    BY <2>1, OneRemainder
  <2>3. QED
    BY <1>2, <1>3, <2>2
<1>4. CASE m + 1 # n
  <2>1. a + 1 = n * p + (m + 1) /\ m + 1 \in 0..(n - 1) /\ a + 1 \in Int
    BY <1>2, <1>4
  <2>2. (a + 1) % n = m + 1
    BY <2>1, OneRemainder
  <2>3. QED
    BY <1>2, <1>4, <2>2
<1>5. QED
  BY <1>3, <1>4

\* A set of natural numbers has a least one.
LEMMA LeastNatural ==
  ASSUME NEW S \in SUBSET Nat, S # {}
  PROVE  \E x \in S : \A y \in S : x <= y
<1> DEFINE R == OpToRel(<, Nat)
<1>1. IsWellFoundedOn(R, Nat)
  BY NatLessThanWellFounded
<1>2. PICK x \in S : \A y \in S : ~(<<y, x>> \in R)
  <2> HIDE DEF R
  <2>1. QED
    BY <1>1, WFMin
<1>3. R = {ss \in Nat \X Nat : ss[1] < ss[2]}
  BY DEF OpToRel
<1>4. \A y \in S : ~(y < x)
  <2> HIDE DEF R
  <2>1. QED
    BY <1>2, <1>3
<1>5. QED
  BY <1>4

-----------------------------------------------------------------------------
(* DemoSettings: the cursor.  A batch visits the places of the ring from the *)
(* cursor on, so the assets that are one event ahead are those between where *)
(* the size was adopted and where the cursor has come to.                    *)

\* 1 for the places from s on and before q, going round; 0 for the others.
Ahead(d, s, q) ==
    IF IF s <= q THEN s <= d /\ d < q ELSE s <= d \/ d < q THEN 1 ELSE 0

\* Where nobody is ahead of the others.
LEMMA NobodyAhead ==
  ASSUME NEW n \in Nat \ {0}, NEW s \in 0..(n - 1), NEW d \in 0..(n - 1)
  PROVE  Ahead(d, s, s) = 0
  BY DEF Ahead

\* The asset at the cursor is never ahead.
LEMMA CursorIsBehind ==
  ASSUME NEW n \in Nat \ {0}, NEW s \in 0..(n - 1), NEW q \in 0..(n - 1)
  PROVE  Ahead(q, s, q) = 0
  BY DEF Ahead

\* One event on: the asset at the cursor comes ahead, or the round is complete and
\* all are level again, one event up.
LEMMA AheadStep ==
  ASSUME NEW n \in Nat \ {0}, NEW s \in 0..(n - 1), NEW q \in 0..(n - 1)
  PROVE  LET r == IF q + 1 = n THEN 0 ELSE q + 1 IN
         \A d \in 0..(n - 1) :
            Ahead(d, s, q) + (IF d = q THEN 1 ELSE 0)
                = (IF r = s THEN 1 ELSE 0) + Ahead(d, s, r)
<1> SUFFICES ASSUME NEW d \in 0..(n - 1)
             PROVE  LET r == IF q + 1 = n THEN 0 ELSE q + 1 IN
                    Ahead(d, s, q) + (IF d = q THEN 1 ELSE 0)
                        = (IF r = s THEN 1 ELSE 0) + Ahead(d, s, r)
  OBVIOUS
<1>1. CASE q + 1 = n
  BY <1>1 DEF Ahead
<1>2. CASE q + 1 # n
  BY <1>2 DEF Ahead
<1>3. QED
  BY <1>1, <1>2

\* An asset's events in a batch, one more event at a time.
LEMMA EventsStep ==
  ASSUME NEW n \in Nat \ {0}, NEW b \in Nat, NEW d \in Int, ptr \in Nat
  PROVE  /\ EventsOf(d, n, 0) = 0
         /\ EventsOf(d, n, b) \in Nat
         /\ EventsOf(d, n, b + 1) = EventsOf(d, n, b) + (IF (ptr + b) % n = d THEN 1 ELSE 0)
<1> DEFINE K(m) == {k \in 0..(m - 1) : (ptr + k) % n = d}
<1>1. K(0) = {}
  OBVIOUS
<1>2. IsFiniteSet(K(b)) /\ b \notin K(b)
  <2>1. IsFiniteSet(0..(b - 1))
    <3>1. 0 \in Int /\ b - 1 \in Int
      OBVIOUS
    <3>2. QED
      BY <3>1, FS_Interval
  <2>2. K(b) \subseteq 0..(b - 1)
    OBVIOUS
  <2>3. QED
    BY <2>1, <2>2, FS_Subset
<1>3. K(b + 1) = IF (ptr + b) % n = d THEN K(b) \cup {b} ELSE K(b)
  <2>1. 0..((b + 1) - 1) = 0..(b - 1) \cup {b}
    OBVIOUS
  <2>2. QED
    BY <2>1
<1>4. EventsOf(d, n, 0) = Cardinality(K(0)) /\ EventsOf(d, n, b) = Cardinality(K(b))
      /\ EventsOf(d, n, b + 1) = Cardinality(K(b + 1))
  BY DEF EventsOf
<1> HIDE DEF K
<1>5. Cardinality(K(b)) \in Nat /\ Cardinality(K(b) \cup {b}) = Cardinality(K(b)) + 1
  BY <1>2, FS_CardinalityType, FS_AddElement
<1>6. Cardinality(K(0)) = 0
  BY <1>1, FS_EmptySet
<1>7. QED
  BY <1>3, <1>4, <1>5, <1>6

\* A batch of any size, given to a ring whose assets between s and the cursor are
\* ahead, leaves those between s and the new cursor ahead.
LEMMA BatchIsEven ==
  ASSUME NEW n \in Nat \ {0}, NEW s \in 0..(n - 1), ptr \in Nat,
         \A d \in 0..(n - 1) : shares[d] = Ahead(d, s, ptr % n)
  PROVE  \A b \in Nat : \E base \in Nat : \A d \in 0..(n - 1) :
            shares[d] + EventsOf(d, n, b) = base + Ahead(d, s, (ptr + b) % n)
<1> DEFINE Even(b, base) == \A d \in 0..(n - 1) :
                               shares[d] + EventsOf(d, n, b) = base + Ahead(d, s, (ptr + b) % n)
           Odd == {b \in Nat : ~ \E base \in Nat : Even(b, base)}
<1> SUFFICES ASSUME Odd # {} PROVE FALSE
  OBVIOUS
<1>1. PICK b \in Odd : \A y \in Odd : b <= y
  <2>1. Odd \in SUBSET Nat
    OBVIOUS
  <2> HIDE DEF Odd
  <2>2. QED
    BY <2>1, LeastNatural
<1>2. Even(0, 0)
  <2>1. ptr + 0 = ptr /\ 0 \in Nat
    OBVIOUS
  <2>2. \A d \in 0..(n - 1) : EventsOf(d, n, 0) = 0
    BY <2>1, EventsStep
  <2>3. \A d \in 0..(n - 1) : shares[d] \in Int
    BY DEF Ahead
  <2>4. QED
    BY <2>1, <2>2, <2>3
<1>3. b # 0
  BY <1>1, <1>2
<1>4. b \in Nat
  BY <1>1
<1>5. PICK c \in Nat : c + 1 = b /\ \E base \in Nat : Even(c, base)
  <2>1. b - 1 \in Nat /\ (b - 1) + 1 = b /\ ~(b <= b - 1)
    BY <1>3, <1>4
  <2>2. b - 1 \notin Odd
    <3> HIDE DEF Odd
    <3>1. QED
      BY <1>1, <2>1
  <2>3. \E base \in Nat : Even(b - 1, base)
    <3> HIDE DEF Even
    <3>1. QED
      BY <2>1, <2>2
  <2>4. QED
    BY <2>1, <2>3
<1>6. PICK base \in Nat : Even(c, base)
  BY <1>5
<1>7. PICK q \in 0..(n - 1) : q = (ptr + c) % n
  <2>1. ptr + c \in Int
    BY <1>5
  <2>2. QED
    BY <2>1, DivMod
<1>8. PICK r \in 0..(n - 1) : r = (IF q + 1 = n THEN 0 ELSE q + 1) /\ r = (ptr + b) % n
  <2>1. ptr + c \in Nat /\ (ptr + c) + 1 = ptr + b
    BY <1>5
  <2>2. (ptr + b) % n = IF q + 1 = n THEN 0 ELSE q + 1
    <3> HIDE DEF Even, Odd
    <3>1. (ptr + c + 1) % n = IF ((ptr + c) % n) + 1 = n THEN 0 ELSE ((ptr + c) % n) + 1
      BY <2>1, NextPlace
    <3>2. QED
      BY <1>7, <2>1, <3>1
  <2>3. QED
    BY <2>2
<1>9. \A d \in 0..(n - 1) :
         shares[d] + EventsOf(d, n, b) = (base + (IF r = s THEN 1 ELSE 0)) + Ahead(d, s, r)
  <2> SUFFICES ASSUME NEW d \in 0..(n - 1)
      PROVE shares[d] + EventsOf(d, n, b) = (base + (IF r = s THEN 1 ELSE 0)) + Ahead(d, s, r)
    OBVIOUS
  <2>1. EventsOf(d, n, c) \in Nat /\ EventsOf(d, n, b) = EventsOf(d, n, c) + (IF d = q THEN 1 ELSE 0)
    <3> HIDE DEF Even, Odd
    <3>1. EventsOf(d, n, c) \in Nat
          /\ EventsOf(d, n, c + 1) = EventsOf(d, n, c) + (IF (ptr + c) % n = d THEN 1 ELSE 0)
      <4>1. d \in Int /\ ptr \in Nat
        OBVIOUS
      <4>2. QED
        BY <4>1, EventsStep, Zenon
    <3>2. QED
      BY <1>5, <1>7, <3>1
  <2>2. shares[d] + EventsOf(d, n, c) = base + Ahead(d, s, q)
    BY <1>6, <1>7
  <2>3. Ahead(d, s, q) + (IF d = q THEN 1 ELSE 0) = (IF r = s THEN 1 ELSE 0) + Ahead(d, s, r)
    <3> HIDE DEF Even, Odd
    <3>1. r = (IF q + 1 = n THEN 0 ELSE q + 1)
      BY <1>8
    <3>2. QED
      BY <3>1, AheadStep
  <2>4. shares[d] \in Int /\ Ahead(d, s, q) \in Int /\ Ahead(d, s, r) \in Int
    BY DEF Ahead
  <2>5. QED
    <3> HIDE DEF Even, Odd
    <3>1. QED
      BY <2>1, <2>2, <2>3, <2>4
<1>10. base + (IF r = s THEN 1 ELSE 0) \in Nat
  OBVIOUS
<1>11. b \notin Odd
  BY <1>4, <1>8, <1>9, <1>10
<1>12. QED
  BY <1>1, <1>11

-----------------------------------------------------------------------------
(* DemoSettings: the invariants *)

Rates    == {ask.rate : ask \in Asked} \cup {DefaultRate}
Settings == [size : 1..Max({BackendMax, DefaultSize}), rate : Rates, paused : BOOLEAN]

FleetSize(s) == Min({s.size, ProducerMax})

DemoTypes ==
    /\ current \in Settings /\ form \in Settings /\ live \in Settings
    /\ turn \in [busy : BOOLEAN, with : Settings]
    /\ poller \in SUBSET Settings /\ \A s, t \in poller : s = t
    /\ scenario \in SUBSET Drones /\ \A d, e \in scenario : d = e
    /\ synced \in BOOLEAN /\ quiet \in BOOLEAN
    /\ owed \in 0..(TurnsPerSec - 1) /\ ptr \in Drones
    /\ drift \in Int /\ shares \in [Drones -> Nat]
    /\ inFlight \in SUBSET Drones /\ fleetRows \in SUBSET Drones
    /\ used \in [clicks : 0..MaxClicks, mishaps : 0..MaxMishaps]

\* What was sent and what is carried are together what was due, within an event.
RateCarried == 0 <= drift + owed /\ drift + owed < TurnsPerSec

\* The assets ahead are those from some place of the ring up to the cursor.
CursorIsEven ==
    \E s \in 0..(FleetSize(turn.with) - 1) : \A d \in 0..(FleetSize(turn.with) - 1) :
        shares[d] = Ahead(d, s, ptr % FleetSize(turn.with))

\* Nothing on its way to the table is about an asset outside the fleet.
QuietMeansQuiet ==
    quiet => /\ FleetOf(live) = FleetOf(current)
             /\ \A s \in poller : FleetOf(s) = FleetOf(current)
             /\ turn.busy => FleetOf(turn.with) = FleetOf(current)
             /\ inFlight \subseteq FleetOf(current)
             /\ scenario \subseteq FleetOf(current)
             /\ fleetRows \subseteq FleetOf(current)

\* The inductive invariant.
DemoInv ==
    /\ DemoTypes
    /\ RateCarried
    /\ CursorIsEven
    /\ FreshPagesKeepThePause
    /\ QuietMeansQuiet

-----------------------------------------------------------------------------
(* DemoSettings: small facts *)

\* The limits and the defaults are positive.
LEMMA DemoBounds ==
  /\ TurnsPerSec \in Nat \ {0} /\ BackendMax \in Nat \ {0} /\ ProducerMax \in Nat \ {0}
  /\ DefaultSize \in Nat \ {0} /\ DefaultRate \in Nat \ {0}
  /\ MaxClicks \in Nat /\ MaxMishaps \in Nat
  BY DemoAssumption

\* No clamp gives more than the largest size anybody may have.
LEMMA SizeLimit ==
  /\ Max({BackendMax, DefaultSize}) \in Nat
  /\ BackendMax <= Max({BackendMax, DefaultSize}) /\ DefaultSize <= Max({BackendMax, DefaultSize})
<1>1. BackendMax \in Int /\ DefaultSize \in Int
  BY DemoBounds
<1>2. Max({BackendMax, DefaultSize}) = IF BackendMax <= DefaultSize THEN DefaultSize ELSE BackendMax
  BY <1>1, PairMinMax
<1>3. QED
  BY <1>2, DemoBounds

\* Rates are positive.
LEMMA RateType == ASSUME NEW r \in Rates PROVE r \in Nat \ {0}
  BY DemoBounds, DemoAssumption DEF Rates

\* What is posted is clamped to settings that may be.
LEMMA ClampedType ==
  ASSUME NEW s \in Settings, NEW size \in Nat \ {0}, NEW r \in Rates
  PROVE  /\ Min({size, BackendMax}) \in 1..Max({BackendMax, DefaultSize})
         /\ [s EXCEPT !.size = Min({size, BackendMax}), !.rate = r] \in Settings
<1>1. size \in Int /\ BackendMax \in Nat \ {0} /\ BackendMax \in Int
  BY DemoBounds
<1>2. Min({size, BackendMax}) = IF size <= BackendMax THEN size ELSE BackendMax
  BY <1>1, PairMinMax
<1>3. Min({size, BackendMax}) \in 1..Max({BackendMax, DefaultSize})
  BY <1>1, <1>2, SizeLimit
<1>4. QED
  BY <1>3 DEF Settings

\* So are both environments' defaults.
LEMMA DefaultsType == Defaults \in Settings /\ AtStart \in Settings
<1>1. DefaultSize \in Nat \ {0} /\ DefaultSize \in 1..Max({BackendMax, DefaultSize})
  BY DemoBounds, SizeLimit
<1>2. DefaultRate \in Rates
  BY DEF Rates
<1>3. AtStart \in Settings
  BY <1>1, <1>2 DEF AtStart, Settings
<1>4. Min({DefaultSize, BackendMax}) \in 1..Max({BackendMax, DefaultSize})
  BY <1>1, <1>2, <1>3, ClampedType
<1>5. QED
  BY <1>2, <1>3, <1>4 DEF Defaults, Settings

\* A fleet has somebody in it, and everybody in it is one the producer has room for.
LEMMA FleetType ==
  ASSUME NEW s \in Settings
  PROVE  /\ FleetSize(s) \in 1..ProducerMax /\ FleetSize(s) \in Nat \ {0}
         /\ FleetOf(s) = 0..(FleetSize(s) - 1) /\ FleetOf(s) \subseteq Drones
<1>1. s.size \in 1..Max({BackendMax, DefaultSize}) /\ ProducerMax \in Nat \ {0}
  BY DemoBounds DEF Settings
<1>2. s.size \in Nat \ {0} /\ s.size \in Int /\ ProducerMax \in Int
  BY <1>1, SizeLimit
<1>3. FleetSize(s) = IF s.size <= ProducerMax THEN s.size ELSE ProducerMax
  BY <1>2, PairMinMax DEF FleetSize
<1>4. FleetSize(s) \in 1..ProducerMax /\ FleetSize(s) \in Nat \ {0}
  BY <1>1, <1>2, <1>3
<1>5. FleetOf(s) = 0..(FleetSize(s) - 1)
  BY DEF FleetOf, FleetSize
<1>6. QED
  BY <1>1, <1>4, <1>5 DEF Drones

\* Two settings with the same fleet have the same size of it.
LEMMA SameFleet ==
  ASSUME NEW s \in Settings, NEW t \in Settings, FleetOf(s) = FleetOf(t)
  PROVE  FleetSize(s) = FleetSize(t)
<1>1. /\ FleetSize(s) \in Nat \ {0} /\ FleetSize(t) \in Nat \ {0}
      /\ 0..(FleetSize(s) - 1) = 0..(FleetSize(t) - 1)
  BY FleetType
<1>2. FleetSize(s) - 1 \in 0..(FleetSize(t) - 1) /\ FleetSize(t) - 1 \in 0..(FleetSize(s) - 1)
  BY <1>1
<1>3. QED
  BY <1>1, <1>2

\* A fleet is given by the size alone.
LEMMA SizeGivesFleet ==
  ASSUME NEW s, NEW t, s.size = t.size
  PROVE  FleetOf(s) = FleetOf(t)
  BY DEF FleetOf

\* What is bounded stays within its bounds.
LEMMA UsingType ==
  ASSUME used \in [clicks : 0..MaxClicks, mishaps : 0..MaxMishaps],
         Using("clicks", MaxClicks) \/ Using("mishaps", MaxMishaps)
  PROVE  used' \in [clicks : 0..MaxClicks, mishaps : 0..MaxMishaps]
<1>1. used.clicks \in 0..MaxClicks /\ used.mishaps \in 0..MaxMishaps
      /\ MaxClicks \in Nat /\ MaxMishaps \in Nat
  BY DemoBounds
<1>2. CASE Using("clicks", MaxClicks)
  <2>1. used.clicks + 1 \in 0..MaxClicks
    BY <1>1, <1>2 DEF Using
  <2>2. used' = [used EXCEPT !["clicks"] = used.clicks + 1]
    BY <1>2 DEF Using
  <2>3. QED
    BY <2>1, <2>2
<1>3. CASE Using("mishaps", MaxMishaps)
  <2>1. used.mishaps + 1 \in 0..MaxMishaps
    BY <1>1, <1>3 DEF Using
  <2>2. used' = [used EXCEPT !["mishaps"] = used.mishaps + 1]
    BY <1>3 DEF Using
  <2>3. QED
    BY <2>1, <2>2
<1>4. QED
  BY <1>2, <1>3

\* What leaves the producer alone leaves its pace alone.
LEMMA PaceFrame ==
  ASSUME RateCarried, CursorIsEven, UNCHANGED producerVars
  PROVE  RateCarried' /\ CursorIsEven'
<1>1. turn' = turn /\ owed' = owed /\ ptr' = ptr /\ drift' = drift /\ shares' = shares
  BY DEF producerVars
<1>2. RateCarried'
  BY <1>1 DEF RateCarried
<1>3. CursorIsEven'
  BY <1>1 DEF CursorIsEven
<1>4. QED
  BY <1>2, <1>3

-----------------------------------------------------------------------------
(* DemoSettings: the steps *)

\* The page and the backend.
LEMMA PageKeepsDemo ==
  ASSUME DemoInv, LoadPage \/ RestoreDefaults \/ BackendRestarts \/ Cleanup
  PROVE  DemoInv'
<1> USE DEF DemoInv
<1>0. Defaults \in Settings /\ Defaults.paused = FALSE
  BY DefaultsType DEF Defaults
<1>a. /\ UNCHANGED producerVars /\ Using("clicks", MaxClicks)
      /\ UNCHANGED <<poller, inFlight, scenario>>
  BY DEF LoadPage, RestoreDefaults, BackendRestarts, Cleanup, tableVars
<1>b. live' = live /\ turn' = turn /\ owed' = owed /\ ptr' = ptr /\ drift' = drift
      /\ shares' = shares
  BY <1>a DEF producerVars
<1>c. used' \in [clicks : 0..MaxClicks, mishaps : 0..MaxMishaps]
  BY <1>a, UsingType DEF DemoTypes
<1>1. RateCarried' /\ CursorIsEven'
  BY <1>a, PaceFrame
<1>2. CASE LoadPage
  <2>1. form' = current /\ current' = current /\ synced' = TRUE /\ quiet' = quiet
        /\ fleetRows' = fleetRows
    BY <1>2 DEF LoadPage, tableVars
  <2>2. DemoTypes'
    BY <1>a, <1>b, <1>c, <2>1 DEF DemoTypes
  <2>3. FreshPagesKeepThePause'
    BY <2>1 DEF FreshPagesKeepThePause
  <2>4. QuietMeansQuiet'
    BY <1>a, <1>b, <2>1 DEF QuietMeansQuiet
  <2>5. QED
    BY <1>1, <2>2, <2>3, <2>4
<1>3. CASE RestoreDefaults
  <2>1. form' = Defaults /\ current' = current /\ synced' = FALSE /\ quiet' = quiet
        /\ fleetRows' = fleetRows
    BY <1>3 DEF RestoreDefaults, tableVars
  <2>2. DemoTypes'
    BY <1>0, <1>a, <1>b, <1>c, <2>1 DEF DemoTypes
  <2>3. FreshPagesKeepThePause'
    BY <2>1 DEF FreshPagesKeepThePause
  <2>4. QuietMeansQuiet'
    BY <1>a, <1>b, <2>1 DEF QuietMeansQuiet
  <2>5. QED
    BY <1>1, <2>2, <2>3, <2>4
<1>4. CASE BackendRestarts
  <2>1. form' = form /\ current' = Defaults /\ synced' = FALSE
        /\ quiet' = (quiet /\ Defaults.size = current.size) /\ fleetRows' = fleetRows
    BY <1>4 DEF BackendRestarts, tableVars
  <2>2. DemoTypes'
    <3>1. quiet' \in BOOLEAN
      BY <2>1
    <3>2. QED
      BY <1>0, <1>a, <1>b, <1>c, <2>1, <3>1 DEF DemoTypes
  <2>3. FreshPagesKeepThePause'
    BY <2>1 DEF FreshPagesKeepThePause
  <2>4. QuietMeansQuiet'
    <3> SUFFICES ASSUME quiet' PROVE QuietMeansQuiet'
      BY DEF QuietMeansQuiet
    <3>1. quiet /\ FleetOf(Defaults) = FleetOf(current)
      BY <2>1, SizeGivesFleet
    <3>2. QED
      BY <1>a, <1>b, <2>1, <3>1 DEF QuietMeansQuiet
  <2>5. QED
    BY <1>1, <2>2, <2>3, <2>4
<1>5. CASE Cleanup
  <2>1. form' = form /\ current' = current /\ synced' = synced /\ fleetRows' = {}
    BY <1>5 DEF Cleanup
  <2>2. quiet' = /\ FleetOf(live) = FleetOf(current)
                 /\ \A s \in poller : FleetOf(s) = FleetOf(current)
                 /\ turn.busy => FleetOf(turn.with) = FleetOf(current)
                 /\ inFlight \subseteq FleetOf(current)
                 /\ scenario \subseteq FleetOf(current)
    BY <1>5 DEF Cleanup
  <2>3. DemoTypes'
    <3>1. quiet' \in BOOLEAN
      BY <2>2
    <3>2. QED
      BY <1>a, <1>b, <1>c, <2>1, <3>1 DEF DemoTypes
  <2>4. FreshPagesKeepThePause'
    BY <2>1 DEF FreshPagesKeepThePause
  <2>5. QuietMeansQuiet'
    BY <1>a, <1>b, <2>1, <2>2 DEF QuietMeansQuiet
  <2>6. QED
    BY <1>1, <2>3, <2>4, <2>5
<1>6. QED
  BY <1>2, <1>3, <1>4, <1>5

\* A save, which posts the whole form.
LEMMA SaveKeepsDemo ==
  ASSUME DemoInv, NEW ask \in Asked, Save(ask)
  PROVE  DemoInv'
<1> USE DEF DemoInv
<1> DEFINE clamped == [form EXCEPT !.size = Min({ask.size, BackendMax}), !.rate = ask.rate]
<1>a. /\ UNCHANGED producerVars /\ Using("clicks", MaxClicks)
      /\ UNCHANGED <<poller, inFlight, fleetRows, scenario>>
      /\ current' = clamped /\ form' = clamped /\ synced' = TRUE
      /\ quiet' = (quiet /\ clamped.size = current.size)
  BY DEF Save, tableVars
<1>b. live' = live /\ turn' = turn /\ owed' = owed /\ ptr' = ptr /\ drift' = drift
      /\ shares' = shares
  BY <1>a DEF producerVars
<1>c. used' \in [clicks : 0..MaxClicks, mishaps : 0..MaxMishaps]
  BY <1>a, UsingType DEF DemoTypes
<1>d. clamped \in Settings
  <2>1. ask.size \in Nat \ {0} /\ ask.rate \in Rates /\ form \in Settings
    BY DemoAssumption DEF Rates, DemoTypes
  <2>2. QED
    BY <2>1, ClampedType
<1> HIDE DEF clamped
<1>1. RateCarried' /\ CursorIsEven'
  BY <1>a, PaceFrame
<1>2. DemoTypes'
  <2>1. quiet' \in BOOLEAN
    BY <1>a
  <2>2. QED
    BY <1>a, <1>b, <1>c, <1>d, <2>1 DEF DemoTypes
<1>3. FreshPagesKeepThePause'
  BY <1>a DEF FreshPagesKeepThePause
<1>4. QuietMeansQuiet'
  <2> SUFFICES ASSUME quiet' PROVE QuietMeansQuiet'
    BY DEF QuietMeansQuiet
  <2>1. quiet /\ FleetOf(clamped) = FleetOf(current)
    BY <1>a, SizeGivesFleet
  <2>2. QED
    BY <1>a, <1>b, <2>1 DEF QuietMeansQuiet
<1>5. QED
  BY <1>1, <1>2, <1>3, <1>4

\* A toggle, from this page or from another.
LEMMA ToggleKeepsDemo ==
  ASSUME DemoInv, NEW here \in BOOLEAN, TogglePause(here)
  PROVE  DemoInv'
<1> USE DEF DemoInv
<1>a. /\ UNCHANGED producerVars /\ Using("clicks", MaxClicks)
      /\ UNCHANGED <<poller, inFlight, fleetRows, scenario, quiet>>
      /\ current' = [current EXCEPT !.paused = ~current.paused]
      /\ IF here THEN form' = [form EXCEPT !.paused = ~current.paused] /\ synced' = TRUE
                 ELSE form' = form /\ synced' = FALSE
  BY DEF TogglePause, tableVars
<1>b. live' = live /\ turn' = turn /\ owed' = owed /\ ptr' = ptr /\ drift' = drift
      /\ shares' = shares
  BY <1>a DEF producerVars
<1>c. used' \in [clicks : 0..MaxClicks, mishaps : 0..MaxMishaps]
  BY <1>a, UsingType DEF DemoTypes
<1>d. PICK p \in BOOLEAN : p = ~current.paused
  OBVIOUS
<1>e. /\ current' \in Settings /\ current'.size = current.size /\ current'.paused = p
      /\ form' \in Settings /\ synced' \in BOOLEAN
      /\ synced' => form'.paused = p
  <2>1. current \in Settings /\ form \in Settings
    BY DEF DemoTypes
  <2>2. current' = [current EXCEPT !.paused = p]
        /\ IF here THEN form' = [form EXCEPT !.paused = p] /\ synced' = TRUE
                   ELSE form' = form /\ synced' = FALSE
    BY <1>a, <1>d
  <2>3. /\ current' \in Settings /\ current'.size = current.size /\ current'.paused = p
    BY <2>1, <2>2 DEF Settings
  <2>4. CASE here
    <3>1. form' = [form EXCEPT !.paused = p] /\ synced' = TRUE
      BY <2>2, <2>4
    <3>2. QED
      BY <2>1, <2>3, <3>1 DEF Settings
  <2>5. CASE ~here
    <3>1. form' = form /\ synced' = FALSE
      BY <2>2, <2>5
    <3>2. QED
      BY <2>1, <2>3, <3>1
  <2>6. QED
    BY <2>4, <2>5
<1>1. RateCarried' /\ CursorIsEven'
  BY <1>a, PaceFrame
<1>2. DemoTypes'
  BY <1>a, <1>b, <1>c, <1>e DEF DemoTypes
<1>3. FreshPagesKeepThePause'
  BY <1>e DEF FreshPagesKeepThePause
<1>4. QuietMeansQuiet'
  <2>1. FleetOf(current') = FleetOf(current)
    BY <1>e DEF FleetOf
  <2>2. QED
    BY <1>a, <1>b, <2>1 DEF QuietMeansQuiet
<1>5. QED
  BY <1>1, <1>2, <1>3, <1>4

\* The breach scenario, the topic and the sink.
LEMMA TableKeepsDemo ==
  ASSUME DemoInv,
         \/ ScenarioWrites \/ ScenarioFails
         \/ \E d \in Drones : ScenarioPicks(d) \/ SinkUpserts(d) \/ EventLost(d)
  PROVE  DemoInv'
<1> USE DEF DemoInv
<1>a. UNCHANGED producerVars /\ UNCHANGED <<current, form, synced, poller, quiet>>
  BY DEF ScenarioWrites, ScenarioFails, ScenarioPicks, SinkUpserts, EventLost
<1>b. live' = live /\ turn' = turn /\ owed' = owed /\ ptr' = ptr /\ drift' = drift
      /\ shares' = shares
  BY <1>a DEF producerVars
<1>c. used' \in [clicks : 0..MaxClicks, mishaps : 0..MaxMishaps]
  <2>1. Using("mishaps", MaxMishaps) \/ used' = used
    BY DEF ScenarioWrites, ScenarioFails, ScenarioPicks, SinkUpserts, EventLost
  <2>2. QED
    BY <2>1, UsingType DEF DemoTypes
<1>d. /\ fleetRows' \subseteq fleetRows \cup scenario \cup inFlight
      /\ inFlight' \subseteq inFlight /\ scenario' \subseteq scenario \cup fleetRows
      /\ \A d, e \in scenario' : d = e
  BY DEF ScenarioWrites, ScenarioFails, ScenarioPicks, SinkUpserts, EventLost, DemoTypes
<1>1. RateCarried' /\ CursorIsEven'
  BY <1>a, PaceFrame
<1>2. DemoTypes'
  BY <1>a, <1>b, <1>c, <1>d DEF DemoTypes
<1>3. FreshPagesKeepThePause'
  BY <1>a DEF FreshPagesKeepThePause
<1>4. QuietMeansQuiet'
  BY <1>a, <1>b, <1>d DEF QuietMeansQuiet
<1>5. QED
  BY <1>1, <1>2, <1>3, <1>4

\* The producer's poll.
LEMMA PollKeepsDemo ==
  ASSUME DemoInv, PollReads \/ PollFails \/ Apply
  PROVE  DemoInv'
<1> USE DEF DemoInv
<1>a. /\ UNCHANGED <<current, form, synced, quiet, turn, owed, ptr, drift, shares>>
      /\ UNCHANGED <<inFlight, fleetRows, scenario>>
  BY DEF PollReads, PollFails, Apply, producerVars, tableVars
<1>b. used' \in [clicks : 0..MaxClicks, mishaps : 0..MaxMishaps]
  <2>1. Using("mishaps", MaxMishaps) \/ used' = used
    BY DEF PollReads, PollFails, Apply
  <2>2. QED
    BY <2>1, UsingType DEF DemoTypes
<1>c. (live' = live \/ live' \in poller) /\ poller' \subseteq {current}
  BY DEF PollReads, PollFails, Apply, producerVars
<1>1. RateCarried' /\ CursorIsEven'
  BY <1>a DEF RateCarried, CursorIsEven
<1>2. DemoTypes'
  BY <1>a, <1>b, <1>c DEF DemoTypes
<1>3. FreshPagesKeepThePause'
  BY <1>a DEF FreshPagesKeepThePause
<1>4. QuietMeansQuiet'
  BY <1>a, <1>c DEF QuietMeansQuiet
<1>5. QED
  BY <1>1, <1>2, <1>3, <1>4

\* Nobody is ahead in a fleet that is new to the cursor.
LEMMA LevelStart ==
  ASSUME NEW s \in Settings, NEW p \in Nat
  PROVE  \E f \in 0..(FleetSize(s) - 1) : \A d \in 0..(FleetSize(s) - 1) :
            NoShares[d] = Ahead(d, f, p % FleetSize(s))
<1>1. FleetSize(s) \in Nat \ {0} /\ 0..(FleetSize(s) - 1) \subseteq Drones /\ p \in Int
  BY FleetType
<1>2. PICK f \in 0..(FleetSize(s) - 1) : f = p % FleetSize(s)
  BY <1>1, DivMod
<1>3. \A d \in 0..(FleetSize(s) - 1) : NoShares[d] = 0 /\ Ahead(d, f, f) = 0
  BY <1>1, NobodyAhead DEF NoShares
<1>4. QED
  BY <1>2, <1>3

\* A turn begins: the carry is kept, and a new rate or size starts a new account.
LEMMA TakeKeepsDemo ==
  ASSUME DemoInv, TakeSettings
  PROVE  DemoInv'
<1> USE DEF DemoInv
<1>a. /\ UNCHANGED <<current, form, synced, poller, live, owed, ptr, quiet, used>>
      /\ UNCHANGED <<inFlight, fleetRows, scenario>>
      /\ turn' = [busy |-> TRUE, with |-> live]
      /\ drift' = IF live.rate = turn.with.rate THEN drift ELSE 0
      /\ shares' = IF FleetOf(live) = FleetOf(turn.with) THEN shares ELSE NoShares
  BY DEF TakeSettings, tableVars
<1>b. /\ live \in Settings /\ turn.with \in Settings /\ owed \in 0..(TurnsPerSec - 1)
      /\ ptr \in Drones /\ ptr \in Nat /\ drift \in Int /\ TurnsPerSec \in Nat \ {0}
  BY DemoBounds DEF DemoTypes, Drones
<1>1. DemoTypes'
  <2>1. drift' \in Int /\ turn' \in [busy : BOOLEAN, with : Settings]
    BY <1>a, <1>b
  <2>2. shares' \in [Drones -> Nat]
    BY <1>a DEF DemoTypes, NoShares
  <2>3. QED
    BY <1>a, <2>1, <2>2 DEF DemoTypes
<1>2. RateCarried'
  BY <1>a, <1>b DEF RateCarried
<1>3. CursorIsEven'
  <2>0. turn'.with = live
    BY <1>a
  <2>1. CASE FleetOf(live) = FleetOf(turn.with)
    <3>1. FleetSize(live) = FleetSize(turn.with) /\ shares' = shares
      BY <1>a, <1>b, <2>1, SameFleet
    <3>2. QED
      BY <1>a, <2>0, <3>1 DEF CursorIsEven
  <2>2. CASE FleetOf(live) # FleetOf(turn.with)
    <3>1. shares' = NoShares
      BY <1>a, <2>2
    <3>2. \E f \in 0..(FleetSize(live) - 1) : \A d \in 0..(FleetSize(live) - 1) :
              NoShares[d] = Ahead(d, f, ptr % FleetSize(live))
      BY <1>b, LevelStart
    <3>3. QED
      BY <1>a, <2>0, <3>1, <3>2 DEF CursorIsEven
  <2>3. QED
    BY <2>1, <2>2
<1>4. FreshPagesKeepThePause'
  BY <1>a DEF FreshPagesKeepThePause
<1>5. QuietMeansQuiet'
  BY <1>a DEF QuietMeansQuiet
<1>6. QED
  BY <1>1, <1>2, <1>3, <1>4, <1>5

\* A batch leaves each asset what the cursor says it is ahead.
LEMMA SharedIsAhead ==
  ASSUME NEW n \in 1..ProducerMax, NEW s \in 0..(n - 1), NEW b \in Nat, ptr \in Nat,
         shares \in [Drones -> Nat],
         \A d \in 0..(n - 1) : shares[d] = Ahead(d, s, ptr % n)
  PROVE  /\ Shared(n, b) \in [Drones -> Nat]
         /\ \A d \in 0..(n - 1) : Shared(n, b)[d] = Ahead(d, s, (ptr + b) % n)
<1>0. n \in Nat \ {0} /\ 0..(n - 1) \subseteq Drones /\ ProducerMax \in Nat \ {0}
  BY DemoBounds DEF Drones
<1>1. PICK base \in Nat : \A d \in 0..(n - 1) :
         shares[d] + EventsOf(d, n, b) = base + Ahead(d, s, (ptr + b) % n)
  BY <1>0, BatchIsEven
<1>2. PICK q \in 0..(n - 1) : q = (ptr + b) % n
  <2>1. ptr + b \in Int
    OBVIOUS
  <2>2. QED
    BY <1>0, <2>1, DivMod
<1> DEFINE more(d) == shares[d] + EventsOf(d, n, b)
           M == {more(d) : d \in 0..(n - 1)}
           least == Min(M)
<1>3. \A d \in 0..(n - 1) : more(d) = base + Ahead(d, s, q)
  BY <1>1, <1>2
<1>4. Shared(n, b) = [d \in Drones |-> IF d < n THEN more(d) - least ELSE 0]
  BY DEF Shared
<1>5. \A d \in 0..(n - 1) : Ahead(d, s, q) \in {0, 1}
  BY DEF Ahead
<1>6. more(q) = base
  <2>1. Ahead(q, s, q) = 0
    BY <1>0, CursorIsBehind
  <2>2. QED
    BY <1>3, <2>1
<1> HIDE DEF more
<1>7. base \in M /\ \A x \in M : base <= x /\ x \in Nat
  BY <1>3, <1>5, <1>6
<1> HIDE DEF M
<1>8. least = base
  <2>1. least \in M /\ \A x \in M : least <= x
    BY <1>7 DEF Min
  <2> HIDE DEF least
  <2>2. QED
    BY <1>7, <2>1
<1> HIDE DEF least
<1>9. \A d \in 0..(n - 1) : more(d) - least = Ahead(d, s, q)
  BY <1>3, <1>5, <1>8
<1>10. \A d \in Drones : d \in Nat /\ (d < n => d \in 0..(n - 1))
  BY <1>0 DEF Drones
<1>11. \A d \in Drones : (IF d < n THEN more(d) - least ELSE 0) \in Nat
  BY <1>5, <1>9, <1>10
<1>12. QED
  BY <1>0, <1>2, <1>4, <1>9, <1>11

\* A turn ends: what was owed is sent or carried, and the cursor goes on.
LEMMA SendKeepsDemo ==
  ASSUME DemoInv, SendBatch
  PROVE  DemoInv'
<1> USE DEF DemoInv
<1>a. /\ turn.with \in Settings /\ owed \in 0..(TurnsPerSec - 1) /\ ptr \in Drones /\ ptr \in Nat
      /\ drift \in Int /\ TurnsPerSec \in Nat \ {0} /\ turn.busy \in BOOLEAN
      /\ shares \in [Drones -> Nat] /\ ProducerMax \in Nat \ {0}
  BY DemoBounds DEF DemoTypes, Drones
<1>b. turn.with.rate \in Nat \ {0}
  <2>1. turn.with.rate \in Rates
    BY <1>a DEF Settings
  <2>2. QED
    BY <2>1, RateType
<1>c. PICK n \in 1..ProducerMax : n = FleetSize(turn.with) /\ FleetOf(turn.with) = 0..(n - 1)
  BY <1>a, FleetType
<1>d. PICK total \in Nat : total = owed + turn.with.rate
  BY <1>a, <1>b
<1>e. PICK batch \in Nat : \E left \in 0..(TurnsPerSec - 1) :
         batch = total \div TurnsPerSec /\ left = total % TurnsPerSec
         /\ total = TurnsPerSec * batch + left
  <2>1. total \in Int /\ TurnsPerSec \in Nat \ {0}
    BY <1>a
  <2>2. PICK q \in Int : \E r \in 0..(TurnsPerSec - 1) :
           q = total \div TurnsPerSec /\ r = total % TurnsPerSec /\ total = TurnsPerSec * q + r
    BY <2>1, DivMod
  <2>3. total \div TurnsPerSec \in Nat
    BY <1>a
  <2>4. QED
    BY <2>2, <2>3
<1>f. PICK left \in 0..(TurnsPerSec - 1) : left = total % TurnsPerSec
         /\ total = TurnsPerSec * batch + left
  BY <1>e
<1>g. /\ turn.busy /\ turn' = [turn EXCEPT !.busy = FALSE]
      /\ owed' = left
      /\ ptr' = IF batch > 0 THEN (ptr + batch) % n ELSE ptr
      /\ inFlight' = inFlight \cup Ids(n, batch)
      /\ drift' = drift + batch * TurnsPerSec - turn.with.rate
      /\ shares' = Shared(n, batch)
      /\ UNCHANGED <<current, form, synced, poller, live, fleetRows, scenario, quiet, used>>
  BY <1>c, <1>d, <1>e, <1>f DEF SendBatch, FleetSize
<1>h. /\ turn' \in [busy : BOOLEAN, with : Settings] /\ turn'.with = turn.with
      /\ turn'.busy = FALSE
  BY <1>g DEF DemoTypes
<1>i. PICK s \in 0..(n - 1) : \A d \in 0..(n - 1) : shares[d] = Ahead(d, s, ptr % n)
  BY <1>c DEF CursorIsEven
<1>j. /\ shares' \in [Drones -> Nat]
      /\ \A d \in 0..(n - 1) : shares'[d] = Ahead(d, s, (ptr + batch) % n)
  BY <1>a, <1>g, <1>i, SharedIsAhead
<1>k. Ids(n, batch) \subseteq 0..(n - 1)
  <2>1. n \in Nat \ {0}
    BY <1>a
  <2>2. \A k \in 0..(batch - 1) : (ptr + k) % n \in 0..(n - 1)
    <3> SUFFICES ASSUME NEW k \in 0..(batch - 1) PROVE (ptr + k) % n \in 0..(n - 1)
      OBVIOUS
    <3>1. ptr + k \in Int
      BY <1>a
    <3>2. QED
      BY <2>1, <3>1, DivMod
  <2>3. QED
    BY <2>2 DEF Ids
<1>l. /\ ptr' \in Drones /\ ptr' % n = (ptr + batch) % n
  <2>1. n \in Nat \ {0} /\ ptr + batch \in Nat
    BY <1>a
  <2>2. CASE batch > 0
    <3>1. PICK r \in 0..(n - 1) : r = (ptr + batch) % n
      BY <2>1, DivMod
    <3>2. ptr' = r
      BY <1>g, <2>2, <3>1
    <3>3. r % n = r
      BY <2>1
    <3>4. r \in Drones
      BY <1>a DEF Drones
    <3>5. QED
      BY <3>1, <3>2, <3>3, <3>4
  <2>3. CASE batch = 0
    BY <1>a, <1>g, <2>3
  <2>4. QED
    BY <2>2, <2>3
<1>1. DemoTypes'
  <2>1. drift' \in Int
    <3>1. batch * TurnsPerSec \in Int
      BY <1>a
    <3>2. QED
      BY <1>a, <1>b, <1>g, <3>1
  <2>2. inFlight' \in SUBSET Drones
    <3>1. 0..(n - 1) \subseteq Drones
      BY <1>a DEF Drones
    <3>2. QED
      BY <1>g, <1>k, <3>1 DEF DemoTypes
  <2>3. owed' \in 0..(TurnsPerSec - 1)
    BY <1>g
  <2>4. QED
    BY <1>g, <1>h, <1>j, <1>l, <2>1, <2>2, <2>3 DEF DemoTypes
<1>2. RateCarried'
  <2>1. drift' + owed' = drift + owed
    <3>1. PICK sent \in Int : sent = batch * TurnsPerSec /\ sent = TurnsPerSec * batch
      BY <1>a
    <3>2. drift' = drift + sent - turn.with.rate /\ owed' = left
      BY <1>g, <3>1
    <3>3. owed + turn.with.rate = sent + left
      BY <1>d, <1>f, <3>1
    <3>4. QED
      BY <1>a, <1>b, <3>2, <3>3
  <2>2. QED
    BY <2>1 DEF RateCarried
<1>3. CursorIsEven'
  BY <1>c, <1>h, <1>j, <1>l DEF CursorIsEven
<1>4. FreshPagesKeepThePause'
  BY <1>g DEF FreshPagesKeepThePause
<1>5. QuietMeansQuiet'
  <2> SUFFICES ASSUME quiet' PROVE QuietMeansQuiet'
    BY DEF QuietMeansQuiet
  <2>1. Ids(n, batch) \subseteq FleetOf(current)
    BY <1>c, <1>g, <1>k DEF QuietMeansQuiet
  <2>2. QED
    BY <1>g, <1>h, <2>1 DEF QuietMeansQuiet
<1>6. QED
  BY <1>1, <1>2, <1>3, <1>4, <1>5

\* The producer starts again, from its environment.
LEMMA RestartKeepsDemo ==
  ASSUME DemoInv, ProducerRestarts
  PROVE  DemoInv'
<1> USE DEF DemoInv
<1>a. /\ live' = AtStart /\ turn' = [busy |-> FALSE, with |-> AtStart] /\ owed' = 0
      /\ ptr' = 0 /\ drift' = 0 /\ shares' = NoShares /\ poller' = {}
      /\ quiet' = (quiet /\ FleetOf(AtStart) = FleetOf(current))
      /\ UNCHANGED <<current, form, synced>> /\ UNCHANGED <<inFlight, fleetRows, scenario>>
      /\ Using("mishaps", MaxMishaps)
  BY DEF ProducerRestarts, tableVars
<1>b. used' \in [clicks : 0..MaxClicks, mishaps : 0..MaxMishaps]
  BY <1>a, UsingType DEF DemoTypes
<1>c. AtStart \in Settings /\ TurnsPerSec \in Nat \ {0} /\ ProducerMax \in Nat \ {0} /\ 0 \in Nat
  BY DefaultsType, DemoBounds
<1>1. DemoTypes'
  <2>1. quiet' \in BOOLEAN
    BY <1>a
  <2>2. shares' \in [Drones -> Nat] /\ ptr' \in Drones /\ owed' \in 0..(TurnsPerSec - 1)
    BY <1>a, <1>c DEF NoShares, Drones
  <2>3. QED
    BY <1>a, <1>b, <1>c, <2>1, <2>2 DEF DemoTypes
<1>2. RateCarried'
  BY <1>a, <1>c DEF RateCarried
<1>3. CursorIsEven'
  <2>1. \E f \in 0..(FleetSize(AtStart) - 1) : \A d \in 0..(FleetSize(AtStart) - 1) :
            NoShares[d] = Ahead(d, f, 0 % FleetSize(AtStart))
    BY <1>c, LevelStart
  <2>2. turn'.with = AtStart
    BY <1>a
  <2>3. QED
    BY <1>a, <2>1, <2>2 DEF CursorIsEven
<1>4. FreshPagesKeepThePause'
  BY <1>a DEF FreshPagesKeepThePause
<1>5. QuietMeansQuiet'
  BY <1>a DEF QuietMeansQuiet
<1>6. QED
  BY <1>1, <1>2, <1>3, <1>4, <1>5

\* The invariant holds initially.
LEMMA InitDemo == DemoInit => DemoInv
<1> SUFFICES ASSUME DemoInit PROVE DemoInv
  OBVIOUS
<1>a. /\ current = Defaults /\ form = Defaults /\ synced = TRUE /\ poller = {}
      /\ live = AtStart /\ turn = [busy |-> FALSE, with |-> AtStart] /\ owed = 0
      /\ ptr = 0 /\ drift = 0 /\ shares = NoShares
      /\ inFlight = {} /\ fleetRows \in SUBSET Drones /\ scenario = {}
      /\ quiet = (fleetRows \subseteq FleetOf(Defaults) /\ FleetOf(AtStart) = FleetOf(Defaults))
      /\ used = [clicks |-> 0, mishaps |-> 0]
  BY DEF DemoInit
<1>b. /\ Defaults \in Settings /\ AtStart \in Settings /\ TurnsPerSec \in Nat \ {0}
      /\ ProducerMax \in Nat \ {0} /\ 0 \in Nat /\ MaxClicks \in Nat /\ MaxMishaps \in Nat
  BY DefaultsType, DemoBounds
<1>1. DemoTypes
  <2>1. quiet \in BOOLEAN
    BY <1>a
  <2>2. shares \in [Drones -> Nat] /\ ptr \in Drones /\ owed \in 0..(TurnsPerSec - 1)
    BY <1>a, <1>b DEF NoShares, Drones
  <2>3. used \in [clicks : 0..MaxClicks, mishaps : 0..MaxMishaps]
    BY <1>a, <1>b
  <2>4. QED
    BY <1>a, <1>b, <2>1, <2>2, <2>3 DEF DemoTypes
<1>2. RateCarried
  BY <1>a, <1>b DEF RateCarried
<1>3. CursorIsEven
  <2>1. \E f \in 0..(FleetSize(AtStart) - 1) : \A d \in 0..(FleetSize(AtStart) - 1) :
            NoShares[d] = Ahead(d, f, 0 % FleetSize(AtStart))
    BY <1>b, LevelStart
  <2>2. turn.with = AtStart
    BY <1>a
  <2>3. QED
    BY <1>a, <2>1, <2>2 DEF CursorIsEven
<1>4. FreshPagesKeepThePause
  BY <1>a DEF FreshPagesKeepThePause
<1>5. QuietMeansQuiet
  BY <1>a DEF QuietMeansQuiet
<1>6. QED
  BY <1>1, <1>2, <1>3, <1>4, <1>5 DEF DemoInv

\* Every step keeps it.
LEMMA DemoStep == DemoInv /\ [DemoNext]_demoVars => DemoInv'
<1> SUFFICES ASSUME DemoInv, [DemoNext]_demoVars PROVE DemoInv'
  OBVIOUS
<1>1. CASE LoadPage \/ RestoreDefaults \/ BackendRestarts \/ Cleanup
  BY <1>1, PageKeepsDemo
<1>2. CASE \E ask \in Asked : Save(ask)
  BY <1>2, SaveKeepsDemo
<1>3. CASE \E here \in BOOLEAN : TogglePause(here)
  BY <1>3, ToggleKeepsDemo
<1>4. CASE \/ ScenarioWrites \/ ScenarioFails
           \/ \E d \in Drones : ScenarioPicks(d) \/ SinkUpserts(d) \/ EventLost(d)
  BY <1>4, TableKeepsDemo
<1>5. CASE PollReads \/ PollFails \/ Apply
  BY <1>5, PollKeepsDemo
<1>6. CASE TakeSettings
  BY <1>6, TakeKeepsDemo
<1>7. CASE SendBatch
  BY <1>7, SendKeepsDemo
<1>8. CASE ProducerRestarts
  BY <1>8, RestartKeepsDemo
<1>9. CASE UNCHANGED demoVars
  BY <1>9 DEF demoVars, DemoInv, DemoTypes, RateCarried, CursorIsEven, FreshPagesKeepThePause,
              QuietMeansQuiet
<1>10. QED
  BY <1>1, <1>2, <1>3, <1>4, <1>5, <1>6, <1>7, <1>8, <1>9 DEF DemoNext, Turn

\* The invariant gives the properties.
LEMMA DemoSuffices == DemoInv => PaceIsKept /\ FreshPagesKeepThePause /\ QuietCleanupSettles
<1> SUFFICES ASSUME DemoInv PROVE PaceIsKept /\ QuietCleanupSettles
  BY DEF DemoInv
<1> USE DEF DemoInv
<1>1. DemoTypeOK
  <2>1. Cardinality(poller) <= 1
    <3>1. CASE poller = {}
      <4>1. Cardinality({}) = 0
        BY FS_EmptySet
      <4>2. QED
        BY <3>1, <4>1
    <3>2. CASE poller # {}
      <4>0. \A s, t \in poller : s = t
        BY DEF DemoTypes
      <4>1. PICK s : poller = {s}
        <5>1. PICK s \in poller : TRUE
          BY <3>2
        <5>2. QED
          BY <4>0, <5>1
      <4>2. Cardinality({s}) = 1
        BY FS_Singleton
      <4>3. QED
        BY <4>1, <4>2
    <3>3. QED
      BY <3>1, <3>2
  <2>2. Cardinality(scenario) <= 1
    <3>1. CASE scenario = {}
      <4>1. Cardinality({}) = 0
        BY FS_EmptySet
      <4>2. QED
        BY <3>1, <4>1
    <3>2. CASE scenario # {}
      <4>1. PICK d : scenario = {d}
        BY <3>2 DEF DemoTypes
      <4>2. Cardinality({d}) = 1
        BY FS_Singleton
      <4>3. QED
        BY <4>1, <4>2
    <3>3. QED
      BY <3>1, <3>2
  <2>3. \A s \in {current, form, live, turn.with} \cup poller :
           /\ s.size \in 1..Max({BackendMax, DefaultSize})
           /\ s.rate \in {ask.rate : ask \in Asked} \cup {DefaultRate} /\ s.paused \in BOOLEAN
    <3>1. {current, form, live, turn.with} \cup poller \subseteq Settings
      BY DEF DemoTypes
    <3>2. QED
      BY <3>1 DEF Settings, Rates
  <2>4. {synced, quiet, turn.busy} \subseteq BOOLEAN
    BY DEF DemoTypes
  <2>5. QED
    BY <2>1, <2>2, <2>3, <2>4 DEF DemoTypeOK, DemoTypes
<1>2. RateIsKept
  <2>1. drift \in Int /\ owed \in 0..(TurnsPerSec - 1) /\ TurnsPerSec \in Nat
    BY DemoBounds DEF DemoTypes
  <2>2. QED
    BY <2>1 DEF RateIsKept, RateCarried
<1>3. EvenCadence
  <2>1. FleetOf(turn.with) = 0..(FleetSize(turn.with) - 1)
    BY FleetType DEF DemoTypes
  <2>2. QED
    BY <2>1 DEF EvenCadence, CursorIsEven, Ahead
<1>4. QuietCleanupSettles
  BY DEF QuietCleanupSettles, QuietMeansQuiet
<1>5. QED
  BY <1>1, <1>2, <1>3, <1>4 DEF PaceIsKept

-----------------------------------------------------------------------------
(* DemoSettings: the theorems *)

\* The invariant of the controls and the producer.
LEMMA DemoInvariant == DemoSpec => []DemoInv
<1>1. DemoInit => DemoInv
  BY InitDemo
<1>2. DemoInv /\ [DemoNext]_demoVars => DemoInv'
  BY DemoStep
<1>3. QED
  BY <1>1, <1>2, PTL DEF DemoSpec

\* Whatever the rate, the turns per second and the fleet, and after any number of
\* turns, changes, pauses and restarts, the produce loop (producer.py) has sent less
\* than one event more or less than its rate was due, and has given no asset of the
\* fleet more than one event more than another.
THEOREM PaceStaysEven == DemoSpec => []PaceIsKept
<1>1. DemoInv => PaceIsKept
  BY DemoSuffices
<1>2. QED
  BY <1>1, DemoInvariant, PTL

\* A page that nobody else has been ahead of since its last answer shows the pause
\* that is in force (settings.py, Settings.tsx), so saving it undoes no pause.
THEOREM PauseIsShown == DemoSpec => []FreshPagesKeepThePause
<1>1. DemoInv => FreshPagesKeepThePause
  BY DemoSuffices
<1>2. QED
  BY <1>1, DemoInvariant, PTL

\* A cleanup (demo.py) with nothing of a retired asset on its way leaves rows of the
\* fleet only, whatever the limits of the backend and the producer, until the size
\* changes.
THEOREM CleanupSettles == DemoSpec => []QuietCleanupSettles
<1>1. DemoInv => QuietCleanupSettles
  BY DemoSuffices
<1>2. QED
  BY <1>1, DemoInvariant, PTL

=============================================================================
