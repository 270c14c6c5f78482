------------------------------- MODULE MCIngest -------------------------------
(***************************************************************************)
(* Small instances of what the two ends of the topic compute: the controls *)
(* and the pace of the producer that sends the events, and the tracker and *)
(* the alerts of the sink that reads them.  A behaviour is one of the two; *)
(* the other rests.                                                        *)
(***************************************************************************)
EXTENDS ZoneAlerts, DemoSettings, TLC

VARIABLE side

sideVars == <<alertVars, demoVars, side>>

TwoZones == <<"north", "south">>

\* A square, a sliver inside it that ends where it began, and a corner.
Polygons ==
    [text \in {"block", "wedge", "ell", "line"} |->
        CASE text = "block" -> << <<0, 0>>, <<0, 12>>, <<12, 12>>, <<12, 0>> >>
          [] text = "wedge" -> << <<7, 6>>, <<6, 8>>, <<9, 9>>, <<7, 6>> >>
          [] text = "ell"   -> << <<0, 0>>, <<12, 0>>, <<12, 4>>, <<4, 4>>, <<4, 12>>, <<0, 12>> >>
          [] text = "line"  -> << <<0, 0>>, <<0, 12>> >>]

InsideAndFar == {<<6, 6>>, <<40, 4>>}

\* Inside, outside, on edges and corners, and at the warning distance.
Places == {0, 3, 6, 7, 12} \X {0, 2, 6, 8, 12, 32}

\* Down to two assets at another rate, and more than the backend or the producer
\* has room for.
TwoSettings == {[size |-> 2, rate |-> 3], [size |-> 5, rate |-> 1]}

IngestInit ==
    /\ AlertsInit /\ DemoInit
    /\ side \in {"alerts", "controls"}
    /\ zones = [z \in Zones |-> [text |-> IF z = "north" THEN "block" ELSE "wedge",
                                 enabled |-> TRUE]]
    /\ fleetRows = {}

Alerting    == side = "alerts" /\ AlertsNext /\ UNCHANGED <<demoVars, side>>
Controlling == side = "controls" /\ DemoNext /\ UNCHANGED <<alertVars, side>>

IngestNext == Alerting \/ Controlling

IngestSpec == IngestInit /\ [][IngestNext]_sideVars

=============================================================================
