--------------------------- MODULE MCSparkClient ---------------------------
(***************************************************************************)
(* Small instances of the two clients of one connection each: the Spark    *)
(* client, as both instances of its class, and the SQL console's.  They    *)
(* share nothing, so a behaviour is one of them; the other rests.          *)
(***************************************************************************)
EXTENDS SparkClient, SqlConsole, TLC

VARIABLE side

clientVars == <<vars, consoleVars, side>>

TwoParents == <<"drones", "zones">>
OneChild   == <<"flights">>

\* The same threads on either side; every property is a safety property.
UserSymmetry == Permutations(Users \cup Callers)

ClientsInit ==
    /\ side \in {"spark", "console"}
    /\ Init /\ ConsoleInit
    /\ side = "spark" => up /\ rows = [t \in Register |-> "absent"]
    /\ side = "console" => registers

ClientsNext ==
    \/ side = "spark" /\ Next /\ UNCHANGED <<consoleVars, side>>
    \/ side = "console" /\ ConsoleNext /\ UNCHANGED <<vars, side>>

ClientsSpec == ClientsInit /\ [][ClientsNext]_clientVars

=============================================================================
