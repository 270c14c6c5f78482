-------------------------- MODULE MCBackgroundTasks --------------------------
(***************************************************************************)
(* Small instances of the loops that run beside everything else: the live  *)
(* embedder, the CDC tail, and the producer with the settings it polls.    *)
(* They share nothing, so a behaviour is one of them; the others rest.     *)
(***************************************************************************)
EXTENDS LiveEmbedder, CdcTail, DemoSettings

CONSTANTS a1, a2

VARIABLE task

taskVars == <<embedderVars, tailVars, demoVars, task>>

TwoAssets == <<a1, a2>>

\* Down to two assets at another rate, and more than the backend or the producer
\* has room for.
TwoSettings == {[size |-> 2, rate |-> 3], [size |-> 5, rate |-> 1]}

\* At rest: no texts, no topic, and every asset has its row.
TasksInit ==
    /\ EmbedderInit /\ TailInit /\ DemoInit
    /\ task \in {"embedder", "tail", "producer"}
    /\ task # "embedder" => snippet = Nothing /\ stored = Nothing
    /\ fleetRows = IF task = "producer" THEN {} ELSE Drones

Embedder == task = "embedder" /\ EmbedderNext /\ UNCHANGED <<tailVars, demoVars, task>>
CdcTask  == task = "tail" /\ TailNext /\ UNCHANGED <<embedderVars, demoVars, task>>
Producer == task = "producer" /\ DemoNext /\ UNCHANGED <<embedderVars, tailVars, task>>

TasksNext == Embedder \/ CdcTask \/ Producer

\* The fairness of each specification, of the task that runs.
TasksFairness ==
    /\ WF_embedderVars(task = "embedder" /\ Embedding)
    /\ WF_tailVars(task = "tail" /\ Tailing)
    /\ WF_demoVars(task = "producer" /\ (PollReads \/ Apply))
    /\ WF_demoVars(task = "producer" /\ Turn)
    /\ \A d \in Drones : WF_demoVars(task = "producer" /\ SinkUpserts(d))

TasksSpec == TasksInit /\ [][TasksNext]_taskVars /\ TasksFairness

=============================================================================
