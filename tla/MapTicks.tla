------------------------------- MODULE MapTicks -------------------------------
(***************************************************************************)
(* What MapManager and MapUpdater promise together, with the threads left  *)
(* out: the world alternates between a serial phase, in which the world    *)
(* thread alone touches the maps (sessions, map creation, DelayedUpdate),  *)
(* and a parallel phase, in which every map that exists gets one turn,     *)
(* each by one thread at a time.                                           *)
(***************************************************************************)
CONSTANT Maps

VARIABLES phase,    \* "serial", "parallel" or "stopped"
          live,     \* the maps that exist
          active,   \* the maps being updated
          done      \* the maps that had their turn in this parallel phase

vars == <<phase, live, active, done>>

Init ==
    /\ phase = "serial"
    /\ live = {} /\ active = {} /\ done = {}

Create(m) ==
    /\ phase = "serial"
    /\ live' = live \cup {m}
    /\ UNCHANGED <<phase, active, done>>

StartTick ==
    /\ phase = "serial" /\ phase' = "parallel"
    /\ done' = {}
    /\ UNCHANGED <<live, active>>

Begin(m) ==
    /\ phase = "parallel"
    /\ m \in live \ (active \cup done)
    /\ active' = active \cup {m}
    /\ UNCHANGED <<phase, live, done>>

Finish(m) ==
    /\ m \in active
    /\ active' = active \ {m}
    /\ done' = done \cup {m}
    /\ UNCHANGED <<phase, live>>

\* An empty instance is destroyed before its turn in the tick, never in it.
Destroy(m) ==
    /\ phase = "parallel"
    /\ m \in live \ (active \cup done)
    /\ live' = live \ {m}
    /\ UNCHANGED <<phase, active, done>>

\* An instance that is due for destruction but still has players loses its
\* turn: nobody updates it in this tick.
Skip(m) ==
    /\ phase = "parallel"
    /\ m \in live \ (active \cup done)
    /\ done' = done \cup {m}
    /\ UNCHANGED <<phase, live, active>>

EndTick ==
    /\ phase = "parallel" /\ phase' = "serial"
    /\ active = {} /\ done = live
    /\ UNCHANGED <<live, active, done>>

Stop ==
    /\ phase = "serial" /\ phase' = "stopped"
    /\ live' = {}
    /\ UNCHANGED <<active, done>>

Next ==
    \/ \E m \in Maps : Create(m) \/ Begin(m) \/ Finish(m) \/ Destroy(m) \/ Skip(m)
    \/ StartTick \/ EndTick \/ Stop

Spec == Init /\ [][Next]_vars
===============================================================================
