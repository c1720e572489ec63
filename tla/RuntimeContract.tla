---------------------------- MODULE RuntimeContract ----------------------------
(***************************************************************************)
(* What a runtime object promises its program, however the calls of        *)
(* start() and shutdown() overlap:                                         *)
(*                                                                         *)
(*   - it makes one engine in its life, for one start(), which serves what *)
(*     was registered before the first start(); every other start() fails; *)
(*   - the engine goes up and down once;                                   *)
(*   - a shutdown() stops an engine whose start() has resolved and waits   *)
(*     for it; it does nothing only if there is none such, or another      *)
(*     shutdown() has it.                                                  *)
(***************************************************************************)
CONSTANTS Names, Starts, Stops, NONE

VARIABLES
  call,     \* a call is idle, called, resolved or rejected
  early,    \* names registered before the first start()
  engine,   \* none, starting, running, stopping or stopped
  serves,   \* what the engine serves
  maker,    \* the start() that made it, or NONE
  stopper   \* the shutdown() that stops it, or NONE

vars == <<call, early, engine, serves, maker, stopper>>

Calls == Starts \cup Stops

Init ==
  /\ call = [c \in Calls |-> "idle"]
  /\ early = {}
  /\ engine = "none"
  /\ serves = {}
  /\ maker = NONE
  /\ stopper = NONE

Becomes(c, from, to) == call[c] = from /\ call' = [call EXCEPT ![c] = to]

Register(n) ==
  /\ \A s \in Starts : call[s] = "idle"
  /\ early' = early \cup {n}
  /\ UNCHANGED <<call, engine, serves, maker, stopper>>

Call(c) ==
  /\ Becomes(c, "idle", "called")
  /\ UNCHANGED <<early, engine, serves, maker, stopper>>

Make(s) ==
  /\ call[s] = "called" /\ engine = "none"
  /\ engine' = "starting"
  /\ maker' = s
  /\ serves' \in SUBSET Names /\ early \subseteq serves'
  /\ UNCHANGED <<call, early, stopper>>

Up ==
  /\ engine = "starting" /\ engine' = "running"
  /\ UNCHANGED <<call, early, serves, maker, stopper>>

StartResolves(s) ==
  /\ maker = s /\ engine = "running"
  /\ Becomes(s, "called", "resolved")
  /\ UNCHANGED <<early, engine, serves, maker, stopper>>

StartFails(s) ==
  /\ maker \notin {s, NONE}
  /\ Becomes(s, "called", "rejected")
  /\ UNCHANGED <<early, engine, serves, maker, stopper>>

Stop(d) ==
  /\ call[d] = "called"
  /\ engine = "running" /\ call[maker] = "resolved"
  /\ engine' = "stopping"
  /\ stopper' = d
  /\ UNCHANGED <<call, early, serves, maker>>

Down ==
  /\ engine = "stopping" /\ engine' = "stopped"
  /\ UNCHANGED <<call, early, serves, maker, stopper>>

NothingToStop == maker = NONE \/ call[maker] # "resolved"

ShutdownResolves(d) ==
  /\ \/ stopper = d /\ engine = "stopped"
     \/ stopper \notin {d, NONE}
     \/ stopper = NONE /\ NothingToStop
  /\ Becomes(d, "called", "resolved")
  /\ UNCHANGED <<early, engine, serves, maker, stopper>>

Next ==
  \/ \E n \in Names : Register(n)
  \/ \E c \in Calls : Call(c)
  \/ \E s \in Starts : Make(s) \/ StartResolves(s) \/ StartFails(s)
  \/ \E d \in Stops : Stop(d) \/ ShutdownResolves(d)
  \/ Up \/ Down

Spec == Init /\ [][Next]_vars
=============================================================================
