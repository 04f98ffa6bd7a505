------------------------------ MODULE Registry ------------------------------
(***************************************************************************)
(* What a collection promises its sources, whatever the network repeats,   *)
(* delays or reorders: a register per device.  A held device is changed by *)
(* an update that supersedes it and by no other; it leaves when somebody   *)
(* deletes it, or when it was suspected of being silent and still is.      *)
(*                                                                         *)
(* There are no batches, locks, sections or indexes here.  Collection is   *)
(* shown to implement it.                                                  *)
(***************************************************************************)
EXTENDS Naturals

CONSTANTS
    Id,       \* external device ids
    Silence,  \* how long a device may have to be silent before it expires
    NONE      \* not held

VARIABLES
    held,     \* held[d]: [ver, seen, what] of a device, or NONE
    suspects, \* devices found silent and not yet looked at again
    now

vars == <<held, suspects, now>>

Held == {d \in Id : held[d] # NONE}

\* A device without a version takes any update, and any other only a newer one:
\* not an equal one, which is a retry, and not one without a version.
Supersedes(new, old) == old.ver = 0 \/ new.ver > old.ver

\* Longer than some allowed silence, if not than the one in force.
Silent(d) == \E t \in Silence : held[d].seen + t < now

Others(d) == \A e \in Id \ {d} : held'[e] = held[e]

Init ==
    /\ held = [d \in Id |-> NONE]
    /\ suspects = {}
    /\ now = 0

Register(d) ==
    /\ held[d] = NONE /\ held'[d] # NONE
    /\ held'[d].seen <= now
    /\ Others(d)
    /\ UNCHANGED <<suspects, now>>

Update(d) ==
    /\ held[d] # NONE /\ held'[d] # NONE
    /\ Supersedes(held'[d], held[d])
    /\ held'[d].seen \in held[d].seen..now
    /\ Others(d)
    /\ UNCHANGED <<suspects, now>>

Delete(d) ==
    /\ held[d] # NONE /\ held'[d] = NONE
    /\ Others(d)
    /\ UNCHANGED <<suspects, now>>

Suspect(ds) ==
    /\ suspects = {}
    /\ \A d \in ds : held[d] # NONE /\ Silent(d)
    /\ suspects' = ds
    /\ UNCHANGED <<held, now>>

\* A suspect that reported in time is spared, and so is one that is gone.
Spare(d) ==
    /\ d \in suspects
    /\ suspects' = suspects \ {d}
    /\ UNCHANGED <<held, now>>

Expire(d) ==
    /\ d \in suspects
    /\ held[d] # NONE /\ Silent(d) /\ held'[d] = NONE
    /\ Others(d)
    /\ suspects' = suspects \ {d}
    /\ UNCHANGED now

Tick ==
    /\ now' = now + 1
    /\ UNCHANGED <<held, suspects>>

Next ==
    \/ \E d \in Id : Register(d) \/ Update(d) \/ Delete(d) \/ Spare(d) \/ Expire(d)
    \/ \E ds \in SUBSET Id : Suspect(ds)
    \/ Tick

Spec == Init /\ [][Next]_vars

=============================================================================
