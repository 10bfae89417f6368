------------------------------ MODULE Ownership ------------------------------
(***************************************************************************)
(* What StorageMedium promises, without its mechanism: an owner holds at   *)
(* most one handle, every handle made is held by exactly one owner, and a  *)
(* handle stops being owed the moment its owner lets go of it.             *)
(***************************************************************************)
EXTENDS Naturals, FiniteSets

CONSTANTS
  Owners,  \* who can hold a handle
  Things,  \* what a handle can be a handle of
  None     \* holding nothing

VARIABLES
  holds,   \* holds[o]: the thing o holds a handle of, or None
  owed     \* owed[t]: handles of t that were made and not yet released

vars == <<holds, owed>>

Init ==
  /\ holds = [o \in Owners |-> None]
  /\ owed = [t \in Things |-> 0]

\* An owner holding nothing receives a new handle of t.
Acquire(o, t) ==
  /\ holds[o] = None
  /\ holds' = [holds EXCEPT ![o] = t]
  /\ owed' = [owed EXCEPT ![t] = @ + 1]

\* An owner lets go of its handle, which is released.
Release(o) ==
  /\ holds[o] # None
  /\ holds' = [holds EXCEPT ![o] = None]
  /\ owed' = [owed EXCEPT ![holds[o]] = @ - 1]

\* An owner receives a new handle of t in exchange for the one it holds.
Exchange(o, t) ==
  /\ holds[o] # None
  /\ holds' = [holds EXCEPT ![o] = t]
  /\ owed' = [u \in Things |->
                owed[u] + (IF u = t THEN 1 ELSE 0)
                        - (IF u = holds[o] THEN 1 ELSE 0)]

Next ==
  \E o \in Owners :
    \/ Release(o)
    \/ \E t \in Things : Acquire(o, t) \/ Exchange(o, t)

Spec == Init /\ [][Next]_vars

=============================================================================
