------------------------------- MODULE Requests -------------------------------
(***************************************************************************)
(* What the request handlers of nexus-service-main have in common: each    *)
(* call of a client runs on a thread of its own, and MySQL, Redis or the   *)
(* process itself may fail between any two of its steps.                   *)
(***************************************************************************)
EXTENDS Integers, FiniteSets

CONSTANTS
    Users,
    Calls,       \* calls of clients; each is served at most once
    CallerOf,    \* [Calls -> Users]
    MaxFaults    \* bound on exceptions, crashes and lost responses

ASSUME UsersFinite == IsFiniteSet(Users)
ASSUME CallsFinite == IsFiniteSet(Calls)
ASSUME CallerOfType == CallerOf \in [Calls -> Users]
ASSUME MaxFaultsType == MaxFaults \in Nat

VARIABLE faults  \* faults so far

Fault == faults < MaxFaults /\ faults' = faults + 1
=============================================================================
