---------------------------- MODULE RecentReads ----------------------------
(***************************************************************************)
(* What the identity cache promises: rows change at any time, and a        *)
(* request is decided on values each of which was the row's value not      *)
(* longer ago than Slack.  Nothing is said of instances, caches or         *)
(* lookups.                                                                *)
(***************************************************************************)
EXTENDS Integers

CONSTANTS
    Keys,     \* what is cached
    Slack,    \* how old a value may be when it decides
    Horizon   \* bound on time

VARIABLES
    clock,
    row,      \* the value of each key now
    lastTrue, \* when each value of each key was last the row's value
    served,   \* the values the latest decision used, by key
    turn      \* flips with every decision

recentVars == <<clock, row, lastTrue, served, turn>>

Recent(vals) == \A k \in Keys : lastTrue[k][vals[k]] >= clock - Slack

RecentInit ==
    /\ clock = 0 /\ served = row /\ turn \in BOOLEAN
    /\ \A k \in Keys : \A v \in DOMAIN lastTrue[k] :
         lastTrue[k][v] = IF v = row[k] THEN 0 ELSE -1 - Slack

RecentTick ==
    /\ clock < Horizon /\ clock' = clock + 1
    /\ lastTrue' = [k \in Keys |-> [lastTrue[k] EXCEPT ![row[k]] = clock + 1]]
    /\ UNCHANGED <<row, served, turn>>

RecentWrite(k) ==
    /\ \E v \in DOMAIN lastTrue[k] :
         row' = [row EXCEPT ![k] = v] /\ lastTrue' = [lastTrue EXCEPT ![k][v] = clock]
    /\ UNCHANGED <<clock, served, turn>>

RecentServe ==
    /\ Recent(served') /\ turn' = ~turn
    /\ UNCHANGED <<clock, row, lastTrue>>

RecentNext == RecentTick \/ (\E k \in Keys : RecentWrite(k)) \/ RecentServe
RecentSpec == RecentInit /\ [][RecentNext]_recentVars
=============================================================================
