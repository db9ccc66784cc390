--------------------------- MODULE MCEntitlement ---------------------------
(***************************************************************************)
(* The entitlement engine in one run.  `part` says what a behaviour is      *)
(* about: "serial" calls never overlap and complete (setup, job, button, new *)
(* employee, recalculation, policy changes); "racing" calls overlap and may  *)
(* die between two statements; "daily" is the arithmetic of one year.        *)
(***************************************************************************)
EXTENDS EntitlementProperties

CONSTANTS ann, bob, casual
VARIABLE part

allVars == <<evars, year, part>>

(* A leave year of four days: two "months" or one "quarter". *)
MCStep == [f \in {"MONTHLY", "QUARTERLY"} |-> IF f = "MONTHLY" THEN 2 ELSE 4]
MCHired == {<<ann, 0>>}
MCOpening == {<<ann, casual>>}
MCQuotas == {100, 400, 600, 1500}
MCStarts == 0..9

Monthly == [freq |-> "MONTHLY", quota |-> 400, cap |-> 300, active |-> TRUE]
MCRetired == {Monthly, [Monthly EXCEPT !.active = FALSE]}

(* The bounds of a part. *)
Serial ==
    \A h \in Handlers : handler'[h] # handler[h] =>
      handler'[h].pc # "failed" /\ (handler[h].pc = "idle" => Busy = {})
Racing ==
    /\ \A h \in Handlers : h > 2 => handler'[h] = Resting
    /\ \A k \in Keys, y \in YearsCovered : row'[k][y].used = 0
    /\ types' = types /\ goLive' = goLive

MCInit ==
    /\ part \in {"serial", "racing", "daily"}
    /\ EInit /\ goLive = 0
    /\ part # "serial" => \A t \in LeaveTypes : types[t] = Monthly
    /\ IF part = "daily" THEN CreditsInit ELSE year = NoAccrual

MCNext ==
    /\ \/ part = "serial" /\ ENext /\ Serial /\ UNCHANGED year
       \/ part = "racing" /\ ENext /\ Racing /\ UNCHANGED year
       \/ part = "daily" /\ (RunCredits \/ NextDay) /\ UNCHANGED evars
    /\ UNCHANGED part
MCSpec == MCInit /\ [][MCNext]_allVars

(* Calls that do not overlap leave balances equal to the ledger, credit each *)
(* period once and carry unused days once.                                  *)
CreditsAddUp == part = "serial" => AccruedIsLedger /\ CreditedOnce /\ CarriedOnce
=============================================================================
