---------------------------- MODULE MCPaidTime ------------------------------
(***************************************************************************)
(* What decides the paid time of a day in Odoo: the PTO conversions of     *)
(* absences and the corrections of payroll work entries, checked side by   *)
(* side.  They share no row here, so a behaviour is one of either; the     *)
(* other one stays at its beginning.                                       *)
(***************************************************************************)
EXTENDS PayrollGuard, AbsencePto

VARIABLE on       \* what the behaviour is about, see PaidInit

\* One worker, and other people act too, and Odoo is slow; the constants have two
\* workers.
LonePto == INSTANCE AbsencePto WITH
    Workers <- {"w1"}, MaxDays <- 1, MaxPtoFaults <- 1,
    MaxSubmits <- 1

\* One process, and attendance changes too; the constants have two processes, with
\* payroll staff at the work entries.
LonePayroll == INSTANCE PayrollGuard WITH
    Procs <- {"g1"}, MaxDur <- 5,
    Edits <- {"duration", "validate", "attendance"}, MaxFaults <- 1

PtoRests == LonePto!PtoInit /\ days = 1 /\ orig = "none"
PayrollRests ==
    /\ LonePayroll!Init /\ ents[1].dur = 0
    /\ att = [reg |-> 0, raw |-> 0, val |-> 0, ok |-> TRUE, paid |-> 0]

PaidInit ==
    \/ on = "pto" /\ PtoInit /\ PayrollRests
    \/ on = "lone pto" /\ LonePto!PtoInit /\ PayrollRests
    \/ on = "payroll" /\ Init /\ PtoRests
    \/ on = "lone payroll" /\ LonePayroll!Init /\ PtoRests

PaidNext ==
    \/ on = "pto" /\ PtoNext /\ UNCHANGED <<on, vars>>
    \/ on = "lone pto" /\ LonePto!PtoNext /\ UNCHANGED <<on, vars>>
    \/ on = "payroll" /\ Next /\ UNCHANGED <<on, ptoVars>>
    \/ on = "lone payroll" /\ LonePayroll!Next /\ UNCHANGED <<on, ptoVars>>

\* As in the live specification of each of them.
PaidSpec ==
    /\ PaidInit /\ [][PaidNext]_<<on, ptoVars, vars>>
    /\ WF_ptoVars(on = "lone pto" /\ LonePto!Lapse)
    /\ WF_ptoVars(on = "lone pto" /\ LonePto!LandLate)
    /\ WF_ptoVars(on = "lone pto" /\ LonePto!PtoStep("w1"))
    /\ WF_ptoVars(/\ on = "lone pto" /\ req.state \in {"converting", "needs_review"}
                  /\ LonePto!Claim("w1"))
    /\ WF_ptoVars(on = "lone pto" /\ LonePto!ReviewAfterRollover)
    /\ WF_vars(on = "lone payroll" /\ LonePayroll!Begin("g1"))
    /\ WF_vars(/\ on = "lone payroll"
               /\ LonePayroll!Step("g1") \/ LonePayroll!MutateFails("g1"))

\* Two workers are followed while nobody else acts and no call outlives a lease.
Bounded == on = "pto" => Calm

(***************************************************************************)
(* The liveness of both, each part stated in the module of its component.  *)
(***************************************************************************)
\* A conversion never stays half done (absence_pto_review.py:704-742); a review
\* whose task could be delivered ends once one approved day of PTO is there
\* (absence_pto_review.py:582-618); a
\* day with the defect is corrected or held for review
\* (payroll_work_entry_guard.py:299).
PaidTimeSettles ==
    /\ on = "lone pto" => LonePto!ConversionEnds
    /\ on = "lone pto" => LonePto!PaidReviewEnds
    /\ on = "lone payroll" => LonePayroll!DefectSettles
=============================================================================
