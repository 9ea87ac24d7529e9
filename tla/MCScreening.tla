----------------------------- MODULE MCScreening -----------------------------
(* Instances of Screening for TLC.                                            *)
EXTENDS Screening

AllCalls == {"upload", "edit", "record", "submit", "request", "bank", "locate", "pause",
             "replace", "adminEdit", "approveDocument", "withdraw", "approve", "setApproval",
             "setApplication", "lift", "allow", "penalty"}
=============================================================================
