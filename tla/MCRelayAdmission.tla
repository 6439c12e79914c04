-------------------------- MODULE MCRelayAdmission --------------------------
(***************************************************************************)
(* Instances of RelayAdmission for TLC.                                    *)
(***************************************************************************)
EXTENDS RelayAdmission, TLC

CONSTANTS o, g1, g2

GuestSymmetry == Permutations({g1, g2})

(* What the admission depends on: not the wording of a failure, nor the    *)
(* two status fields of a finished D record.                               *)
AdmissionView == <<state, memberVars, lastNumber, number, phase, creator, intent, sides,
                   admissionVars, socketVars>>
=============================================================================
