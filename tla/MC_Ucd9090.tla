------------------------------ MODULE MC_Ucd9090 ------------------------------
(***************************************************************************)
(* One or two voltage rails beside the "poweroff.events" key. VOUT_MODE    *)
(* 20 is the linear exponent -12 and 0 the exponent 0. Two clock units     *)
(* make one second, so two faults may share a timestamp.                   *)
(***************************************************************************)
EXTENDS Ucd9090

MC_OneRail == {"vmon.1v0"}
MC_TwoRails == {"vmon.1v0", "vmon.3v3"}
MC_Page1 == [r \in MC_OneRail |-> 1]
MC_Page2 == [r \in MC_TwoRails |-> IF r = "vmon.1v0" THEN 1 ELSE 2]
MC_Modes == {0, 20}
MC_Mants == {1, 2}
MC_OneMant == {1}
=============================================================================
