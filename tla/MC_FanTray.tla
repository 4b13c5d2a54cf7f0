------------------------------ MODULE MC_FanTray ------------------------------
(***************************************************************************)
(* Trays 1 and 2 share output register 1; tray 3 is alone on register 0.  *)
(* /tmp/ver holds an old (0xff) or a new (1) board version.               *)
(***************************************************************************)
EXTENDS FanTray

MC_SharedTrays == {1, 2}
MC_TwoBanks == {2, 3}
MC_OneVersion == {1}
MC_OutZero == {0}
MC_Versions == {1, 255}
MC_OutInit == {0, 255}
=============================================================================
