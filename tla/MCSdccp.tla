-------------------------------- MODULE MCSdccp --------------------------------
(***************************************************************************)
(* Instances of Sdccp for TLC.                                             *)
(***************************************************************************)
EXTENDS Sdccp, TLC

\* Two variables of one device, three of two devices; two kinds of report.
OneDevice  == <<1, 1>>
TwoDevices == <<1, 1, 2>>
RealAndMin == <<"real", "min">>
RealOnly   == <<"real">>
===============================================================================
