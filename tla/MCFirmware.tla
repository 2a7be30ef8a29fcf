----------------------------- MODULE MCFirmware -----------------------------
(* Instances of Firmware for TLC: images of two units in chunks of one or *)
(* two, so that a chunk may repeat, skip, overlap or overflow.             *)
EXTENDS Firmware

MCSizes == {2}
MCSmall == {1}
=============================================================================
