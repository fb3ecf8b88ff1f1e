---------------------------- MODULE MCModbusClient ----------------------------
(***************************************************************************)
(* Instances of ModbusClient for TLC.                                      *)
(***************************************************************************)
EXTENDS ModbusClient

CONSTANTS a, v, w, c
===============================================================================
