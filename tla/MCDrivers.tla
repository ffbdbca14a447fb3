------------------------------ MODULE MCDrivers -------------------------------
(***************************************************************************)
(* Register operations on two registers of every kind of device.  Those of *)
(* a paged PHY are the same register on two pages, those of an xrs differ  *)
(* in the upper half of their address.                                     *)
(***************************************************************************)
EXTENDS MdioOps

SomeRegisters(kind) ==
  CASE kind = "phy"              -> {0, 1}
    [] kind = "mmd"              -> {1, 13}
    [] kind \in {"mva", "mscc"}  -> {0, 65536}
    [] kind \in {"mvls", "mvls1"} -> {MVLS_REG(MVLS_G1, 1), MVLS_REG(16, 3)}
    [] kind = "xrs"              -> {4, 65540}
===============================================================================
