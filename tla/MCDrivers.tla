----------------------------- MODULE MCDrivers -----------------------------
(***************************************************************************)
(* The connection path for TLC.  The devices: a classic printer, a cheap   *)
(* dual-mode one, a BLE printer, a BLE device that does not say what it    *)
(* is, a headset, and a printer whose services are not resolved yet.       *)
(***************************************************************************)
EXTENDS Drivers

MCDeviceModels ==
    {[look |-> "printer", services |-> {"spp"}],
     [look |-> "printer", services |-> {"spp", "ble"}],
     [look |-> "printer", services |-> {"ble", "other"}],
     [look |-> "unclear", services |-> {"ble"}],
     [look |-> "not_printer", services |-> {"other"}],
     [look |-> "printer", services |-> {}]}

\* The cheap dual-mode printer, whose bearer changes when it is paired, alone.
DualModePrinter == {[look |-> "printer", services |-> {"spp", "ble"}]}

\* The same, and a printer whose services are not resolved yet.
SharedPrinters == DualModePrinter \cup {[look |-> "printer", services |-> {}]}
=============================================================================
