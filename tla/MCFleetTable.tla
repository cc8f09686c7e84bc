---------------------------- MODULE MCFleetTable -----------------------------
(***************************************************************************)
(* FleetTable on a fleet of four meters, two pages of two.                 *)
(***************************************************************************)
EXTENDS FleetTable

FleetMeter(i, w, h, s) == [id |-> i, windows |-> w, hits |-> h, status |-> s]
MCFleetMeters ==
  <<FleetMeter("m1", {"7D", "30D"}, {"x"}, "connected"), FleetMeter("m2", {"30D"}, {"x"}, "disconnected"),
    FleetMeter("m3", {"7D", "30D"}, {}, "connected"), FleetMeter("m4", {"30D"}, {"x"}, "connected")>>
=============================================================================
