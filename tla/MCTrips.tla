-------------------------------- MODULE MCTrips --------------------------------
(* Trips on its own: one trip made on the device, one the server has.          *)
EXTENDS Trips

===============================================================================
