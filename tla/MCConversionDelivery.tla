------------------------ MODULE MCConversionDelivery ------------------------
(* Small instances of ConversionDelivery: logs, workers and operators are  *)
(* model values; every bound is a constant of the cfg.                     *)
EXTENDS ConversionDelivery
=============================================================================
