--------------------------- MODULE MCImageUpdates ---------------------------
(***************************************************************************)
(* The options of image, service and controller, in this order: applied      *)
(* automatically after a backup, and without one.                          *)
(***************************************************************************)
EXTENDS ImageUpdates

MCUpdateOptions ==
  {[autoApply |-> <<"unset", "on", "off">>, backup |-> <<"unset", "unset", "on">>],
   [autoApply |-> <<"on", "off", "unset">>, backup |-> <<"off", "on", "on">>]}
=============================================================================
