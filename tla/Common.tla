-------------------------------- MODULE Common --------------------------------
(***************************************************************************)
(* The one value all modules of the driver share.                          *)
(***************************************************************************)
CONSTANT None   \* Python's None
===============================================================================
