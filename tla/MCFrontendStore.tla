--------------------------- MODULE MCFrontendStore ----------------------------
(* FrontendStore on small instances: the bounds are those of the cfg files.    *)
EXTENDS FrontendStore
==============================================================================
