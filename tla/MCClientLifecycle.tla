--------------------------- MODULE MCClientLifecycle ---------------------------
(* One application thread; a module that is initialised up to twice. *)
EXTENDS ClientLifecycle
=============================================================================
