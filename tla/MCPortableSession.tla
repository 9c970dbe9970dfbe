------------------------- MODULE MCPortableSession -------------------------
(* Action shapes for checking PortableSession with TLC: assignments before,  *)
(* after and around a callback, and a callback alone.                        *)
EXTENDS PortableSession

SessionActions ==
  {<<"set">>, <<"call">>, <<"set", "call">>, <<"call", "set">>, <<"set", "call", "set">>}
=============================================================================
