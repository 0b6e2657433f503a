--------------------------- MODULE MCConfigBuilder ---------------------------
(* ConfigBuilder on a small instance. *)
EXTENDS ConfigBuilder

CONSTANTS t1, t2

\* An organization in use; t2 is yet to be created.
MCExisting == {Item \ {t2}}

\* t1's id is the smaller one.
MCBefore(t, u) == t = t1 /\ u = t2
=============================================================================
