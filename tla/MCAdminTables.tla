---------------------------- MODULE MCAdminTables ----------------------------
(* AdminTables on a small instance. *)
EXTENDS AdminTables

CONSTANTS t1, t2

\* t1's id is the smaller one.
MCBefore(t, u) == t = t1 /\ u = t2

\* A new organization, and one in use.
MCExisting == {{}, Item}
=============================================================================
