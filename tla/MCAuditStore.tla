----------------------------- MODULE MCAuditStore -----------------------------
(* AuditStore on a small instance. *)
EXTENDS AuditStore

CONSTANTS s1, s2, m1, m2

\* A request rejected on its input has no model; m2 has no price.
MCEntry(i) ==
  CASE i = 1 -> [source |-> s1, result |-> "pass", model |-> m1, tokens |-> 2]
    [] i = 2 -> [source |-> s2, result |-> "fail", model |-> NoModel, tokens |-> 0]
    [] i = 3 -> [source |-> s2, result |-> "fail", model |-> m2, tokens |-> 1]
MCPriced == {m1}

\* Everything, and what one source rejected at one time.
MCFilters == {[source |-> {}, status |-> {}, from |-> {}, to |-> {}],
              [source |-> {s2}, status |-> {"fail"}, from |-> {1}, to |-> {1}]}
=============================================================================
