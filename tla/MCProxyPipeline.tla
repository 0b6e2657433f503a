--------------------------- MODULE MCProxyPipeline ---------------------------
(***************************************************************************)
(* Two organizations sharing a route name.  o1's source has a guard in     *)
(* each phase; its workspace configs differ in chains, shadow mode, the    *)
(* input guard's scope, and in what was revoked or disabled.  o2's source  *)
(* is unguarded.                                                           *)
(***************************************************************************)
EXTENDS ProxyPipeline, TLC

CONSTANTS o1, o2, k1, k2, h1, h2, g1, t0, t1, route

MCKeyOrg == (k1 :> o1) @@ (k2 :> o2)
MCWebhookOrg == (h1 :> o1) @@ (h2 :> o2)

NoGuards == [attached |-> {}, failOpen |-> {}, shadow |-> {}, criteria |-> "all", threshold |-> 0]
Enforced == [NoGuards EXCEPT !.attached = {g1}]
Lenient == [Enforced EXCEPT !.failOpen = {g1}]
Shadowed == [Enforced EXCEPT !.shadow = {g1}]
MCConfigs == {NoGuards, Enforced, Lenient, Shadowed}

MCSource(o, on, ic, oc, ip, op) ==
  [org |-> o, route |-> route, enabled |-> on, inChain |-> ic, outChain |-> oc,
   inPhase |-> ip, outPhase |-> op, wide |-> {}]

Guarded == MCSource(o1, TRUE, <<"fail_closed", "fail_open">>, <<"fail_closed">>, Enforced, Lenient)
Edited == [MCSource(o1, TRUE, <<"fail_open">>, <<"fail_open", "fail_closed">>, Shadowed, Enforced)
             EXCEPT !.wide = {g1}]
Disabled == [Guarded EXCEPT !.enabled = FALSE]
Open == MCSource(o2, TRUE, <<>>, <<>>, NoGuards, NoGuards)

\* The last user message alone, before, after and between others, and none.
Says(t) == [role |-> "user", text |-> t]
Told(t) == [role |-> "other", text |-> t]
MCConversation ==
  {<<>>, <<Says(t1)>>, <<Told(t1), Says(t0)>>, <<Says(t0), Says(t1), Told(t0)>>, <<Told(t1)>>}

MCWorkspace ==
  {[keys |-> {k1, k2}, sources |-> {Guarded, Open}, webhooks |-> {h1, h2}],
   [keys |-> {k1, k2}, sources |-> {Edited, Open}, webhooks |-> {h2}],
   [keys |-> {k2}, sources |-> {Disabled, Open}, webhooks |-> {h1, h2}]}
=============================================================================
