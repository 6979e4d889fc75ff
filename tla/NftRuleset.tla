----------------------------- MODULE NftRuleset -----------------------------
(***************************************************************************)
(* NftRuleset of src/src/nft.rs: the NAT rules made of a list of tunnels,  *)
(* and what feeding the rendered script to nft does to a table.            *)
(***************************************************************************)
EXTENDS AppConfig

CONSTANTS Loopback,   \* the addresses of 127.0.0.0/8
          NoRuleset,  \* the error of from_tunnels
          NoTable,    \* the kernel has no table of ours
          NoTarget    \* no rule matches

ASSUME LoopbackAssumption == Loopback \subseteq Ipv4

Hook == {"prerouting", "output"}

Rule == [transport : Transport, listen : Address, target : Address]

Ruleset == [rules : Seq(Rule), masquerade_targets : SUBSET Ipv4]

(* A table keeps the dnat rules of each hook in order, and the addresses   *)
(* whose traffic is masqueraded.                                           *)
Table == [dnat : [Hook -> Seq(Rule)], targets : SUBSET Ipv4]

EmptyTable == [dnat |-> [h \in Hook |-> <<>>], targets |-> {}]

-----------------------------------------------------------------------------
RuleFor(t, p) == [transport |-> p, listen |-> t.listen, target |-> t.target]

(* Mutant of RulesOf: the udp branch is an "else" of the tcp branch. *)
RulesOf_EitherOr(t) ==
  IF Carries(t, "tcp") THEN <<RuleFor(t, "tcp")>> ELSE <<RuleFor(t, "udp")>>

RulesOf(t) ==
  (IF Carries(t, "tcp") THEN <<RuleFor(t, "tcp")>> ELSE <<>>) \o
  (IF Carries(t, "udp") THEN <<RuleFor(t, "udp")>> ELSE <<>>)

FromTunnels(ts) ==
  IF \A i \in DOMAIN ts : ts[i].listen \in Address /\ ts[i].target \in Address /\ Ipv4Only(ts[i])
  THEN [rules |-> FlattenSeq([i \in DOMAIN ts |-> RulesOf(ts[i])]),
        masquerade_targets |-> {ts[i].target.ip : i \in DOMAIN ts} \ Loopback]
  ELSE NoRuleset

IsEmpty(ruleset) == ruleset.rules = <<>>

(* render_script: "add" commands, which append the rules to both chains    *)
(* and extend the set of a table that already exists.                      *)
AddTo(table, ruleset) ==
  [dnat |-> [h \in Hook |-> table.dnat[h] \o ruleset.rules],
   targets |-> table.targets \union ruleset.masquerade_targets]

-----------------------------------------------------------------------------
(* How the kernel translates the destination of a packet: the first rule   *)
(* of the chain that matches decides.                                      *)
Translate(table, hook, transport, destination) ==
  LET chain == table.dnat[hook]
      matching == {i \in DOMAIN chain : chain[i].transport = transport /\ chain[i].listen = destination}
  IN IF matching = {}
     THEN NoTarget
     ELSE chain[CHOOSE i \in matching : \A j \in matching : i <= j].target

(* The table that serves a list of tunnels, and nothing else. *)
TableFor(ts) == AddTo(EmptyTable, FromTunnels(ts))
=============================================================================
