-------------------------- MODULE ConfigFile_proof --------------------------
(***************************************************************************)
(* Whatever file is accepted, of whatever length, from_tunnels makes rules *)
(* of it that serve its tunnels.                                           *)
(***************************************************************************)
EXTENDS ConfigFile, WellFoundedInduction, TLAPS

-----------------------------------------------------------------------------
(* Induction over the natural numbers, for the members of a set.           *)

(* Every set of natural numbers has a least member. *)
LEMMA LeastMember ==
  ASSUME NEW T, T \subseteq Nat, T # {}
  PROVE  \E n \in T : \A m \in T : n <= m
<1> DEFINE R == OpToRel(<, Nat)
<1>1. IsWellFoundedOn(R, Nat)
  BY NatLessThanWellFounded
<1>2. \A i, j \in Nat : <<i, j>> \in R <=> i < j
  BY DEF OpToRel
<1> HIDE DEF R
<1>3. PICK n \in T : \A m \in T : <<m, n>> \notin R
  BY <1>1, WFMin
<1>4. \A m \in T : m \in Nat /\ n \in Nat /\ ~(m < n)
  BY <1>2, <1>3
<1> QED
  BY <1>4

(* A set that has zero and the successor of each of its members has all. *)
LEMMA SetInduction ==
  ASSUME NEW T, 0 \in T, \A n \in Nat : n \in T => n + 1 \in T
  PROVE  Nat \subseteq T
<1> SUFFICES ASSUME Nat \ T # {} PROVE FALSE
  OBVIOUS
<1>1. PICK n \in Nat \ T : \A m \in Nat \ T : n <= m
  BY LeastMember
<1>2. n - 1 \in Nat /\ n - 1 < n
  BY <1>1
<1> QED
  BY <1>1, <1>2

-----------------------------------------------------------------------------
(* Joining sequences.                                                      *)

(* Joining two sequences joins what they hold. *)
LEMMA RangeOfConcat ==
  ASSUME NEW S, NEW a \in Seq(S), NEW b \in Seq(S)
  PROVE  a \o b \in Seq(S) /\ Range(a \o b) = Range(a) \union Range(b)
<1> DEFINE c == a \o b
<1>1. c \in Seq(S) /\ Len(c) = Len(a) + Len(b)
  OBVIOUS
<1>2. \A i \in 1..Len(a) : c[i] = a[i]
  OBVIOUS
<1>3. \A i \in 1..Len(b) : c[Len(a) + i] = b[i]
  OBVIOUS
<1>4. \A i \in 1..Len(c) : i \in 1..Len(a) \/ (i - Len(a) \in 1..Len(b) /\ i = Len(a) + (i - Len(a)))
  BY <1>1
<1> HIDE DEF c
<1>5. DOMAIN a = 1..Len(a) /\ DOMAIN b = 1..Len(b) /\ DOMAIN c = 1..Len(c)
  BY <1>1
<1>6. 1..Len(a) \subseteq 1..Len(c) /\ \A i \in 1..Len(b) : Len(a) + i \in 1..Len(c)
  BY <1>1
<1>7. Range(c) \subseteq Range(a) \union Range(b)
  <2> SUFFICES ASSUME NEW i \in DOMAIN c PROVE c[i] \in Range(a) \union Range(b)
    BY DEF Range
  <2>1. CASE i \in 1..Len(a)
    BY <2>1, <1>2, <1>5 DEF Range
  <2>2. CASE i - Len(a) \in 1..Len(b) /\ i = Len(a) + (i - Len(a))
    <3>1. c[i] = b[i - Len(a)]
      BY <2>2, <1>3
    <3> QED
      BY <2>2, <3>1, <1>5 DEF Range
  <2> QED
    BY <2>1, <2>2, <1>4, <1>5
<1>8. Range(a) \union Range(b) \subseteq Range(c)
  BY <1>2, <1>3, <1>5, <1>6 DEF Range
<1> QED
  BY <1>1, <1>7, <1>8 DEF c

(* What FlattenSeq has joined up to each of n sequences. *)
Joined(f, s, n) == f = [i \in 1..n |-> IF i = 1 THEN s[i] ELSE f[i-1] \o s[i]]

(* What the first n of them hold. *)
Together(s, n) == UNION {Range(s[i]) : i \in 1..n}

(* The recursion of FlattenSeq defines a function. *)
LEMMA JoinExists ==
  ASSUME NEW s, NEW n \in Nat
  PROVE  \E f : Joined(f, s, n)
<1> DEFINE T == {m \in Nat : \E f : Joined(f, s, m)}
<1>1. 0 \in T
  <2>1. Joined([i \in 1..0 |-> s], s, 0)
    BY DEF Joined
  <2> QED
    BY <2>1
<1>2. ASSUME NEW m \in Nat, m \in T PROVE m + 1 \in T
  <2>1. PICK f : Joined(f, s, m)
    BY <1>2
  <2> DEFINE g == [i \in 1..(m + 1) |-> IF i = 1 THEN s[i] ELSE f[i-1] \o s[i]]
  <2>2. \A i \in 1..m : f[i] = IF i = 1 THEN s[i] ELSE f[i-1] \o s[i]
    BY <2>1 DEF Joined
  <2>3. \A i \in 1..(m + 1) : i # 1 => i - 1 \in 1..m /\ i - 1 \in 1..(m + 1)
    OBVIOUS
  <2>4. \A i \in 1..m : i \in 1..(m + 1) /\ g[i] = f[i]
    BY <2>2
  <2>5. \A i \in 1..(m + 1) : g[i] = IF i = 1 THEN s[i] ELSE g[i-1] \o s[i]
    BY <2>3, <2>4
  <2>6. Joined(g, s, m + 1)
    BY <2>5 DEF Joined
  <2> QED
    BY <2>6
<1> HIDE DEF T
<1>3. n \in T
  BY <1>1, <1>2, SetInduction
<1> QED
  BY <1>3 DEF T

(* It holds at each of them what the sequences so far hold. *)
LEMMA JoinHolds ==
  ASSUME NEW S, NEW n \in Nat, NEW s \in [1..n -> Seq(S)], NEW f, Joined(f, s, n)
  PROVE  \A m \in 1..n : f[m] \in Seq(S) /\ Range(f[m]) = Together(s, m)
<1> DEFINE Holds(m) == f[m] \in Seq(S) /\ Range(f[m]) = Together(s, m)
           T == {m \in Nat : m \in 1..n => Holds(m)}
<1>1. \A i \in 1..n : f[i] = IF i = 1 THEN s[i] ELSE f[i-1] \o s[i]
  BY DEF Joined
<1>2. ASSUME NEW m \in Nat, m \in T, m + 1 \in 1..n PROVE Holds(m + 1)
  <2>1. s[m + 1] \in Seq(S)
    BY <1>2
  <2>2. CASE m = 0
    <3>1. f[m + 1] = s[1] /\ s[1] = s[m + 1] /\ 1..(m + 1) = {1}
      BY <2>2, <1>1, <1>2
    <3> QED
      BY <3>1, <2>1 DEF Together
  <2>3. CASE m # 0
    <3>1. m \in 1..n /\ m + 1 # 1 /\ (m + 1) - 1 = m /\ 1..(m + 1) = 1..m \union {m + 1}
      BY <2>3, <1>2
    <3>2. f[m + 1] = f[m] \o s[m + 1]
      BY <3>1, <1>1, <1>2
    <3>3. Holds(m)
      BY <3>1, <1>2
    <3>4. f[m + 1] \in Seq(S) /\ Range(f[m + 1]) = Range(f[m]) \union Range(s[m + 1])
      BY <3>2, <3>3, <2>1, RangeOfConcat
    <3> QED
      BY <3>1, <3>3, <3>4 DEF Together
  <2> QED
    BY <2>2, <2>3
<1> HIDE DEF Holds
<1>3. 0 \in T /\ \A m \in Nat : m \in T => m + 1 \in T
  BY <1>2
<1>4. Nat \subseteq T
  BY <1>3, SetInduction
<1>5. \A m \in 1..n : Holds(m)
  BY <1>4
<1> QED
  BY <1>5 DEF Holds

(* Flattening joins what the sequences hold. *)
LEMMA RangeOfFlattened ==
  ASSUME NEW S, NEW s \in Seq(Seq(S))
  PROVE  FlattenSeq(s) \in Seq(S) /\ Range(FlattenSeq(s)) = Together(s, Len(s))
<1>1. Len(s) \in Nat /\ DOMAIN s = 1..Len(s) /\ s \in [1..Len(s) -> Seq(S)]
  OBVIOUS
<1>2. CASE Len(s) = 0
  <2>1. s = <<>> /\ FlattenSeq(s) = s
    BY <1>2 DEF FlattenSeq
  <2>2. <<>> \in Seq(S) /\ DOMAIN s = {}
    BY <1>1, <1>2
  <2>3. Range(FlattenSeq(s)) = {} /\ Together(s, Len(s)) = {}
    BY <1>1, <2>1, <2>2 DEF Range, Together
  <2> QED
    BY <2>1, <2>2, <2>3
<1>3. CASE Len(s) # 0
  <2> DEFINE n == Len(s)
  <2>1. PICK f : Joined(f, s, n) /\ f = CHOOSE g : Joined(g, s, n)
    BY <1>1, JoinExists
  <2>2. FlattenSeq(s) = f[n]
    BY <1>3, <2>1 DEF FlattenSeq, Joined
  <2>3. n \in Nat /\ s \in [1..n -> Seq(S)] /\ n \in 1..n
    BY <1>1, <1>3
  <2> HIDE DEF n
  <2>4. \A m \in 1..n : f[m] \in Seq(S) /\ Range(f[m]) = Together(s, m)
    BY <2>1, <2>3, JoinHolds
  <2>5. f[n] \in Seq(S) /\ Range(f[n]) = Together(s, n)
    BY <2>3, <2>4
  <2> QED
    BY <2>2, <2>5 DEF n
<1> QED
  BY <1>2, <1>3

-----------------------------------------------------------------------------
(* What the operators of AppConfig and NftRuleset compute.                 *)

(* At most one element, and none if the condition fails. *)
LEMMA RangeOfOptional ==
  ASSUME NEW S, NEW x \in S, NEW keep \in BOOLEAN
  PROVE  /\ (IF keep THEN <<x>> ELSE <<>>) \in Seq(S)
         /\ Range(IF keep THEN <<x>> ELSE <<>>) = IF keep THEN {x} ELSE {}
<1>1. <<x>> \in Seq(S) /\ <<>> \in Seq(S)
  OBVIOUS
<1>2. Range(<<x>>) = {x} /\ Range(<<>>) = {}
  BY DEF Range
<1> QED
  BY <1>1, <1>2

(* enabled_tunnels keeps the tunnels that are enabled, and no other. *)
LEMMA EnabledOnly ==
  ASSUME NEW c, NEW ts \in Seq(TunnelConfig), c.tunnels = ts
  PROVE  /\ EnabledTunnels(c) \in Seq(TunnelConfig)
         /\ Range(EnabledTunnels(c)) = {t \in Range(ts) : t.enabled}
<1> DEFINE s == [i \in DOMAIN ts |-> IF ts[i].enabled THEN <<ts[i]>> ELSE <<>>]
<1>1. EnabledTunnels(c) = FlattenSeq(s)
  BY DEF EnabledTunnels
<1>2. ASSUME NEW i \in DOMAIN ts
      PROVE  s[i] \in Seq(TunnelConfig) /\ Range(s[i]) = IF ts[i].enabled THEN {ts[i]} ELSE {}
  <2>1. ts[i] \in TunnelConfig
    OBVIOUS
  <2>2. ts[i].enabled \in BOOLEAN
    BY <2>1 DEF TunnelConfig
  <2> QED
    BY <2>1, <2>2, RangeOfOptional
<1>3. Len(ts) \in Nat /\ DOMAIN ts = 1..Len(ts) /\ DOMAIN s = DOMAIN ts
  OBVIOUS
<1>4. s = [i \in 1..Len(ts) |-> s[i]]
  BY <1>3
<1> HIDE DEF s
<1>5. s \in Seq(Seq(TunnelConfig)) /\ Len(s) = Len(ts)
  BY <1>2, <1>3, <1>4
<1>6. Together(s, Len(s)) = {t \in Range(ts) : t.enabled}
  <2>1. Range(ts) = {ts[i] : i \in 1..Len(ts)}
    BY <1>3 DEF Range
  <2> QED
    BY <1>2, <1>3, <1>5, <2>1 DEF Together
<1> QED
  BY <1>1, <1>5, <1>6, RangeOfFlattened

(* A tunnel has one rule for each transport it carries. *)
LEMMA RulesOfTunnel ==
  ASSUME NEW t, t.listen \in Address, t.target \in Address
  PROVE  /\ RulesOf(t) \in Seq(Rule)
         /\ Range(RulesOf(t)) = {RuleFor(t, p) : p \in {q \in Transport : Carries(t, q)}}
<1> DEFINE of(p) == IF Carries(t, p) THEN <<RuleFor(t, p)>> ELSE <<>>
<1>1. ASSUME NEW p \in Transport
      PROVE  of(p) \in Seq(Rule) /\ Range(of(p)) = IF Carries(t, p) THEN {RuleFor(t, p)} ELSE {}
  <2>1. RuleFor(t, p) \in Rule
    BY DEF RuleFor, Rule
  <2>2. Carries(t, p) \in BOOLEAN
    BY DEF Carries
  <2> QED
    BY <2>1, <2>2, RangeOfOptional
<1>2. "tcp" \in Transport /\ "udp" \in Transport /\ \A p \in Transport : p = "tcp" \/ p = "udp"
  BY DEF Transport
<1>3. RulesOf(t) = of("tcp") \o of("udp")
  BY DEF RulesOf
<1> HIDE DEF of
<1>4. RulesOf(t) \in Seq(Rule) /\ Range(RulesOf(t)) = Range(of("tcp")) \union Range(of("udp"))
  BY <1>1, <1>2, <1>3, RangeOfConcat
<1> QED
  BY <1>1, <1>2, <1>4

(* from_tunnels makes the rules of all tunnels, and of no other. *)
LEMMA Built ==
  ASSUME NEW ts \in Seq(TunnelConfig),
         \A i \in DOMAIN ts : ts[i].listen \in Address /\ ts[i].target \in Address /\ Ipv4Only(ts[i])
  PROVE  /\ FromTunnels(ts) \in Ruleset
         /\ Range(FromTunnels(ts).rules) = UNION {Range(RulesOf(t)) : t \in Range(ts)}
         /\ FromTunnels(ts).masquerade_targets = {t.target.ip : t \in Range(ts)} \ Loopback
<1> DEFINE s == [i \in DOMAIN ts |-> RulesOf(ts[i])]
           m == {ts[i].target.ip : i \in DOMAIN ts} \ Loopback
<1>1. FromTunnels(ts) = [rules |-> FlattenSeq(s), masquerade_targets |-> m]
  BY DEF FromTunnels
<1>2. \A i \in DOMAIN ts : s[i] = RulesOf(ts[i]) /\ s[i] \in Seq(Rule)
  BY RulesOfTunnel
<1>3. Len(ts) \in Nat /\ DOMAIN ts = 1..Len(ts) /\ DOMAIN s = DOMAIN ts
  OBVIOUS
<1>4. s = [i \in 1..Len(ts) |-> s[i]]
  BY <1>3
<1> HIDE DEF s
<1>5. s \in Seq(Seq(Rule)) /\ Len(s) = Len(ts)
  BY <1>2, <1>3, <1>4
<1>6. Together(s, Len(s)) = UNION {Range(RulesOf(t)) : t \in Range(ts)}
  <2>1. Range(ts) = {ts[i] : i \in 1..Len(ts)}
    BY <1>3 DEF Range
  <2> QED
    BY <1>2, <1>3, <1>5, <2>1 DEF Together
<1>7. m = {t.target.ip : t \in Range(ts)} \ Loopback
  BY DEF Range
<1>8. m \in SUBSET Ipv4
  BY DEF Ipv4Only
<1> HIDE DEF m
<1>9. FlattenSeq(s) \in Seq(Rule) /\ Range(FlattenSeq(s)) = UNION {Range(RulesOf(t)) : t \in Range(ts)}
  BY <1>5, <1>6, RangeOfFlattened
<1> QED
  BY <1>1, <1>7, <1>8, <1>9 DEF Ruleset

-----------------------------------------------------------------------------
(* Every file that can be written.                                         *)

(* What is in the file is a document, however often it is written to. *)
LEMMA Documents == FileSpec => [](config \in Document)
<1>1. Init => config \in Document
  BY DEF Init, DefaultConfig, Document, AppMode
<1>2. config \in Document /\ [Next]_config => (config \in Document)'
  <2> SUFFICES ASSUME config \in Document, [Next]_config PROVE config' \in Document
    OBVIOUS
  <2>1. CASE SwitchMode
    BY <2>1 DEF SwitchMode, Document, AppMode
  <2>2. ASSUME NEW t \in Written, Write(t) PROVE config' \in Document
    <3>1. Append(config.tunnels, t) \in Seq(TunnelConfig)
      BY WrittenAssumption DEF Document
    <3> QED
      BY <2>2, <3>1 DEF Write, Document
  <2>3. CASE UNCHANGED config
    BY <2>3
  <2> QED
    BY <2>1, <2>2, <2>3 DEF Next
<1> QED
  BY <1>1, <1>2, PTL DEF FileSpec

(* What validate has seen to when a file is accepted in nft mode. *)
LEMMA Checked ==
  ASSUME config \in Document, Accepted, NEW ts, ts = EnabledTunnels(config)
  PROVE  /\ ts \in Seq(TunnelConfig)
         /\ Range(ts) = {t \in Range(config.tunnels) : t.enabled}
         /\ \A i \in DOMAIN ts : ts[i].listen \in Address /\ ts[i].target \in Address /\ Ipv4Only(ts[i])
         /\ DistinctEndpoints(ts)
<1>1. config.tunnels \in Seq(TunnelConfig)
  BY DEF Document
<1>2. ts \in Seq(TunnelConfig) /\ Range(ts) = {t \in Range(config.tunnels) : t.enabled}
  BY <1>1, EnabledOnly
<1>3. Valid(config) /\ config.mode = "nft"
  BY DEF Accepted, LoadForRuntime, Parse
<1>4. \A t \in Range(ts) : t.listen \in Address /\ t.target \in Address
  BY <1>2, <1>3 DEF Valid, ValidTunnel, Range
<1>5. \A i \in DOMAIN ts : ts[i].listen \in Address /\ ts[i].target \in Address
  BY <1>4 DEF Range
<1>6. (\A i \in DOMAIN ts : Ipv4Only(ts[i])) /\ DistinctEndpoints(ts)
  BY <1>3 DEF Valid, ValidateNftMode
<1> QED
  BY <1>2, <1>5, <1>6

(* So the rules are those of the enabled tunnels. *)
LEMMA RulesOfFile ==
  ASSUME config \in Document, Accepted, NEW ruleset, ruleset = FromTunnels(EnabledTunnels(config))
  PROVE  /\ ruleset \in Ruleset
         /\ Range(ruleset.rules) = UNION {Range(RulesOf(t)) : t \in Range(EnabledTunnels(config))}
         /\ ruleset.masquerade_targets = {t.target.ip : t \in Range(EnabledTunnels(config))} \ Loopback
         /\ \A h \in Hook : TableFor(EnabledTunnels(config)).dnat[h] = ruleset.rules
         /\ TableFor(EnabledTunnels(config)).targets = ruleset.masquerade_targets
<1>1. /\ ruleset \in Ruleset
      /\ Range(ruleset.rules) = UNION {Range(RulesOf(t)) : t \in Range(EnabledTunnels(config))}
      /\ ruleset.masquerade_targets = {t.target.ip : t \in Range(EnabledTunnels(config))} \ Loopback
  BY Checked, Built
<1>2. <<>> \o ruleset.rules = ruleset.rules
  BY <1>1 DEF Ruleset
<1>3. \A h \in Hook : TableFor(EnabledTunnels(config)).dnat[h] = ruleset.rules
  BY <1>2 DEF TableFor, AddTo, EmptyTable
<1>4. TableFor(EnabledTunnels(config)).targets = ruleset.masquerade_targets
  BY DEF TableFor, AddTo, EmptyTable
<1> QED
  BY <1>1, <1>3, <1>4

(* What validate accepts, from_tunnels can build. *)
THEOREM Buildable == FileSpec => []AcceptedIsBuildable
<1>1. config \in Document => AcceptedIsBuildable
  BY RulesOfFile, ResultAssumption DEF AcceptedIsBuildable
<1> QED
  BY <1>1, Documents, PTL

(* No two enabled tunnels receive the same packets. *)
LEMMA OneReceiver ==
  ASSUME config \in Document, Accepted, NEW p \in Transport, NEW d \in Address,
         NEW t1 \in Receivers(p, d), NEW t2 \in Receivers(p, d)
  PROVE  t1 = t2
<1> DEFINE ts == EnabledTunnels(config)
<1>1. Range(ts) = {t \in Range(config.tunnels) : t.enabled} /\ DistinctEndpoints(ts)
  BY Checked
<1> HIDE DEF ts
<1>2. PICK i \in DOMAIN ts, j \in DOMAIN ts : t1 = ts[i] /\ t2 = ts[j]
  BY <1>1 DEF Receivers, Range
<1>3. t1.listen = t2.listen /\ Carries(t1, p) /\ Carries(t2, p)
  BY DEF Receivers
<1> QED
  BY <1>1, <1>2, <1>3 DEF DistinctEndpoints

(* Each packet is translated to the tunnel that should receive it. *)
LEMMA Translated ==
  ASSUME config \in Document, Accepted, NEW h \in Hook, NEW p \in Transport, NEW d \in Address,
         NEW to, to = Translate(TableFor(EnabledTunnels(config)), h, p, d)
  PROVE  {t.target : t \in Receivers(p, d)} = {to} \ {NoTarget}
<1> DEFINE ts == EnabledTunnels(config)
           chain == FromTunnels(ts).rules
           matching == {i \in DOMAIN chain : chain[i].transport = p /\ chain[i].listen = d}
<1>1. /\ Range(ts) = {t \in Range(config.tunnels) : t.enabled}
      /\ \A t \in Range(ts) : t.listen \in Address /\ t.target \in Address
  BY Checked DEF Range
<1>2. /\ chain \in Seq(Rule)
      /\ Range(chain) = UNION {Range(RulesOf(t)) : t \in Range(ts)}
      /\ TableFor(ts).dnat[h] = chain
  BY RulesOfFile DEF Ruleset
<1>3. to = IF matching = {} THEN NoTarget
           ELSE chain[CHOOSE i \in matching : \A j \in matching : i <= j].target
  BY <1>2 DEF Translate
<1>4. matching \subseteq Nat
  BY <1>2
<1>5. ASSUME NEW i \in matching
      PROVE  \E t \in Receivers(p, d) : chain[i].target = t.target
  <2>1. chain[i] \in Range(chain) /\ chain[i].transport = p /\ chain[i].listen = d
    BY DEF Range
  <2> HIDE DEF ts, chain, matching
  <2>2. PICK t \in Range(ts) : chain[i] \in Range(RulesOf(t))
    BY <1>2, <2>1
  <2>3. PICK q \in Transport : Carries(t, q) /\ chain[i] = RuleFor(t, q)
    BY <1>1, <2>2, RulesOfTunnel
  <2> QED
    BY <1>1, <2>1, <2>2, <2>3 DEF RuleFor, Receivers
<1>6. ASSUME NEW t \in Receivers(p, d)
      PROVE  matching # {}
  <2>1. t \in Range(ts) /\ Carries(t, p) /\ t.listen = d
    BY <1>1 DEF Receivers
  <2> HIDE DEF ts, chain
  <2>2. RuleFor(t, p) \in Range(chain)
    BY <1>1, <1>2, <2>1, RulesOfTunnel
  <2>3. PICK i \in DOMAIN chain : chain[i] = RuleFor(t, p)
    BY <2>2 DEF Range
  <2>4. i \in matching
    BY <2>1, <2>3 DEF RuleFor
  <2> QED
    BY <2>4
<1> HIDE DEF ts, chain, matching
<1>7. CASE matching = {}
  BY <1>3, <1>6, <1>7
<1>8. CASE matching # {}
  <2>1. \E i \in matching : \A j \in matching : i <= j
    BY <1>4, <1>8, LeastMember
  <2>2. PICK i \in matching : to = chain[i].target
    BY <1>3, <1>8, <2>1
  <2>3. PICK t \in Receivers(p, d) : to = t.target
    BY <1>5, <2>2
  <2>4. t.target \in Address
    BY <1>1 DEF Receivers
  <2>5. \A u \in Receivers(p, d) : u = t
    BY OneReceiver
  <2> QED
    BY <2>3, <2>4, <2>5, ResultAssumption
<1> QED
  BY <1>7, <1>8

(* The rules serve the enabled tunnels, in whatever order the file has     *)
(* them, and nothing else.                                                 *)
THEOREM Serve == FileSpec => []RulesServeTunnels
<1>1. config \in Document => RulesServeTunnels
  BY Translated DEF RulesServeTunnels
<1> QED
  BY <1>1, Documents, PTL

(* The same of any document: what a table that is installed whole does,    *)
(* and that no table is needed where there is no rule.                     *)
LEMMA ServesDocument ==
  config \in Document /\ Accepted =>
    /\ RulesServeTunnels
    /\ TableFor(EnabledTunnels(config)) \in Table
    /\ IsEmpty(FromTunnels(EnabledTunnels(config))) =>
         \A h \in Hook, p \in Transport, d \in Address :
           Translate(TableFor(EnabledTunnels(config)), h, p, d) = NoTarget
<1> SUFFICES ASSUME config \in Document, Accepted
             PROVE  /\ RulesServeTunnels
                    /\ TableFor(EnabledTunnels(config)) \in Table
                    /\ IsEmpty(FromTunnels(EnabledTunnels(config))) =>
                         \A h \in Hook, p \in Transport, d \in Address :
                           Translate(TableFor(EnabledTunnels(config)), h, p, d) = NoTarget
  OBVIOUS
<1> DEFINE table == TableFor(EnabledTunnels(config))
           ruleset == FromTunnels(EnabledTunnels(config))
<1>1. RulesServeTunnels
  BY Translated DEF RulesServeTunnels
<1>2. ruleset \in Ruleset /\ (\A h \in Hook : table.dnat[h] = ruleset.rules) /\ table.targets = ruleset.masquerade_targets
  BY RulesOfFile
<1>3. table = [dnat |-> [h \in Hook |-> <<>> \o ruleset.rules], targets |-> {} \union ruleset.masquerade_targets]
  BY DEF TableFor, AddTo, EmptyTable
<1> HIDE DEF table, ruleset
<1>4. table \in Table
  BY <1>2, <1>3 DEF Ruleset, Table
<1>5. ASSUME IsEmpty(ruleset), NEW h \in Hook, NEW p \in Transport, NEW d \in Address
      PROVE  Translate(table, h, p, d) = NoTarget
  BY <1>2, <1>5 DEF IsEmpty, Translate
<1> QED
  BY <1>1, <1>4, <1>5 DEF table, ruleset
=============================================================================
