------------------------------ MODULE AppConfig ------------------------------
(***************************************************************************)
(* AppConfig and TunnelConfig of src/src/config.rs: what a configuration   *)
(* file holds, which of them are accepted, and what loading one returns.   *)
(*                                                                         *)
(* A document holds its values as they are parsed, those left out of the   *)
(* file included.  An address that parses as a SocketAddr is a record of   *)
(* an ip and a port; text that does not parse is BadAddress.               *)
(***************************************************************************)
EXTENDS Naturals, Sequences, SequencesExt

CONSTANTS TunnelName,  \* the names a file may give a tunnel
          BlankName,   \* those that are empty after trimming
          Ipv4, Ipv6,  \* ip addresses
          AnyIpv4,     \* 0.0.0.0
          Port,
          BadAddress,  \* text that is not a socket address
          NoConfig,    \* the error of a load
          Missing,     \* there is no file
          Blank,       \* the file is empty or white space
          Malformed    \* the file cannot be read, or is not such a YAML document

ASSUME BlankNameAssumption == BlankName \subseteq TunnelName
ASSUME IpAssumption == AnyIpv4 \in Ipv4 /\ Ipv4 \intersect Ipv6 = {}

Protocol == {"tcp", "udp", "both"}

Transport == {"tcp", "udp"}

AppMode == {"socket", "nft"}

Address == [ip : Ipv4 \union Ipv6, port : Port]

TunnelConfig ==
  [name : TunnelName, listen : Address \union {BadAddress},
   target : Address \union {BadAddress}, protocol : Protocol, enabled : BOOLEAN]

(* What a file may hold that parses. *)
Document == [daemon_log : BOOLEAN, mode : AppMode, tunnels : Seq(TunnelConfig)]

(* AppConfig::default, which is not what a file that leaves out all of its *)
(* keys is parsed as: there the log is enabled.                            *)
DefaultConfig == [daemon_log |-> FALSE, mode |-> "socket", tunnels |-> <<>>]

ASSUME AddressAssumption == BadAddress \notin Address
ASSUME LoadAssumption == NoConfig # DefaultConfig

-----------------------------------------------------------------------------
(* Protocol::supports_tcp and Protocol::supports_udp. *)
Carries(t, p) == t.protocol \in {p, "both"}

EnabledTunnels(config) ==
  LET ts == config.tunnels IN
  FlattenSeq([i \in DOMAIN ts |-> IF ts[i].enabled THEN <<ts[i]>> ELSE <<>>])

ValidTunnel(t) ==
  /\ t.name \notin BlankName
  /\ t.listen \in Address
  /\ t.target \in Address

DistinctNames(ts) ==
  \A i, j \in DOMAIN ts : i # j => ts[i].name # ts[j].name

(* Tunnels may share a listen address if they share no transport. *)
DistinctEndpoints(ts) ==
  \A i, j \in DOMAIN ts :
    i # j /\ ts[i].listen = ts[j].listen => \A p \in Transport : ~(Carries(ts[i], p) /\ Carries(ts[j], p))

Ipv4Only(t) ==
  /\ t.listen.ip \in Ipv4
  /\ t.target.ip \in Ipv4
  /\ t.listen.ip # AnyIpv4

(* Mutant of ValidateNftMode: listening on 0.0.0.0 is let through. *)
ValidateNftMode_AllowsAny(config) ==
  LET ts == EnabledTunnels(config) IN
  /\ \A i \in DOMAIN ts : ts[i].listen.ip \in Ipv4 /\ ts[i].target.ip \in Ipv4
  /\ DistinctEndpoints(ts)

(* Only the tunnels that are enabled have to suit nft. *)
ValidateNftMode(config) ==
  LET ts == EnabledTunnels(config) IN
  /\ \A i \in DOMAIN ts : Ipv4Only(ts[i])
  /\ DistinctEndpoints(ts)

Valid(config) ==
  /\ \A i \in DOMAIN config.tunnels : ValidTunnel(config.tunnels[i])
  /\ DistinctNames(config.tunnels)
  /\ config.mode = "nft" => ValidateNftMode(config)

Parse(file) == IF file # Malformed /\ Valid(file) THEN file ELSE NoConfig

(* The daemon and the foreground process insist on a configuration ... *)
LoadForRuntime(file) == IF file \in {Missing, Blank} THEN NoConfig ELSE Parse(file)

(* ... and the editor starts from the default one. *)
LoadOrDefault(file) == IF file \in {Missing, Blank} THEN DefaultConfig ELSE Parse(file)
=============================================================================
