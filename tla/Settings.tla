------------------------------- MODULE Settings -------------------------------
(***************************************************************************)
(* The configuration of the proxy (src/src/config.rs): built-in defaults,  *)
(* overlaid by the keys of a TOML file, overlaid by the flags of the       *)
(* command line, then validated; and the authenticator that is built from  *)
(* it (src/src/session/auth.rs).                                           *)
(*                                                                         *)
(* A command line is a function from the fields it names to values.  A     *)
(* file is a record of sections, each a record of the keys it sets.  An    *)
(* entry of auth_basic is <<user, password>>, or <<text>> when it has no   *)
(* colon.                                                                  *)
(***************************************************************************)
EXTENDS Integers, Sequences

CONSTANTS None, PoolV4      \* an unset option; the default IPv4 pool

MinMtu == 1280

\* The fields that decide whether the proxy starts and what it answers; the
\* others are overlaid by the same code and only passed on.
Default ==
    [cert |-> None, key |-> None, ipv4_pool |-> PoolV4, ipv6_pool |-> None,
     mtu |-> 1400, split_routes |-> <<>>, tun |-> FALSE, nat_interface |-> None,
     max_sessions |-> 1000, auth_mode |-> "none", auth_token |-> {}, auth_basic |-> {},
     client_ca |-> None, udp_bind |-> FALSE, udp_bind_public_ips |-> {},
     udp_bind_port_lo |-> 32768, udp_bind_port_hi |-> 60999]

Field == DOMAIN Default

\* The section and key of the file that sets a field.
FileKey ==
    [cert |-> <<"server", "tls_cert">>, key |-> <<"server", "tls_key">>,
     tun |-> <<"tunnel", "enabled">>, mtu |-> <<"tunnel", "mtu">>,
     ipv4_pool |-> <<"address_pool", "ipv4_range">>,
     ipv6_pool |-> <<"address_pool", "ipv6_range">>,
     split_routes |-> <<"routing", "split_routes">>,
     nat_interface |-> <<"routing", "nat_interface">>,
     auth_mode |-> <<"auth", "mode">>, auth_token |-> <<"auth", "bearer_tokens">>,
     auth_basic |-> <<"auth", "basic_credentials">>, client_ca |-> <<"auth", "client_ca">>,
     max_sessions |-> <<"limits", "max_sessions">>,
     udp_bind |-> <<"udp_bind", "enabled">>, udp_bind_public_ips |-> <<"udp_bind", "public_ips">>,
     udp_bind_port_lo |-> <<"udp_bind", "port_lo">>, udp_bind_port_hi |-> <<"udp_bind", "port_hi">>]

InFile(file, f) ==
    /\ f \in DOMAIN FileKey
    /\ FileKey[f][1] \in DOMAIN file
    /\ FileKey[f][2] \in DOMAIN file[FileKey[f][1]]
FromFile(file, f) == file[FileKey[f][1]][FileKey[f][2]]

\* FileConfig is deserialized with deny_unknown_fields.
FileParses(file) ==
    \A s \in DOMAIN file : \A k \in DOMAIN file[s] : \E f \in DOMAIN FileKey : FileKey[f] = <<s, k>>

\* FileConfig::apply.
Apply(config, file) ==
    [f \in Field |-> IF InFile(file, f) THEN FromFile(file, f) ELSE config[f]]

\* Mutant of OverlayCli: a list on the command line is added to that of the file.
OverlayCli_Extends(config, cli) ==
    [f \in Field |-> IF f \notin DOMAIN cli THEN config[f]
                     ELSE IF f \in {"auth_token", "auth_basic"} THEN config[f] \cup cli[f]
                     ELSE cli[f]]

OverlayCli(config, cli) ==
    [f \in Field |-> IF f \in DOMAIN cli THEN cli[f] ELSE config[f]]

\* clap: --cert and --key require each other.
ClapAccepts(cli) == "cert" \in DOMAIN cli <=> "key" \in DOMAIN cli

\* ProxyConfig::resolve_from, of a command line and the file it names, if any.
Resolves(cli, file) == ClapAccepts(cli) /\ (file # None => FileParses(file))
Resolve(cli, file) ==
    OverlayCli(IF file = None THEN Default ELSE Apply(Default, file), cli)

HasColon(entry) == Len(entry) = 2

\* ProxyConfig::validate.
Validate(c) ==
    /\ c.mtu >= MinMtu
    /\ c.auth_mode = "bearer" => c.auth_token # {}
    /\ c.auth_mode = "basic" => c.auth_basic # {}
    /\ c.auth_mode = "mtls" => c.client_ca # None
    /\ \A entry \in c.auth_basic : HasColon(entry)
    /\ c.udp_bind => /\ c.auth_mode # "none"
                     /\ c.udp_bind_public_ips # {}
                     /\ c.udp_bind_port_lo <= c.udp_bind_port_hi
    /\ c.nat_interface # None => c.tun

-------------------------------------------------------------------------------
(***************************************************************************)
(* Who gets in.  A client presents an Authorization header, None or a      *)
(* record of its scheme and value, and may hold a certificate, which the   *)
(* TLS handshake asks for and verifies in mode mtls only.                  *)
(***************************************************************************)

\* main: the handshake that the TLS configuration admits, and the certificate
\* that the connection then has.
Handshakes(c, cert) == c.auth_mode = "mtls" => (cert # None /\ cert = c.client_ca)
PeerCert(c, cert) == IF c.auth_mode = "mtls" THEN cert ELSE None

\* authorization_value.
Presented(header, scheme) == header # None /\ header.scheme = scheme

Authenticate(c, header, peerCert) ==
    CASE c.auth_mode = "none"   -> TRUE
      [] c.auth_mode = "bearer" -> Presented(header, "bearer") /\ header.value \in c.auth_token
      [] c.auth_mode = "basic"  -> /\ Presented(header, "basic")
                                   /\ HasColon(header.value)
                                   /\ header.value \in c.auth_basic
      [] c.auth_mode = "mtls"   -> peerCert # None
===============================================================================
