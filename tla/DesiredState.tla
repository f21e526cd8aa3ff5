---------------------------- MODULE DesiredState ----------------------------
(***************************************************************************)
(* What users.json says and what is generated from it                      *)
(* (tools/kvnlib/commands/implementation.py, protocols/sni, protocols/xray *)
(* and the operations of portal/control): the users with their systems,    *)
(* SNI and tunnel addresses, the SNI routes, the site and its certificate; *)
(* the nginx map, the configurations of the services, and the files and    *)
(* subscriptions of the clients.  An operation prepares and checks the     *)
(* state, saves it and renders the files, in the order of its caller, and  *)
(* may end between two files.                                              *)
(*                                                                         *)
(* The state is a record; a user who is not there has no systems.  A       *)
(* secret is a number.  Lists of SNI are sets: the order of their elements *)
(* decides nothing that the checks let pass.  The address of the server is *)
(* an IP that is known (server_geo) when the server has a name.            *)
(***************************************************************************)
EXTENDS Integers, FiniteSets, Sequences

CONSTANTS
    Names,              \* bound: names of users
    Domains,            \* bound: domains that an operation names
    SystemChoices,      \* bound: the sets of systems that a user is given
    NewServers,         \* bound: the systems of the first user, and whether the SNI routes were configured
    Devices,            \* bound: of "ios", "android" and "windows"
    RouteChoices,       \* bound: the systems whose routes are changed
    MainDomain,         \* the name of the server, the first domain of its certificate
    SiteChoices,        \* bound: the sets of domains that certificates are issued for
    Hosts,              \* the addresses of a tunnel network, without that of the server
    Secrets,            \* bound: keys and tokens
    Breaks,             \* bound: the files after which an operation may end early
    MaxOperations,      \* bound
    MaxFaults           \* bound: operations that end early

ASSUME DesiredAssumption ==
    /\ Hosts \subseteq Nat \ {0} /\ Secrets \subseteq Nat \ {0}
    /\ MaxOperations \in Nat /\ MaxFaults \in Nat
    /\ \A S \in SiteChoices : MainDomain \in S /\ "" \notin S
    /\ "" \notin Domains /\ MainDomain # ""
    /\ \A server \in NewServers : server.configured \in BOOLEAN
    /\ Devices \subseteq {"ios", "android", "windows"}

VARIABLES
    state,          \* users.json
    files,          \* what is generated
    whole,          \* the files are those of the state
    operations, faults

desiredVars == <<state, files, whole, operations, faults>>

(***************************************************************************)
(* Systems.                                                                *)
(***************************************************************************)

REALITY_SYSTEMS == {"reality-xhttp", "reality-tcp"}
MTPROTO_SYSTEMS == {"telemt", "mtg"}
TUNNELS == {"amneziawg", "wireguard"}
USER_SNI_OVERRIDE_SYSTEMS == REALITY_SYSTEMS \cup {"tls", "hysteria"}
NGINX_ROUTED_SYSTEMS == REALITY_SYSTEMS \cup MTPROTO_SYSTEMS \cup {"tls"}
SNI_ROUTE_SYSTEMS == NGINX_ROUTED_SYSTEMS \cup {"hysteria"}
Xray == REALITY_SYSTEMS \cup {"tls"}

ASSUME RouteAssumption == RouteChoices \subseteq SNI_ROUTE_SYSTEMS

DEFAULT_SNIS == [s \in SNI_ROUTE_SYSTEMS |->
    CASE s = "tls" -> "www.microsoft.com" [] s = "reality-xhttp" -> "github.com" [] s = "reality-tcp" -> "apple.com"
      [] s = "hysteria" -> "www.apple.com" [] s = "telemt" -> "yandex.com" [] s = "mtg" -> "ya.ru"]

\* A backend is named by its system; the site is 127.0.0.1:8443.
Site == "site"
LOCAL_REALITY_TARGET == "nginx:8443"

DEVICE_PROFILES == [d \in Devices |-> [s \in {"tls", "hysteria"} |->
    CASE d = "ios" -> IF s = "tls" THEN "www.apple.com" ELSE "gateway.icloud.com"
      [] d = "android" -> IF s = "tls" THEN "www.android.com" ELSE "www.gstatic.com"
      [] d = "windows" -> IF s = "tls" THEN "www.microsoft.com" ELSE "www.apple.com"]]

REALITY_XHTTP_COMPAT_SNIS ==
    {"github.com", "miu.com", "android.com", "cloudflare.com", "apple.com", "www.github.com", "www.bing.com"}

(***************************************************************************)
(* Reading the state.                                                      *)
(***************************************************************************)

NoUser == [enabled |-> FALSE, systems |-> {}, overrides |-> <<>>, device |-> "", key |-> 0, token |-> 0,
           address |-> [t \in TUNNELS |-> 0]]
user_systems(st, n) == st.users[n].systems
Present(st) == {n \in Names : user_systems(st, n) # {}}
enabled_users(st) == {n \in Present(st) : st.users[n].enabled}
Having(st, system) == {n \in enabled_users(st) : system \in user_systems(st, n)}

system_sni(st, system) == st.routes[system].default
route_server_names(st, system) == {system_sni(st, system)} \cup st.routes[system].aliases
route_sni_choices(st, system) == IF st.routes[system].set THEN route_server_names(st, system) ELSE {}
user_sni(st, n, system) ==
    IF system \in USER_SNI_OVERRIDE_SYSTEMS \cap DOMAIN st.users[n].overrides
    THEN st.users[n].overrides[system] ELSE system_sni(st, system)

\* The domains of the site, without those that a MTProto service answers for with it.
site_domains(st) == st.site \ {system_sni(st, s) : s \in st.local_site}

reality_mode(st, system) == st.routes[system].reality_mode
reality_target(st, system) ==
    IF reality_mode(st, system) = "self-steal" THEN LOCAL_REALITY_TARGET ELSE system_sni(st, system)
reality_xhttp_server_names(st) ==
    IF reality_mode(st, "reality-xhttp") = "self-steal"
    THEN route_server_names(st, "reality-xhttp") \cap site_domains(st)
    ELSE st.reality_xhttp_server_names
ServerNames(st, system) ==
    IF system = "reality-xhttp" THEN reality_xhttp_server_names(st) ELSE route_server_names(st, system)

\* A domain of the site belongs to the only Reality backend that steals it.
site_route_destination(st, domain) ==
    LET candidates == {s \in REALITY_SYSTEMS :
                          /\ reality_mode(st, s) = "self-steal" /\ system_sni(st, s) \in site_domains(st)
                          /\ domain \in route_sni_choices(st, s)}
    IN  IF Cardinality(candidates) = 1 THEN CHOOSE s \in candidates : TRUE ELSE Site

OcservSni(st) == IF st.ocserv_sni = "" THEN {} ELSE {st.ocserv_sni} \ site_domains(st)
ocserv_public_tcp_port(st) == IF st.ocserv_sni # "" /\ OcservSni(st) = {} THEN "direct" ELSE "443"

(***************************************************************************)
(* Who claims which SNI at the router, in the order of the claims.         *)
(***************************************************************************)

Claim(sni, dest, rank) == [sni |-> sni, dest |-> dest, rank |-> rank]
RouteClaims(st) == UNION {{Claim(d, s, 1) : d \in route_sni_choices(st, s)} : s \in NGINX_ROUTED_SYSTEMS}
UserClaims(st, users, systems, dest) ==
    UNION {{Claim(st.users[n].overrides[s], dest[s], 2) :
            s \in NGINX_ROUTED_SYSTEMS \cap DOMAIN st.users[n].overrides \cap systems[n]} : n \in users}
CustomClaims(st) == {Claim(c.sni, c.dest, 3) : c \in st.custom}
OcservClaims(st) == {Claim(d, "ocserv", 4) : d \in OcservSni(st)}
SiteClaims(st) == {Claim(d, site_route_destination(st, d), 5) : d \in site_domains(st)}

\* The nginx map: the first claim stands.
all_sni_aliases(st) ==
    LET claims == RouteClaims(st)
                  \cup UserClaims(st, enabled_users(st), [n \in Names |-> user_systems(st, n)],
                                  [s \in NGINX_ROUTED_SYSTEMS |-> s])
                  \cup CustomClaims(st) \cup OcservClaims(st) \cup SiteClaims(st)
    IN  [d \in {c.sni : c \in claims} |->
            LET those == {c \in claims : c.sni = d}
            IN  (CHOOSE c \in those : \A e \in those : c.rank <= e.rank).dest]

(***************************************************************************)
(* prepare_state.                                                          *)
(***************************************************************************)

\* The overrides of systems that the user does not have go.
validate_user(user) ==
    [user EXCEPT !.overrides = [s \in DOMAIN @ \cap USER_SNI_OVERRIDE_SYSTEMS \cap user.systems |-> @[s]]]

\* A route that is named by an operation has its default among its aliases.
ensure_sni_route(st, system) ==
    [st EXCEPT !.routes[system].set = TRUE, !.routes[system].aliases = @ \cup {system_sni(st, system)}]

\* A domain of the site is no alias of TLS.  An unknown SNI of a user becomes an alias.
Adopted(st, s, used) ==
    LET unknown == used \ route_sni_choices(st, s)
    IN  IF unknown = {} THEN st ELSE [ensure_sni_route(st, s) EXCEPT !.routes[s].aliases = @ \cup unknown]
validate_state_inputs(st) ==
    LET users == [n \in Names |-> validate_user(st.users[n])]
        Used(s) == {users[n].overrides[s] : n \in {m \in Names : s \in DOMAIN users[m].overrides}}
        normal == [st EXCEPT !.users = users, !.routes["tls"].aliases = @ \ site_domains(st)]
    IN  Adopted(Adopted(Adopted(Adopted(normal, "tls", Used("tls")), "hysteria", Used("hysteria")),
                        "reality-tcp", Used("reality-tcp")), "reality-xhttp", Used("reality-xhttp"))

\* apply_device_profile; overwrite also replaces what is set.
apply_device_profile(user, device, overwrite) ==
    [user EXCEPT !.device = IF device \in Devices THEN device ELSE "",
                 !.overrides = IF device \notin Devices THEN @
                               ELSE [s \in DOMAIN user.overrides \cup {"tls", "hysteria"} |->
                                   IF s \in {"tls", "hysteria"} /\ (overwrite \/ s \notin DOMAIN user.overrides)
                                   THEN DEVICE_PROFILES[device][s] ELSE user.overrides[s]]]

reapply_device_profiles(st) ==
    LET Reapplied(user) == IF user.device \in Devices THEN apply_device_profile(user, user.device, FALSE) ELSE user
    IN  [st EXCEPT !.users = [n \in Names |-> Reapplied(st.users[n])]]

\* Mutant: only the addresses of users who have the tunnel are taken.
TakenByHaving(st, t) == {st.users[n].address[t] : n \in {m \in Present(st) : t \in user_systems(st, m)}}

\* The addresses of all users are taken, of those too who no longer have the tunnel.
Taken(st, t) == {st.users[n].address[t] : n \in Present(st)}

\* The next address that is free; 0 when there is none.
next_client_address(st, t) ==
    LET free == Hosts \ Taken(st, t)
    IN  IF free = {} THEN 0 ELSE CHOOSE a \in free : \A b \in free : a <= b

\* At most one user is without an address: the one that was added or given the tunnel.
ensure_tunnel_state(st, t) ==
    LET lacking == {n \in Names : t \in user_systems(st, n) /\ st.users[n].address[t] = 0}
    IN  IF lacking = {} THEN st
        ELSE [st EXCEPT !.users[CHOOSE n \in lacking : TRUE].address[t] = next_client_address(st, t)]

ensure_amneziawg_state(st) == ensure_tunnel_state(st, "amneziawg")
ensure_wireguard_state(st) == ensure_tunnel_state(st, "wireguard")

\* The names that xHTTP answers for only grow.
xray_config_state(st) == [st EXCEPT !.reality_xhttp_server_names = @ \cup route_server_names(st, "reality-xhttp")]

prepare_state(st) ==
    LET valid == reapply_device_profiles(validate_state_inputs(st))
    IN  xray_config_state(ensure_wireguard_state(ensure_amneziawg_state(valid)))

\* Mutant: two backends may claim an SNI.
collisions_ignored(st) == FALSE

\* route_collisions, over the claims of all users, enabled or not; a route that is not set
\* has no backend here.
collisions(st) ==
    LET claims == RouteClaims(st) \cup CustomClaims(st) \cup OcservClaims(st) \cup SiteClaims(st)
                  \cup UserClaims(st, Present(st), [n \in Names |-> NGINX_ROUTED_SYSTEMS],
                                  [s \in NGINX_ROUTED_SYSTEMS |-> IF st.routes[s].set THEN s ELSE ""])
    IN  \E c, d \in claims : c.sni = d.sni /\ c.dest # d.dest

\* What ends the operation when it does not hold: the checks, and an address for everybody.
validate_sni_uniqueness(st) ==
    /\ \A s \in REALITY_SYSTEMS : reality_mode(st, s) = "self-steal" => system_sni(st, s) \in site_domains(st)
    /\ ~ collisions(st)
    /\ \A n \in Present(st) : \A s, t \in user_systems(st, n) \cap SNI_ROUTE_SYSTEMS :
           s # t => user_sni(st, n, s) # user_sni(st, n, t)
    /\ \A n \in Present(st) : \A s \in REALITY_SYSTEMS \cap user_systems(st, n) :
           user_sni(st, n, s) \in route_server_names(st, s)
Addressed(st) == \A n \in Present(st) : \A t \in TUNNELS \cap user_systems(st, n) : st.users[n].address[t] # 0
Valid(st) == validate_sni_uniqueness(st) /\ Addressed(st)

(***************************************************************************)
(* The configurations of the services.                                     *)
(***************************************************************************)

default_xray_config(st) ==
    [s \in Xray |-> [clients |-> {}, names |-> IF s = "tls" THEN {} ELSE ServerNames(st, s),
                     target |-> IF s = "tls" THEN "" ELSE reality_target(st, s),
                     parameter |-> IF s = "reality-xhttp" THEN st.xhttp_mode ELSE ""]]

\* The password of ocserv is not told apart: it does not change with the other keys.
Credential(st, n, system) == [name |-> n, key |-> IF system = "ocserv" THEN 0 ELSE st.users[n].key]
client_entries(st, system) == {Credential(st, n, system) : n \in Having(st, system)}

\* Unknown names, and clients that send none, go to the fallback.
render_nginx(st) ==
    [map |-> all_sni_aliases(st), fallback |-> IF st.ocserv_sni = "" THEN "ocserv" ELSE Site]

\* The target of Reality is kept, but for self-steal and for a target out of the old names.
RenderedTarget(st, system, old) ==
    IF reality_mode(st, system) = "self-steal" \/ old.target = LOCAL_REALITY_TARGET \/ old.target \in old.names
    THEN reality_target(st, system) ELSE old.target
render_inbound(st, system, old) ==
    IF system = "tls" THEN [old EXCEPT !.clients = client_entries(st, "tls")]
    ELSE [clients |-> client_entries(st, system), names |-> ServerNames(st, system),
          target |-> RenderedTarget(st, system, old),
          parameter |-> IF system = "reality-xhttp" THEN st.xhttp_mode ELSE ""]
render_xray(st, old) == [s \in Xray |-> render_inbound(st, s, old[s])]

render_hysteria(st) == client_entries(st, "hysteria")
telemt_config_text(st) == [clients |-> client_entries(st, "telemt"), sni |-> system_sni(st, "telemt"),
                           local |-> "telemt" \in st.local_site]
\* With the alias of the compose file that leads MTG to the local site.
mtg_config_text(st) ==
    [sni |-> system_sni(st, "mtg"), alias |-> IF "mtg" \in st.local_site THEN system_sni(st, "mtg") ELSE ""]
render_tunnel(st, t) ==
    [peers |-> {[credential |-> Credential(st, n, t), address |-> st.users[n].address[t]] : n \in Having(st, t)},
     parameter |-> IF t = "amneziawg" THEN st.protocol_version ELSE ""]
render_amneziawg(st) == render_tunnel(st, "amneziawg")
render_wireguard(st) == render_tunnel(st, "wireguard")
render_ocserv(st) == client_entries(st, "ocserv")

(***************************************************************************)
(* The profiles of the clients.                                            *)
(***************************************************************************)

Profile(st, n, system, sni, port) ==
    [system |-> system, sni |-> sni, port |-> port, credential |-> Credential(st, n, system),
     address |-> IF system \in TUNNELS THEN st.users[n].address[system] ELSE 0,
     parameter |-> CASE system = "reality-xhttp" -> st.xhttp_mode
                     [] system = "amneziawg" -> st.protocol_version
                     [] OTHER -> ""]

vless_tls_link(st, n, port) == Profile(st, n, "tls", user_sni(st, n, "tls"), port)
vless_reality_link(st, n, port) == Profile(st, n, "reality-xhttp", user_sni(st, n, "reality-xhttp"), port)
vless_reality_tcp_link(st, n, port) == Profile(st, n, "reality-tcp", user_sni(st, n, "reality-tcp"), port)
hysteria2_link(st, n) == Profile(st, n, "hysteria", user_sni(st, n, "hysteria"), "direct")
telemt_link(st, n, port) == Profile(st, n, "telemt", system_sni(st, "telemt"), port)
mtg_link(st, n, port) == Profile(st, n, "mtg", system_sni(st, "mtg"), port)
amneziawg_client_conf(st, n) == Profile(st, n, "amneziawg", "", "direct")
wireguard_client_conf(st, n) == Profile(st, n, "wireguard", "", "direct")
karing_wireguard_yaml(st, n) == Profile(st, n, "wireguard", "", "direct")
\* A front SNI is left out.  Without an SNI of its own the client connects to the IP.
openconnect_client_text(st, n) == Profile(st, n, "ocserv", st.ocserv_sni, ocserv_public_tcp_port(st))

uri_list_for_systems(st, n, systems) ==
    {p \in {vless_tls_link(st, n, "443"), vless_reality_link(st, n, "443"), vless_reality_tcp_link(st, n, "443"),
            hysteria2_link(st, n)} : p.system \in systems}
direct_uri_list_for_user(st, n) ==
    {p \in {vless_tls_link(st, n, "direct"), vless_reality_link(st, n, "direct"),
            vless_reality_tcp_link(st, n, "direct")} :
        p.system \in user_systems(st, n)}

\* VLESS TLS is left out when the SNI of ocserv is the first domain of the certificate.
singbox_subscription(st, n) ==
    {p \in uri_list_for_systems(st, n, user_systems(st, n)) \cup direct_uri_list_for_user(st, n) :
        p.system = "tls" => ~ (st.ocserv_sni = MainDomain)}

\* The files that hold one profile each.
client_json_tls(st, n, port) == Profile(st, n, "tls", user_sni(st, n, "tls"), port)
client_json_reality(st, n, port) == Profile(st, n, "reality-xhttp", user_sni(st, n, "reality-xhttp"), port)
client_json_reality_tcp(st, n, port) == Profile(st, n, "reality-tcp", user_sni(st, n, "reality-tcp"), port)
hysteria_client_yaml(st, n) == Profile(st, n, "hysteria", user_sni(st, n, "hysteria"), "direct")
xray_hysteria2_json(st, n) == hysteria_client_yaml(st, n)
Single(st, n) ==
    (UNION {{client_json_tls(st, n, port), client_json_reality(st, n, port), client_json_reality_tcp(st, n, port),
             telemt_link(st, n, port), mtg_link(st, n, port)} : port \in {"443", "direct"}})
    \cup {hysteria_client_yaml(st, n), xray_hysteria2_json(st, n), amneziawg_client_conf(st, n),
          wireguard_client_conf(st, n), openconnect_client_text(st, n)}

\* The files of Xray and Hysteria stay when the user loses the system, the others go.
\* The directories of those who are removed or disabled go.
write_client_files(st, old) ==
    [n \in enabled_users(st) |->
        {p \in Single(st, n) : p.system \in user_systems(st, n)}
        \cup singbox_subscription(st, n) \cup uri_list_for_systems(st, n, user_systems(st, n))
        \cup direct_uri_list_for_user(st, n)
        \cup IF n \in DOMAIN old
             THEN {p \in old[n] : p.system \in (Xray \cup {"hysteria"}) \ user_systems(st, n)} ELSE {}]

\* legacy, happ and karing hold the same profiles; karing-wg those of WireGuard.
WebFiles(st) ==
    {[path |-> "uri", token |-> st.users[n].token, profiles |-> uri_list_for_systems(st, n, user_systems(st, n))] :
        n \in enabled_users(st)}
    \cup {[path |-> "wg", token |-> st.users[n].token, profiles |-> {karing_wireguard_yaml(st, n)}] :
        n \in Having(st, "wireguard")}

\* Mutant: the files of other tokens stay.
write_sub_web_only(st, old) ==
    WebFiles(st) \cup {w \in old : \A v \in WebFiles(st) : <<v.path, v.token>> # <<w.path, w.token>>}

\* Writes the files of the tokens that are in use, and removes those of all others.
write_sub_web(st, old) == WebFiles(st)

\* The files in the order in which render_all writes them.
Order == <<"nginx", "xray", "hysteria", "telemt", "mtg", "amneziawg", "wireguard", "ocserv", "clients", "web">>
render_all(st, old) ==
    [nginx |-> render_nginx(st), xray |-> render_xray(st, old.xray), hysteria |-> render_hysteria(st),
     telemt |-> telemt_config_text(st), mtg |-> mtg_config_text(st), amneziawg |-> render_amneziawg(st),
     wireguard |-> render_wireguard(st), ocserv |-> render_ocserv(st),
     clients |-> write_client_files(st, old.clients), web |-> write_sub_web(st, old.web)]
RenderedUpTo(i, new, old) == [f \in DOMAIN old |-> IF \E j \in 1..i : Order[j] = f THEN new[f] ELSE old[f]]

(***************************************************************************)
(* What an operation changes.  Each is the set of the states it may make.  *)
(***************************************************************************)

WithUser(st, n, user) == [st EXCEPT !.users[n] = user]
NewKey == CHOOSE k \in Secrets :
    /\ \A n \in Names : state.users[n].key # k
    /\ \A n \in DOMAIN files.clients : \A p \in files.clients[n] : p.credential.key # k
NewToken == CHOOSE k \in Secrets : (\A n \in Names : state.users[n].token # k) /\ \A w \in files.web : w.token # k
NewUser(systems) == [NoUser EXCEPT !.enabled = TRUE, !.systems = systems, !.key = NewKey, !.token = NewToken]

Assigned(overrides, system, sni) ==
    [s \in DOMAIN overrides \cup {system} |-> IF s = system THEN sni ELSE overrides[s]]
Without(overrides, systems) == [s \in DOMAIN overrides \ systems |-> overrides[s]]

cmd_add_user(st) ==
    UNION {UNION {{WithUser(st, n, apply_device_profile(NewUser(systems), device, TRUE)) :
                      n \in Names \ Present(st)} : systems \in SystemChoices} : device \in Devices \cup {""}}
edit_name(st, n) == {[st EXCEPT !.users[m] = st.users[n], !.users[n] = NoUser] : m \in Names \ Present(st)}
edit_systems(st, n) ==
    {WithUser(st, n, [st.users[n] EXCEPT !.systems = systems,
                                         !.overrides = Without(@, SNI_ROUTE_SYSTEMS \ systems)]) :
        systems \in SystemChoices}
edit_device(st, n) == {WithUser(st, n, apply_device_profile(st.users[n], d, TRUE)) : d \in Devices}
edit_sni(st, n) ==
    (UNION {{WithUser(st, n, [st.users[n] EXCEPT !.overrides = Assigned(@, s, d)]) : d \in Domains} :
               s \in USER_SNI_OVERRIDE_SYSTEMS \cap RouteChoices})
    \cup {WithUser(st, n, [st.users[n] EXCEPT !.overrides = Without(@, {s})]) :
        s \in USER_SNI_OVERRIDE_SYSTEMS \cap RouteChoices}
\* The keys of the tunnels change too; their addresses stay.
regenerate_keys(st, n) == {WithUser(st, n, [st.users[n] EXCEPT !.key = NewKey])}
edit_enabled(st, n) == {WithUser(st, n, [st.users[n] EXCEPT !.enabled = e]) : e \in BOOLEAN}
cmd_edit_user(st) ==
    UNION {edit_systems(st, n) \cup edit_device(st, n) \cup edit_sni(st, n) \cup regenerate_keys(st, n)
           \cup edit_enabled(st, n) : n \in Present(st)}
remove_user(st, n) == WithUser(st, n, NoUser)

\* _create_user and _update_user: the overrides of the form take the place of those there are.
_create_user(st) ==
    UNION {UNION {{WithUser(st, n, [NewUser(systems) EXCEPT !.device = device]) : n \in Names \ Present(st)} :
                      systems \in SystemChoices} : device \in Devices \cup {""}}
_update_user(st, n) ==
    edit_name(st, n) \cup edit_systems(st, n)
    \cup {WithUser(st, n, [st.users[n] EXCEPT !.device = device, !.overrides = <<>>]) : device \in Devices \cup {""}}
_rotate_user(st, n) == {WithUser(st, n, [st.users[n] EXCEPT !.key = NewKey, !.token = NewToken])}
rotate_subscription(st, n) == {WithUser(st, n, [st.users[n] EXCEPT !.token = NewToken])}
apply_user(st) ==
    _create_user(st)
    \cup UNION {_update_user(st, n) \cup edit_enabled(st, n) \cup {remove_user(st, n)} \cup _rotate_user(st, n)
                \cup rotate_subscription(st, n) : n \in Present(st)}

set_default(st, s) == {[st EXCEPT !.routes[s].default = d, !.routes[s].aliases = @ \cup {d}] : d \in Domains}
add_alias(st, s) == {[st EXCEPT !.routes[s].aliases = @ \cup {d}] : d \in Domains}
remove_alias(st, s) == {[st EXCEPT !.routes[s].aliases = @ \ {d}] : d \in st.routes[s].aliases}
set_aliases(st, s) == {[st EXCEPT !.routes[s].aliases = {system_sni(st, s)}]}

\* reality_route_for_mode
set_reality_mode(st, s) ==
    UNION {{[st EXCEPT !.routes[s] = [set |-> TRUE, default |-> d, reality_mode |-> m,
                                      aliases |-> {d} \cup (@.aliases \ IF m = "external" THEN site_domains(st)
                                                                                          ELSE {})]] :
               d \in {x \in Domains : /\ (x \in site_domains(st)) = (m = "self-steal")
                                      /\ <<m, x>> # <<reality_mode(st, s), system_sni(st, s)>>}} :
           m \in {"external", "self-steal"}}
custom_routes(st) ==
    {[st EXCEPT !.custom = {c \in @ : c.sni # d} \cup {[sni |-> d, dest |-> b]}] : d \in Domains, b \in {"telemt"}}
    \cup {[st EXCEPT !.custom = @ \ {c}] : c \in st.custom}
cmd_sni_routes(st) ==
    custom_routes(st)
    \cup (UNION {LET r == ensure_sni_route(st, s)
                 IN  set_default(r, s) \cup add_alias(r, s) \cup remove_alias(r, s) \cup set_aliases(r, s) :
            s \in RouteChoices})
    \cup (UNION {set_reality_mode(ensure_sni_route(st, s), s) : s \in REALITY_SYSTEMS \cap RouteChoices})

\* The portal removes neither the default nor the override of a user.
apply_sni_route(st) ==
    (UNION {LET r == ensure_sni_route(st, s)
            IN  set_default(r, s) \cup add_alias(r, s)
                \cup {x \in remove_alias(r, s) :
                         LET gone == r.routes[s].aliases \ x.routes[s].aliases
                         IN  system_sni(r, s) \notin gone
                             /\ \A n \in {m \in Present(st) : s \in DOMAIN st.users[m].overrides} :
                                    st.users[n].overrides[s] \notin gone} :
            s \in RouteChoices})
    \cup (UNION {set_reality_mode(ensure_sni_route(st, s), s) : s \in REALITY_SYSTEMS \cap RouteChoices})

\* The local site needs a certificate that names the SNI; the external origin may be refused
\* for what the DNS answers.
mtproto_diagnose(st, system) == system_sni(st, system) \in st.site
apply_mtproto(st) ==
    {[st EXCEPT !.local_site = @ \cup {s}] :
        s \in {x \in MTPROTO_SYSTEMS \cap RouteChoices : mtproto_diagnose(st, x)}}
    \cup {[st EXCEPT !.local_site = @ \ {s}] : s \in MTPROTO_SYSTEMS \cap RouteChoices}
apply_protocol(st) == {[st EXCEPT !.xhttp_mode = m] : m \in {"stream-one", "packet-up"}}
update_amneziawg_profile(st, v) == [st EXCEPT !.protocol_version = v]
apply_amneziawg(st) == {update_amneziawg_profile(st, v) : v \in {"legacy", "3.1"}}

configure_letsencrypt_state(st) == {[st EXCEPT !.site = S] : S \in SiteChoices}
\* letsencrypt issue, for the site and for ocserv.
issue_certificate(st) ==
    configure_letsencrypt_state(st) \cup {[st EXCEPT !.ocserv_sni = d] : d \in Domains}

(***************************************************************************)
(* Operations.                                                             *)
(***************************************************************************)

\* The state of a new server and of its first user, rendered.  The setup writes the SNI
\* routes when the administrator configures them.
NewState(configured) ==
    [users |-> [n \in Names |-> NoUser],
     routes |-> [s \in SNI_ROUTE_SYSTEMS |->
                    [set |-> configured, default |-> DEFAULT_SNIS[s],
                     aliases |-> IF configured THEN {DEFAULT_SNIS[s]} ELSE {}, reality_mode |-> "external"]],
     custom |-> {}, reality_xhttp_server_names |-> REALITY_XHTTP_COMPAT_SNIS, site |-> {MainDomain},
     local_site |-> {}, ocserv_sni |-> "", xhttp_mode |-> "stream-one", protocol_version |-> "legacy"]
NoFiles(st) == [f \in {Order[i] : i \in DOMAIN Order} |->
                   IF f = "xray" THEN default_xray_config(st) ELSE IF f = "clients" THEN <<>> ELSE {}]

DesiredInit ==
    /\ \E n \in Names, server \in NewServers :
           LET k == CHOOSE k \in Secrets : TRUE
           IN  state = prepare_state([NewState(server.configured) EXCEPT !.users[n] =
                           [NoUser EXCEPT !.enabled = TRUE, !.systems = server.systems, !.key = k, !.token = k]])
    /\ Valid(state)
    /\ files = render_all(state, NoFiles(state)) /\ whole = TRUE
    /\ operations = 0 /\ faults = 0

Operates == operations < MaxOperations /\ operations' = operations + 1
\* The operation ends between two files, killed or with an error.
Interrupted(prepared, old) ==
    /\ faults < MaxFaults /\ faults' = faults + 1
    /\ \E i \in Breaks : files' = RenderedUpTo(i, render_all(prepared, old), old)
    /\ whole' = FALSE

\* kvn renders first and then saves.  The directory of a user who is renamed or removed
\* moves or goes before the state is checked.
Kvn(st, clients) ==
    LET prepared == prepare_state(st)
        old == [files EXCEPT !.clients = clients]
    IN  /\ Operates
        /\ \/ /\ Valid(prepared)
              /\ state' = prepared /\ files' = render_all(prepared, old) /\ whole' = TRUE
              /\ UNCHANGED faults
           \/ /\ ~ Valid(prepared) /\ old # files
              /\ files' = old /\ whole' = FALSE
              /\ UNCHANGED <<state, faults>>
           \/ Valid(prepared) /\ Interrupted(prepared, old) /\ UNCHANGED state

\* The portal saves first; what changes nothing is not rendered.
Portal(st) ==
    LET prepared == prepare_state(st)
    IN  /\ Operates
        /\ Valid(prepared) /\ prepared # state
        /\ state' = prepared
        /\ \/ files' = render_all(prepared, files) /\ whole' = TRUE /\ UNCHANGED faults
           \/ Interrupted(prepared, files)

AddUser == \E st \in cmd_add_user(state) : Kvn(st, files.clients)
EditUser == \E st \in cmd_edit_user(state) : Kvn(st, files.clients)
Renamed(clients, n, m) ==
    [x \in (DOMAIN clients \ {n}) \cup {m : y \in {n} \cap DOMAIN clients} |->
        IF x = m /\ n \in DOMAIN clients THEN clients[n] ELSE clients[x]]
RenameUser ==
    \E n \in Present(state) : \E st \in edit_name(state, n) :
        LET m == CHOOSE x \in Present(st) : x \notin Present(state)
        IN  m \notin DOMAIN files.clients /\ Kvn(st, Renamed(files.clients, n, m))
RemoveUser ==
    \E n \in Present(state) : Kvn(remove_user(state, n), [x \in DOMAIN files.clients \ {n} |-> files.clients[x]])
SniRoutes == \E st \in cmd_sni_routes(state) : Kvn(st, files.clients)

PortalUser == \E st \in apply_user(state) : Portal(st)
PortalRoute == \E st \in apply_sni_route(state) : Portal(st)
PortalSettings == \E st \in apply_mtproto(state) \cup apply_protocol(state) \cup apply_amneziawg(state) : Portal(st)

\* The certificate is saved before the state is prepared and checked.
IssueCertificate ==
    \E st \in issue_certificate(state) :
        LET prepared == prepare_state(st)
        IN  /\ Operates
            /\ \/ /\ Valid(prepared)
                  /\ state' = prepared /\ files' = render_all(prepared, files) /\ whole' = TRUE
                  /\ UNCHANGED faults
               \/ /\ ~ Valid(prepared)
                  /\ state' = st /\ whole' = FALSE
                  /\ UNCHANGED <<files, faults>>
               \/ Valid(prepared) /\ state' = st /\ Interrupted(prepared, files)

reconcile ==
    LET prepared == prepare_state(state)
    IN  /\ Operates
        /\ ~ whole /\ Valid(prepared)
        /\ state' = prepared /\ files' = render_all(prepared, files) /\ whole' = TRUE
        /\ UNCHANGED faults

DesiredNext ==
    \/ AddUser \/ EditUser \/ RenameUser \/ RemoveUser \/ SniRoutes \/ PortalUser \/ PortalRoute \/ PortalSettings
    \/ IssueCertificate \/ reconcile

DesiredSpec == DesiredInit /\ [][DesiredNext]_desiredVars

(***************************************************************************)
(* Properties.                                                             *)
(***************************************************************************)

Routed(sni) == IF sni \in DOMAIN files.nginx.map THEN files.nginx.map[sni] ELSE files.nginx.fallback
Admits(p) ==
    CASE p.system \in Xray ->
            LET inbound == files.xray[p.system]
            IN  /\ p.credential \in inbound.clients /\ p.parameter = inbound.parameter
                /\ p.system \in REALITY_SYSTEMS => p.sni \in inbound.names
      [] p.system = "hysteria" -> p.credential \in files.hysteria
      [] p.system = "telemt" -> p.credential \in files.telemt.clients /\ p.sni = files.telemt.sni
      [] p.system = "mtg" -> p.sni = files.mtg.sni
      [] p.system \in TUNNELS ->
            /\ p.parameter = files[p.system].parameter
            /\ [credential |-> p.credential, address |-> p.address] \in files[p.system].peers
      [] OTHER -> p.credential \in files.ocserv
Answers(p) ==
    /\ p.port = "443" => Routed(p.sni) = p.system
    /\ Admits(p)

\* In self-steal mode xHTTP answers for the domains of the site only: the SNI that a user
\* has of his own is then changed by hand (README.md:443-445).  A server whose SNI routes
\* were left as they are has none (setup.sh:594, 673), and the router knows no name.
Excepted(p) ==
    \/ p.port = "443" /\ p.system \in NGINX_ROUTED_SYSTEMS
       /\ ~ state.routes[p.system].set /\ p.sni = system_sni(state, p.system)
    \/ p.system = "reality-xhttp" /\ reality_mode(state, p.system) = "self-steal" /\ p.sni \notin site_domains(state)
Profiles(n) == {p \in files.clients[n] : p.system \in user_systems(state, n)}
               \cup UNION {w.profiles : w \in {v \in files.web : v.token = state.users[n].token}}

\* When the files are those of the state, a client who uses a profile that was written for
\* him reaches, through the SNI router, the service that the profile is for, and that
\* service knows his key, his address, the SNI and the parameters; and the domains of
\* the site reach it, directly or behind the Reality service that steals it.
LinksAreServed ==
    whole =>
        /\ \A n \in enabled_users(state) : \A p \in Profiles(n) : Answers(p) \/ Excepted(p)
        /\ \A d \in site_domains(state) :
               \/ Routed(d) = Site
               \/ Routed(d) \in REALITY_SYSTEMS /\ files.xray[Routed(d)].target = LOCAL_REALITY_TARGET

\* A tunnel address is never reserved for two users, whatever systems they lost and got
\* back in between (next_awg_client_address, next_wireguard_client_address).
AddressesAreUnique ==
    \A t \in TUNNELS : \A n, m \in Present(state) :
        n # m /\ state.users[n].address[t] # 0 => state.users[n].address[t] # state.users[m].address[t]

\* When the files are those of the state, a user who was removed, renamed, disabled, or lost
\* a system or a key has no access left: no service knows a credential, no directory a
\* name and no subscription a token but those of the users who have them now.  (mtg has one
\* secret for all, which never changes: README.md, known divergences.)
AccessEnds ==
    whole =>
        /\ \A s \in Xray : files.xray[s].clients \subseteq client_entries(state, s)
        /\ files.hysteria \subseteq client_entries(state, "hysteria")
        /\ files.telemt.clients \subseteq client_entries(state, "telemt")
        /\ files.ocserv \subseteq client_entries(state, "ocserv")
        /\ \A t \in TUNNELS : \A peer \in files[t].peers : peer.credential \in client_entries(state, t)
        /\ DOMAIN files.clients \subseteq enabled_users(state)
        /\ \A w \in files.web :
               /\ \E n \in enabled_users(state) : w.token = state.users[n].token
               /\ \A p \in w.profiles : p.credential \in client_entries(state, p.system)
=============================================================================
