--------------------------- MODULE MCDesiredState ---------------------------
(* Two users of a server whose site is vpn.example; the domains are such that    *)
(* each is claimed by several systems.                                            *)
EXTENDS DesiredState, TLC

MCSystemChoices == {{"reality-tcp", "wireguard", "tls", "hysteria", "mtg"},
                     {"reality-xhttp", "telemt", "ocserv", "amneziawg"}}
MCNewServers == {[systems |-> {"reality-tcp", "wireguard", "tls", "hysteria", "mtg"}, configured |-> FALSE],
                  [systems |-> {"reality-xhttp", "telemt", "ocserv", "amneziawg"}, configured |-> TRUE]}
MCRouteChoices == {"reality-tcp", "reality-xhttp", "telemt"}
MCSiteChoices == {{"vpn.example"}, {"vpn.example", "yandex.com"}}
MCDomains == {"vpn.example", "cdn.example"}
Symmetry == Permutations(Names)
=============================================================================
