SPECIFICATION DesiredSpec
CONSTANTS
    a = a
    b = b
    Names = {a, b}
    Domains <- MCDomains
    SystemChoices <- MCSystemChoices
    NewServers <- MCNewServers
    Devices = {"ios"}
    RouteChoices <- MCRouteChoices
    MainDomain = "vpn.example"
    SiteChoices <- MCSiteChoices
    Hosts = {2, 3}
    Secrets = {1, 2, 3, 4, 5, 6}
    Breaks = {5}
    MaxOperations = 3
    MaxFaults = 1
SYMMETRY Symmetry
CHECK_DEADLOCK FALSE
INVARIANTS
    LinksAreServed
    AddressesAreUnique
    AccessEnds
