CONSTANTS
    xray = xray
    wireguard = wireguard
    t1 = t1
    t2 = t2
    Docker = {xray}
    Host = {}
    Threads = {t1}
    Operations <- OnlyShared
    RenderOrder <- OnlyXray
    MaxVersion = 2
    Unused = {}
    NoThread = NoThread
SPECIFICATION Spec
PROPERTY ReconcileConverges
