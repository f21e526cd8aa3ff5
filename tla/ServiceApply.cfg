CONSTANTS
    xray = xray
    wireguard = wireguard
    t1 = t1
    t2 = t2
    Docker = {xray}
    Host = {wireguard}
    Threads = {t1, t2}
    Operations <- AllAndActions
    RenderOrder <- Both
    MaxVersion = 2
    Unused = {1}
    NoThread = NoThread
SPECIFICATION Spec
INVARIANT UnreportedIsCurrent
INVARIANT DisabledStaysDown
PROPERTY ReconcileConvergesHost
PROPERTY ForcedApplyConverges
