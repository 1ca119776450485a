SPECIFICATION FairSpec
CONSTANTS
    Socks = {s1, s2}
    Ports = {1, 2, 3}
    LocalRange = {1, 2}
    Reserved = {2}
    Addrs = {a, b}
    Wild = Wild
    Devs = {"eth0"}
    bound_dev <- NoDevices
    Remotes = {r}
    Attempts = 2
    LateSegments = FALSE
INVARIANTS BucketsExact OneListener 
PROPERTIES CallsReturn
