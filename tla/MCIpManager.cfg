CONSTANTS
    IPs = {i1, i2}
    NoIp = NoIp
    Links = {l1}
    Scanners = {w1, w2}
    MaxLinksPerIp = 1
    MaxGoodIpNum = 1
    MaxScanThreads = 2
SPECIFICATION Spec
SYMMETRY Sym
VIEW View
INVARIANTS
    TypeOK
    ListMatchesDict
    SavedCovers
