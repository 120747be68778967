SPECIFICATION FairSpec
CONSTANTS
    Ips = {ip1, ip2}
    Macs = {m1, m2}
    NoMac = NoMac
    Data = Data
    NumQueues = 2
    RxCap = 7
    MaxBurst = 2
    MaxVersion = 3
    MaxFailures = 2
INVARIANTS
    TypeOK
    UpToDateMeansHanded

    
    
