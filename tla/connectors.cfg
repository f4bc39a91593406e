CONSTANTS
    d1 = d1
    d2 = d2
    i1 = i1
    i2 = i2
    jdbc = jdbc
    kafka = kafka
    s3 = s3
    v1 = v1
    v2 = v2
    Datasets = {d1, d2}
    Connectors = {jdbc, kafka, s3}
    Packages <- ThreePackages
    InstanceIds = {i1, i2}
    Scenarios <- EachFault
    MaxRequests = 7
SPECIFICATION Spec
SYMMETRY ConnectorSymmetry
CHECK_DEADLOCK FALSE
INVARIANTS
    TypeOK
    VersionsAgree
    
    DeployedMeansRunning
