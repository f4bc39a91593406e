\* The services that share no state, one in each behaviour.
CONSTANTS
    a1 = a1
    s1 = s1
    s2 = s2
    s3 = s3
    c1 = c1
    c2 = c2
    Alerts = {a1, s1, s2, s3}
    Name <- AlertName
    Category <- TwoCategories
    System = {s1, s2, s3}
    Requests = {r1, job}
    Job = job
    Batch <- TwoRuns
    Retries = 1
    Scenarios <- AllScenarios
    Checks = {k1, k2}
    Asked <- AskedSets
    MaxChanges = 1
    MaxChecks = 2
    Queries <- QuerySet
    Clients = {q1, q2}
    Aliases = {"a1", "a2"}
    Sources = {"s1", "s2"}
    MaxResultRowLimit = 5
    MaxResultThreshold = 3
    MaxDateRange = 2
    MaxMoves = 1
    Channels = {d1, d2}
    ChannelNames = {n1, n2}
    Foreign = {default}
    Handlers = {h1, h2}
    MaxHandled = 3
    SilenceIds = {g1, g2, g3}
    Muted = {m1, m2}
    Sessions = {h1, h2}
    MaxSilencing = 3
    Fields <- FieldSet
    MasterPaths <- MasterSet
    OutKey <- OutName
    Transforms <- TransformSet
    Timestamp <- Ts
    Partition <- A_B
    MaxEdits = 4
    FieldPaths <- PathSet
    OutFields = {"m"}
    Users = {u1, u2}
    UpdateRequests <- RequestSet
    MaxNow = 1
    MaxWrites = 2
    FieldNames = {"f", "g"}
    Events <- EventSet
    MaxSamples = 3
    RollupRatio = 80
    Monitored = {p1, p2}
    Templates <- OneCategory
    Titles = {t1, t2}
    Crew = {w1, w2}
    MaxOrders = 4
    MaxMuted = 1
SPECIFICATION ServicesSpec
SYMMETRY MonitoredSymmetry
CHECK_DEADLOCK FALSE
INVARIANTS
    ServicesTypeOK
     InstalledOrLogged
    HealthTruthful
      
    
    SilencesAccounted
    SpecsDistinct
    ConflictsResolved DedupFromOwnSamples
    AlertsAgree
PROPERTIES
    
    RetirementCleansUp
    RowOutlivesSilence
    
    UpdatesSound
    AlertsRemoved
