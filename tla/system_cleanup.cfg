\* Grafana fails while the system rules are deleted.
CONSTANTS
    a1 = a1
    s1 = s1
    s2 = s2
    s3 = s3
    c1 = c1
    c2 = c2
    Alerts = {a1, s1, s2, s3}
    Name <- AlertName
    Category <- TwoCategories
    System = {s1, s2, s3}
    Requests = {r1, job}
    Job = job
    Batch <- TwoRuns
    Retries = 1
    Scenarios <- Outage
SPECIFICATION JobSpec
CHECK_DEADLOCK FALSE
PROPERTIES
    SystemRulesDeleted
