SPECIFICATION MCSpec
CONSTANTS
    MaxVersion = 2
    MaxFailures = 3
    AssetRows <- ListedAssets
    Typed = {"ip2", "typed"}
    HostNames = {"found"}
    MonitorTypes = {"https", "snmp", "agent"}
    MonitorRows <- ListedMonitors
    Assets = {"a1", "a2"}
    Systems = {"ubuntu", "windows"}
    MaxRows = 2
    MaxImports = 2
    ScanRanges = {{"h1", "h2"}, {"h2", "h3"}}
    Ports = {"80", "8080"}
    SnmpHosts = {"h1"}
    Oids = {"sysDescr", "sysName"}
    MaxTests = 2
    PageRows <- OnePage
    Listings <- NoneOrTwo
    Hits <- SecondRows
    Metrics = {"cpu", "mem"}
    Day = 3
    PerMinute = 2
    Points = 2
    ChartRanges = {1, 3}
    MaxTime = 7
    Incidents = {"i1", "i2"}
    Texts = {"text", "bad"}
    MaxSent = 2
    Unparsable = {"bad"}
    MaxMade = 3
    MaxOpenings = 2
INVARIANTS MCTypeOK FormsTrue DrawnTrue
PROPERTIES ListsShown
CHECK_DEADLOCK FALSE
