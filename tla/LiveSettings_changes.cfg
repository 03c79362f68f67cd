SPECIFICATION SettingsSpec
CONSTANTS
    Llms = {l1, l2}
    FirstLlm = l1
    Servers = {s1}
    Versions = {"v1", "v2"}
    YamlServers <- MCYamlServers
    IsDefault = FALSE
    Tools = {"read", "write", "exec"}
    ToolsOf <- MCToolsOf
    ToolRules <- MCToolRules
    McpRules <- MCMcpRules
    GlobalRule <- MCGlobalRule
    Puts = {u1, u2}
    Patches = {p1, p2}
    Turns = {t1, t2}
    NoCache = NoCache
    NoVersion = "none"
    MaxChanges = 4
SYMMETRY Symmetry
CHECK_DEADLOCK FALSE
INVARIANTS
    ShownIsUsed
    
PROPERTY
    TurnsGetCurrent
