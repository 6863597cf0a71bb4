SPECIFICATION SpecWithClear
CONSTANTS
    k1 = k1
    k2 = k2
    k3 = k3
    k4 = k4
    Key <- MCKey
    HashCode <- MCHashCode
    Value = {v1, v2}
    Fresh = Fresh
    Absent = Absent
    Free = Free
    Power2 <- MCPower2
INVARIANTS
    LoadFactorKept
