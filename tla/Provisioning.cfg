SPECIFICATION Spec
CONSTANTS
    i1 = i1
    i2 = i2
    f1 = f1
    f2 = f2
    None = None
    Unused = Unused
    Inits = {i1, i2}
    Forms = {f1, f2}
    Merchants = {m1}
    MaxAccount = 1
INVARIANTS InitMintsOnce KeysReachTheirOwner RefusedOnlyForARace
SYMMETRY ProvisioningSymmetry
