SPECIFICATION Spec
CONSTANTS
    s1 = s1
    s2 = s2
    n1 = n1
    n2 = n2
    t1 = t1
    o1 = o1
    c1 = c1
    c2 = c2
    Setups <- Clusters
    Founder = Founder
    Tokens <- OneToken
    Orders <- OneOrder
    Callers <- TwoCallers
    None = None
SYMMETRY Anybody
INVARIANTS VoterWasAdmitted PromisesKept LockKeepsOut
