CONSTANTS
    None = None
    n1 = n1
    n2 = n2
    c1 = c1
    Nodes = {n1, n2}
    Certs = {c1}
    Names <- OneName
    Kinds <- BothKinds
    Issues <- OnlyUsable
    MostPolls = 1
    Attempts = 2
    MostNonceRetries = 0
    Keys = {1, 2, 3, 4, 5, 6, 7}
    MaxOrders <- OrdersOf
    MaxEdits <- EditsOf
    MaxMishaps = 1
SPECIFICATION Spec
INVARIANTS TakenOverFits AnsweredBeforeAsked  
PROPERTIES ImplementsLife 
CHECK_DEADLOCK FALSE
