CONSTANTS
    None = None
    m1 = m1
    here = here
    there = there
    http = http
    tls = tls
    dns = dns
    Members = {m1}
    Targets = {here, there}
    Probe <- Probes
    Fall <- Falls
    Rise <- Rises
    TcpFrontends = {http, tls}
    UdpFrontends = {dns}
    Conditions = {"serves", "accepts", "gone"}
    MaxDeliveries = 3
    MaxSwaps = 2
    MaxMishaps = 2
SPECIFICATION Spec
 
PROPERTIES StandingIsTold  HealthIsCurrent
