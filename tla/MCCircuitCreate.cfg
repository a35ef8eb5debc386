SPECIFICATION LiveSpec
CONSTANTS
    ri = ri
    rt = rt
    re = re
    Routers = {ri, re}
    Ingress = ri
    Egresses = {re}
    Links = {{ri, re}}
    Retries = 2
    MaxFaults = 2
INVARIANTS
    CircuitTypeOK
    EstablishedIsConnected
PROPERTIES
    TablesSettle
    CircuitsHeal
CHECK_DEADLOCK FALSE
