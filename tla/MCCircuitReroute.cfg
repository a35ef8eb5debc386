SPECIFICATION LiveSpec
CONSTANTS
    ri = ri
    rt = rt
    re = re
    Routers = {ri, rt, re}
    Ingress = ri
    Egresses = {re}
    Links <- Triangle
    Retries = 1
    MaxFaults = 1
PROPERTIES
    TablesSettle
    CircuitsHeal
CHECK_DEADLOCK FALSE
