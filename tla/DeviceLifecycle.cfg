\* One modem, pulled out once, and two devices for it; one operator.
SPECIFICATION FairSpec
CONSTANTS
  Modem = {m1}
  Pvt = {p1, p2}
  None = None
  Service = {"call", "sms"}
  Operator = {o1}
  MaxRequests = 1
  MaxUnplugs = 1
INVARIANTS TypeOK MonitorsOwned OneReader
PROPERTIES  NotUndone RequestsHonoured ModemServed UnloadCompletes
