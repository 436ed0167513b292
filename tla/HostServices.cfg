SPECIFICATION Runs
CONSTANTS
  Events = {e1, q1}
  Approvals = {q1}
  Devices = {d1, d2}
  Worker = worker
  NoEvent = noEvent
  QueueSize = 1
  Choices = {"once", "deny"}
  Timeout = 1
  MaxEnqueues = 3
  MaxTime = 3
  Workers = {w1, w2}
  NoWorker = noWorker
  Owners = {o1, o2}
  Phases = {"running", "waiting", "completed"}
  MaxAttempts = 2
  MaxTries = 1
  MaxRegistrations = 2
  MaxUpdates = 2
  MaxStamp = 4
  Senders = {s1, s2}
  Admins = {a1, a2}
  Providers = {p1, p2}
  NoProvider = noProvider
  MaxSends = 3
  MaxLeaseChanges = 4
  MaxDeviceChanges = 1
  MaxCrashes = 1
  MaxDeaths = 1
  Views = {view}
  Scopes = {scope, other}
  Keys = {"question", "todos"}
  Sizes = {"small", "deep", "large"}
  MaxEvents = 2
  MaxShown = 1
  MaxScopes = 1
  MaxSubscriptions = 1
  MaxCursor = 5
  Leases = {lease}
  StreamIds = {feed}
  Residents = {m1, m2}
  Tracked = {"tracked"}
  Loose = {"loose"}
  Broken = {"broken"}
  MaxFeeds = 1
  MaxBuffered = 1
  LeaseSeconds = 1
  PageLimit = 2
  MaxHours = 2
  MaxObserved = 2
  MaxRosters = 1
  Phones = {phone}
  Host = host
  MaxEpoch = 2
  Conns = {socket}
  PerPeer = 1
  Lifetime = 1
  MaxChanges = 2
  MaxRestarts = 1
  MaxCommands = 1
CHECK_DEADLOCK FALSE
INVARIANTS PushesKept
PROPERTIES RetirementsEnd FeedsConverge WithdrawnStaysOut
