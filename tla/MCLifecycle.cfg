CONSTANTS
  BotOps = {"request", "requestAuto", "platform", "getKey", "support", "message", "pay", "approve", "reject", "rejectButton", "ban", "reset", "resetApproval", "closeTicket"}
  WebOps = {"webApprove", "webReject", "webBan", "webUnban", "webReset", "webGrant", "webQuota"}
  JobOps = {"repair"}
  Plans = {1, 2}
  MaxMonths = 2
  MaxRejects = 2
  Faults = {"panel"}
  Interleaved = FALSE
  \* Reminders
  Person = {"a", "b"}
  Client = {"c", "m"}
  ByMail = {"m"}
  MaxPer = 1
  CardRows = 1
  Oldest <- MCOldest
  MaxMoves = 3
  MaxForced = 1
  MaxLost = 1
  LastMonth = 1
SPECIFICATION HostSpec
INVARIANTS PromisesKept RemindersHold
PROPERTIES BanSticks RemindersProgress
