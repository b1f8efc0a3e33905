CONSTANTS
  BotOps = {"requestAuto", "platform", "ban"}
  WebOps = {"webQuota"}
  JobOps = {}
  Plans = {1}
  MaxMonths = 1
  MaxRejects = 1
  Faults = {}
  Interleaved = TRUE
SPECIFICATION Spec
PROPERTY BanSticks
