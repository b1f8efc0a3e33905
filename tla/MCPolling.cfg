CONSTANTS
  LastUpdate = 5
  Limit = 3
  MaxRestarts = 3
  Faults = {"request", "answer", "crash", "stop"}
  SosUser = {"u1", "u2"}
  WebThread = {"w"}
  SosThread = "bot"
  SosWindow = 1
  MaxSos = 3
  NoUser = "nobody"
  KitUser = {"u1", "u2"}
  KitWindow = 2
  MaxKits = 4
  Reader = {"u1", "u2", "u3"}
  Unreachable = {"u3"}
  NoticeWait = 2
  MaxNotices = 4
  Stranger = {"s"}
  KeyHolder = {"k"}
  Admin = {"d1", "d2"}
  MailLetters = 2
  MailFaults = 1
  MailWindow = 2
  Writer = {"u", "v"}
  MaxMsgs = 3
  Long = {2}
  Media = {3}
  MaxTopics = 2
  MaxLapses = 1
  Token = {"t1", "t2"}
  BeatWindow = 2
  MissRebuild = 1
  MapRefresh = 3
  MaxBeatFaults = 1
  MaxRekeys = 2
SPECIFICATION HostSpec
INVARIANTS  BeatsHold
PROPERTIES InTurn InboundProgress ClaimsHold MailHolds
