CONSTANTS
  NumEvents = 2
  Critical = {1, 2}
  OfflineTime = 2
  ProtectTime = 4
  Period = 2
  RebootAfter = 16
  RebootDelay = 2
  TickMod = 24
  Slack = 1
  MaxRaces = 1
SPECIFICATION FairSpec
INVARIANTS TypeOK SilentIsReset TriggerAgrees
PROPERTIES HealthyNeverReset AlwaysRecovers
