SPECIFICATION MCSpec
CONSTANTS
  Sqls = {"s", "t"}
  Dialects = {"d", "e"}
  Near <- MCNear
  MaxCalls = 2
  Workers = {w1, w2}
  Nobody = nobody
  MaxSetups = 2
  MaxRequests = 3
  u1 = u1
  u2 = u2
  Users <- MCUsers
  Unset = Unset
  Experiments <- MCExperiments
  Defaults <- MCDefaults
  Bucket <- MCBucket
  Remote <- MCRemote
  Channels = {"intercom", "zendesk", "pigeon"}
  MaxReports = 2
  Scripts = {"slow", "fast"}
  Blank = "blank"
  Rewrite <- MCRewrite
  MaxSends = 3
INVARIANTS PaidOncePerText BuiltOnce CohortsHold OnlyWhatWasAsked PageHolds
PROPERTY PageSettles
CHECK_DEADLOCK FALSE
