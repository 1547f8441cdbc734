SPECIFICATION FairSpec
CONSTANTS
  MQTT_REQ_MAX_IN_FLIGHT = 2
  MQTT_CYCLIC_TIMER_INTERVAL = 5
  MQTT_REQ_TIMEOUT = 10
  MQTT_CONNECT_TIMOUT = 10
  KeepAlive = 10
  RingCap = 2
  SndBuf = 1
  IdMod = 6
  MaxReqs = 3
  MaxPub = 0
  Window = 1
  Kinds = {"PUBLISH1"}
  OnDown = "reconnect"
  OnRequestFail = "ignore"
  MayLackMemory = FALSE
  MayHangUp = FALSE
  MayBeCut = TRUE
PROPERTIES DeadLinkDetected RequestsEnd
