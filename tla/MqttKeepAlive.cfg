SPECIFICATION PromptSpec
CONSTANTS
  MQTT_REQ_MAX_IN_FLIGHT = 4
  MQTT_CYCLIC_TIMER_INTERVAL = 5
  MQTT_REQ_TIMEOUT = 30
  MQTT_CONNECT_TIMOUT = 100
  KeepAlive = 60
  RingCap = 2
  SndBuf = 2
  IdMod = 5
  MaxReqs = 5
  MaxPub = 2
  Window = 2
  Kinds = {"PUBLISH1"}
  OnDown = "ignore"
  OnRequestFail = "ignore"
  MayLackMemory = FALSE
  MayHangUp = FALSE
  MayBeCut = FALSE
INVARIANTS OkMeansServed
PROPERTIES TimerKeepsHealthy
