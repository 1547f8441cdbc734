SPECIFICATION Spec
CONSTANTS
  MQTT_REQ_MAX_IN_FLIGHT = 2
  MQTT_CYCLIC_TIMER_INTERVAL = 5
  MQTT_REQ_TIMEOUT = 10
  MQTT_CONNECT_TIMOUT = 10
  KeepAlive = 10
  RingCap = 2
  SndBuf = 2
  IdMod = 6
  MaxReqs = 3
  MaxPub = 1
  Window = 2
  Kinds = {"PUBLISH0","PUBLISH1","PUBLISH2"}
  OnDown = "reconnect"
  OnRequestFail = "ignore"
  MayLackMemory = TRUE
  MayHangUp = TRUE
  MayBeCut = FALSE
INVARIANTS TypeOK OneTimer RequestClock NoOrphanRequest ConnectFirst OkMeansServed NoNullUse
PROPERTIES ImplementsSession
