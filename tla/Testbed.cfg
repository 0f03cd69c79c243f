CONSTANTS
  Experiments <- MCExperiments
  MaxTime = 30
  SYNC_PERIOD = 7
  CLOCK = 16
  NoPacket = NoPacket
  NODES_BOOTUP_TIME = 2
  CONVERGE_TIME = 5
  SRC_PERIOD = 1
  EVENT_PERIOD = 40
  PKT_NUM = 15
  REPEAT_CNT = 2
  COUNT = 16
  ROOT_NODE_ID = 1
  Senders <- MCSenders
  EventTimes <- MCEventTimes
  COLUMNS = 2
  TRAFFIC_SCALAR = 2
  TRACE_TIME = 20
  RUN_TIME = 30
  NoFile = nofile
  nofile = nofile
  Logs <- MCLogs
  Topologies <- MCTopologies
  NoTopology = notopology
  notopology = notopology
  nodeNum = 3
SPECIFICATION Spec
CHECK_DEADLOCK FALSE
INVARIANTS Replayed OnePacket
PROPERTIES StartsTogether
