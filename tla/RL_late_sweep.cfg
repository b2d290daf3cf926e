SPECIFICATION Spec
CONSTANTS
  Replicas = {r1}
  None = None
  BeatInterval = 1
  Freshness = 2
  FlushInterval = 4
  BatchInterval = 2
  LivenessTTL = 6
  SweepInterval = 2
  StaleThreshold = 10
  RedisModes = {"sound"}
  MaxOutages = 0
PROPERTY HeartbeatStopsSweep
