CONSTANTS
  hdhr = hdhr
  old = old
  t0 = t0
  t1 = t1
  t2 = t2
  PacketLength = 2
  PatPid = 0
  NoPid = 9
  Devices = {hdhr, old}
  Legacy = {old}
  Tuners = {t0, t1, t2}
  DeviceOf <- MCDeviceOf
  NoTuner = none
  Storages = 1
  Broadcast <- MCBroadcast
  StreamEnd = 12
  ReadSizes = {4}
  Targets = {0, 3}
  MaxEdits = 2
  MaxFaults = 1
  MaxFed = 5
SPECIFICATION Spec
SYMMETRY TunerSymmetry
INVARIANTS TunersReturned PausedForTheStream SpareTunerIsFound FilterStaysOn OnlySound
CHECK_DEADLOCK FALSE
