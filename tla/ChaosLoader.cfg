CONSTANTS
  None = None
  Contexts = {c1, c2}
  Rams = {r1, r2}
  Cpus = {cpu1, cpu2}
  MaxBars = 2
  MaxInterrupts = 2
  Pages = 2
  LastFrame = 2
SPECIFICATION Spec
INVARIANTS
  TypeOK
  VmxFlagTracksCpus
  PoweredOffOutsideVmx
  LaunchOverOwnRam
  LoaderReleasesAll
  ContextIsLive
PROPERTIES
  ShutdownReachesLoader
