SPECIFICATION JobFairSpec
INVARIANTS
  PolledWhileRunning
  DeliveredOnce
PROPERTY RunningEnds
