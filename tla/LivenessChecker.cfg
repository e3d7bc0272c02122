SPECIFICATION CheckerSpec
CONSTANTS
  BusyPeriod = 2
  IdlePeriod = 4
  MinLostPeriod = 2
  MaxLostPeriod = 3
  MaxLost = 3
  MaxLostAfterSleep = 1
  Window = 2
  RoundTrips = {1, 2}
INVARIANTS
  NoFalseDeath
  DeathIsNoticed
  SlowestIsMaximum
