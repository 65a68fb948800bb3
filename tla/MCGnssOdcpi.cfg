SPECIFICATION OdcpiFairSpec
CONSTANT MaxExpired = 2
INVARIANTS ActiveTimerExpires EmergencyIsAsked
PROPERTY ActiveIsAskedAgain
