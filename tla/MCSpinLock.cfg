CONSTANTS
  Callers = {t1, t2, t3, t4}
  NoCaller = NoCaller
SPECIFICATION SSpec
PROPERTIES
  ImplementsMutex
  SomeoneEnters
