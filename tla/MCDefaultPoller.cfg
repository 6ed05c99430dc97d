CONSTANTS
  Channels = {0, 2, 4}
  Fd <- MCFd
  None = none
  Types = {"in", "out"}
  MaxListSize = 2
  Ready = {{}, {"in", "hup"}}
SPECIFICATION Spec
INVARIANT RegistrationAgrees
PROPERTY PollerSpec
