SPECIFICATION Spec
CONSTANTS
  dynamic = dynamic
  usual = usual
  own = own
  Null = Null
  Servers = {dynamic, usual, own}
  Preregistered = {usual}
  Endpoint <- MCEndpoint
  Configured <- MCConfigured
  OsPorts = {2}
  MaxFlows = 2
  MaxPasted = 1
  MaxInterruptions = 1
INVARIANTS
  EndpointIsKept
  ReservationsAreReleased
  CodesMeetTheirFlow
  LogoutIsFinal
  CallbacksAreAnswered
