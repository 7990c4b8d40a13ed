SPECIFICATION TrafficSpec
CONSTANTS
  relay = relay
  sink = sink
  p = p
  in = in
  ack = ack
  idle = idle
  end = end
  Nobody = Nobody
  Blocks <- Both
  Posters <- OnePoster
  PortsOf <- RelayPorts
  Handled <- RelayHandled
  Forward <- RelayForward
  Plan <- RelayPlan
  Results <- RelayResults
  MaxNmsgs = 1
INVARIANTS
  TypeOK
  InOrder
  LostOnlyInWindow
PROPERTIES
  PostsAreServed
