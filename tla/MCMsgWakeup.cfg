SPECIFICATION TrafficSpec
CONSTANTS
  relay = relay
  sink = sink
  p = p
  in = in
  ack = ack
  idle = idle
  end = end
  Nobody = Nobody
  Blocks <- Lone
  Posters <- OnePoster
  PortsOf <- LonePorts
  Handled <- LoneHandled
  Forward <- LoneForward
  Plan <- LonePlan
  Results <- LoneResults
  MaxNmsgs = 1
PROPERTIES
  Delivered
