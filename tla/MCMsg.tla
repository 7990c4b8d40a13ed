------------------------------- MODULE MCMsg --------------------------------
(* MsgPort on a streaming relay and a block with message ports only.       *)
EXTENDS MsgPort, TLC

CONSTANTS relay, sink, p, in, ack, idle, end

Both == {relay, sink}

(* relay passes what it gets on to sink, which answers to relay's second   *)
(* port; relay's third port has no handler.                                *)
RelayPorts == (relay :> <<ack, idle, in>>) @@ (sink :> <<end>>)
RelayHandled == {in, ack, end}
RelayForward == (in :> <<end>>) @@ (end :> <<ack>>) @@ (ack :> << >>)
RelayPlan == p :> <<{idle}, {in}, {in}, {idle}>>
RelayResults == (relay :> {"READY", "BLKD_IN", "BLKD_OUT", "DONE"}) @@ (sink :> {})

(* A block with message ports only.                                        *)
Lone == {sink}
OnePoster == {p}
LonePorts == sink :> <<end>>
LoneHandled == {end}
LoneForward == end :> << >>
LonePlan == p :> <<{end}>>
LoneResults == sink :> {}
=============================================================================
