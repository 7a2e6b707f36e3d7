--------------------------- MODULE MCPackageBuild ---------------------------
(* One chat with a topic beside another chat. *)
EXTENDS PackageBuild

CONSTANTS a, b

MCListing == << <<1, 0>>, <<1, 7>>, <<2, 0>> >>

Policy(tags, important) == [enabled |-> TRUE, tags |-> tags, important |-> important]

MCPolicies ==
  { Policy(<<>>, FALSE), Policy(<<a>>, FALSE), Policy(<<a, b>>, FALSE), Policy(<<b, a>>, TRUE),
    [enabled |-> FALSE, tags |-> <<a>>, important |-> FALSE] }

Scope(origins, tags, groups) == [origins |-> origins, tags |-> tags, groups |-> groups]

MCScopes ==
  { Scope(Origins, {}, <<>>), Scope(Origins, {}, << {a}, {a, b} >>),
    Scope({<<1, 0>>, <<1, 7>>}, {b}, <<>>) }

(* The second message and the third are of the topic. *)
MCMsgChat == [m \in 1 .. 4 |-> IF m = 4 THEN 2 ELSE 1]
MCMsgTopic == [m \in 1 .. 4 |-> IF m \in {2, 3} THEN 7 ELSE 0]
=============================================================================
