--------------------------- MODULE MCLeadingTruck ---------------------------
(* Instances of the leading truck for model checking.  Each configuration   *)
(* picks the workloads whose interplay it is about: how many messages the   *)
(* peers send, and which.                                                   *)
EXTENDS LeadingTruck, TLC

\* Trucks are interchangeable: no action names one.
TruckSymmetry == Permutations(TruckIds)

MCSockets == {4, 5}

Req(c)  == [cmd |-> c, test |-> FALSE, near |-> FALSE]
Near    == [cmd |-> "status", test |-> FALSE, near |-> TRUE]
Test(c) == [cmd |-> c, test |-> TRUE, near |-> FALSE]

MCRequests == {Near, Req("join"), Req("leave"), Req("leave_done"), Req("emergency"),
               Req("obstacle"), Test("test_normal"), Test("test_emergency_on"),
               Test("test_emergency_off"), Test("unknown")}
MCRejections == {"no_key", "auth_failed", "message_format_error"}

Load(connections, messages, requests) ==
    [connections |-> connections, messages |-> messages,
     requests |-> requests, rejections |-> {}]

AlarmLoad ==
    [connections |-> 1, messages |-> 3, rejections |-> MCRejections,
     requests |-> {Near, Req("leave"), Req("emergency"), Test("test_normal"),
                   Test("test_emergency_on"), Test("test_emergency_off"), Test("unknown")}]

JoinLoads         == {Load(2, 4, {Req("join"), Req("leave_done")}), AlarmLoad}
LeaveLoads        == {Load(2, 3, {Req("leave"), Req("emergency")})}
DrainLoads        == {Load(1, 3, {Near, Req("leave"), Req("obstacle"), Test("unknown")})}
DangerLoads       == {Load(1, 3, {Near, Req("obstacle")})}
SignalLoads       == {Load(1, 1, {Test("test_emergency_on")})}
PostponeLoads     == {Load(1, 4, {Req("leave"), Test("test_emergency_on"), Test("test_normal")})}
ReusedSocketLoads == {Load(2, 1, {})}
RetriedLeaveLoads == {Load(1, 6, {Req("leave")})}
=============================================================================
