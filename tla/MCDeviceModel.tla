--------------------------- MODULE MCDeviceModel ---------------------------
(* DeviceModel for TLC: a remaining length of base 4, buffers of a few      *)
(* bytes, messages and reports on both sides of every limit.               *)
EXTENDS DeviceModel, TLC

a == 97
b == 98
MCDown == [SET |-> <<115>>, COMMAND |-> <<99>>, DESIRED_GET |-> <<100>>, POST |-> <<112>>,
           EVENT_POST |-> <<101>>, RESTORE |-> <<114>>, DESIRED_DELETE |-> <<120>>]
MCUp == [SET |-> <<83>>, COMMAND |-> <<67>>, DESIRED_GET |-> <<68>>, POST |-> <<80>>,
         EVENT_POST |-> <<69>>, RESTORE |-> <<82>>, DESIRED_DELETE |-> <<88>>]
MCRegistered == <<"SET", "COMMAND", "EVENT_POST">>

Msg(topic, qos, payload) == [topic |-> topic, qos |-> qos, payload |-> payload]
Fill(n) == [i \in 1 .. n |-> 5]

MCMessage ==
    {Msg(<<115>>, 1, <<1, 7, 3, 8>>),               \* PROPERTY_SET
     Msg(<<99>>, 1, <<1, 6, 5, 0, 6, 0>>),       \* COMMAND
     Msg(<<a>>, 0, Fill(9)),                        \* does not fit with its header
     Msg(<<a>>, 0, Fill(12)),                       \* longer than read_buf
     Msg(<<a, Slash, b, Slash, a>>, 0, <<>>)}       \* topic longer than MaxTopic

MCAppFilter == {<<Plus, Slash, b, Slash, Hash>>}

Node(n) == [type |-> "NODE", value |-> Fill(n)]
MCReport ==
    {<<Node(3)>>,
     <<[type |-> "STRUCT", value |-> <<Fill(8)>>]>>,
     <<[type |-> "ARRAY_BASE", value |-> <<Fill(10), Fill(1), Fill(1)>>]>>,
     <<[type |-> "ARRAY_STRUCT", value |-> <<<<Fill(1)>>>>]>>}
=============================================================================
