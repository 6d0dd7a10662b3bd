---------------------------- MODULE MCBrokerChoice ----------------------------
EXTENDS BrokerChoice
CONSTANTS id1, id2, host1, host2, ip1, odd

MCPorts == {8883, 443}
MCTexts == MCPorts \cup {id1, id2, host1, host2, ip1, odd, NoText}
MCAddresses == {<<host1, 8883>>, <<ip1, 8883>>, <<host2, 8883>>}
\* A reconnection brings -1.
MCRetries == {1}

First == NewBroker(id1, 8883, host1, ip1)
Moved == NewBroker(id1, 443, host1, NoText)
Second == NewBroker(id2, 8883, host2, NoText)
Unnamed == ParseUrl([protocol |-> NoText, host |-> host2, port |-> NoText])

MCBrokerLists == {<<>>, <<Second, First>>, <<Moved, Unnamed>>}

MCSections == {
    <<[key |-> id1, value |-> <<id1, 8883, host1, ip1>>],
      [key |-> odd, value |-> <<8883, host2>>]>>,
    <<[key |-> id1, value |-> <<id1>>]>>}
=============================================================================
