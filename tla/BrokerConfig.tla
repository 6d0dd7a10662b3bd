----------------------------- MODULE BrokerConfig -----------------------------
(*
Brokers as the configuration keeps them (broker.py, client_config.py): the
Broker objects, their string form, and the Brokers section of the file.

A text is a token (Texts); a broker string, "id;port;host;ip" with id and ip optional,
is the sequence of its tokens.  The section is a sequence of entries, a key with
a broker string; the key of a broker without an identifier is a new random one
(UuidGenerator), equal to no other, and written NoText.  The other sections,
comments and the syntax of the file are left out.
*)
EXTENDS Naturals, Sequences, FiniteSets

CONSTANTS Texts,
          Ports,        \* the numbers from 1 to 65535 that occur as tokens
          DefaultPort,  \* Broker._SSL_PORT
          Ssl,          \* the protocol "ssl"
          NoText,       \* None or the empty string
          Malformed     \* MalformedBrokerUriException

Brokers == [id : Texts, port : Ports, host : Texts \ {NoText}, ip : Texts]
Entries == [key : Texts, value : Seq(Texts)]

ASSUME BrokerConfigAssumption ==
    /\ Ports \subseteq Texts /\ Ports \subseteq Nat /\ DefaultPort \in Ports
    /\ NoText \in Texts /\ NoText \notin Ports
    /\ Malformed \notin Brokers

IsPortNumber(text) == text \in Ports

\* A Broker object; the setters of host_name and port refuse what is not one.
NewBroker(id, port, host, ip) ==
    IF IsPortNumber(port) /\ host # NoText
    THEN [id |-> id, port |-> port, host |-> host, ip |-> ip]
    ELSE Malformed

\* Broker.parse of [protocol://]host[:port].
ParseUrl(url) ==
    IF url.protocol \in {Ssl, NoText}
    THEN NewBroker(NoText, IF url.port = NoText THEN DefaultPort ELSE url.port,
                   url.host, NoText)
    ELSE Malformed

Element(texts, i) == IF i <= Len(texts) THEN texts[i] ELSE NoText

\* Broker._parse: a first element that is a port number is taken for the port.
Parse(texts) ==
    IF Len(texts) < 2 THEN Malformed
    ELSE IF IsPortNumber(texts[1])
         THEN NewBroker(NoText, texts[1], texts[2], Element(texts, 3))
         ELSE NewBroker(texts[1], texts[2], Element(texts, 3), Element(texts, 4))

Optional(text) == IF text = NoText THEN <<>> ELSE <<text>>

\* Broker._to_broker_string.
ToBrokerString(b) == Optional(b.id) \o <<b.port, b.host>> \o Optional(b.ip)

\* _get_brokers: one malformed entry and the whole list is refused.
Readable(section) == \A i \in 1..Len(section) : Parse(section[i].value) # Malformed
ReadBrokers(section) == [i \in 1..Len(section) |-> Parse(section[i].value)]

\* The last broker of a list with an identifier is the one its key stands for.
ValueOf(id, brokers) ==
    LET last == CHOOSE i \in 1..Len(brokers) :
                    /\ brokers[i].id = id
                    /\ \A j \in (i + 1)..Len(brokers) : brokers[j].id # id
    IN  ToBrokerString(brokers[last])

Ids(brokers) == {brokers[i].id : i \in 1..Len(brokers)} \ {NoText}
Keys(section) == {section[i].key : i \in 1..Len(section)} \ {NoText}

\* The numbers of a finite set in ascending order, and the elements of s there.
Ascending(I) ==
    CHOOSE f \in [1..Cardinality(I) -> I] :
        \A j, k \in 1..Cardinality(I) : j < k => f[j] < f[k]
ElementsAt(s, I) == [k \in 1..Cardinality(I) |-> s[Ascending(I)[k]]]

Kept(section, brokers) == {i \in 1..Len(section) : section[i].key \in Ids(brokers)}
Added(section, brokers) ==
    {i \in 1..Len(brokers) :
        \/ brokers[i].id = NoText
        \/ /\ brokers[i].id \notin Keys(section)
           /\ \A j \in 1..(i - 1) : brokers[j].id # brokers[i].id}

NewEntry(b, brokers) ==
    [key   |-> b.id,
     value |-> IF b.id = NoText THEN ToBrokerString(b) ELSE ValueOf(b.id, brokers)]

\* _update_broker_config_model that leaves the values of existing keys alone.
UpdateModel_OldValues(section, brokers) ==
    LET kept  == ElementsAt(section, Kept(section, brokers))
        added == ElementsAt(brokers, Added(section, brokers))
    IN  kept \o [k \in 1..Len(added) |-> NewEntry(added[k], brokers)]

\* _update_broker_config_model: entries of brokers that are gone are deleted, the
\* others keep their place and get the new value, new ones come behind them.
UpdateModel(section, brokers) ==
    LET kept  == ElementsAt(section, Kept(section, brokers))
        added == ElementsAt(brokers, Added(section, brokers))
    IN  [k \in 1..Len(kept) |-> [kept[k] EXCEPT !.value = ValueOf(kept[k].key, brokers)]]
        \o [k \in 1..Len(added) |-> NewEntry(added[k], brokers)]

\* Lists that the file can hold: identifiers are different and no port numbers.
Storable(brokers) ==
    /\ \A i \in 1..Len(brokers) : ~IsPortNumber(brokers[i].id)
    /\ \A i, j \in 1..Len(brokers) :
           i # j /\ brokers[i].id = brokers[j].id => brokers[i].id = NoText
=============================================================================
