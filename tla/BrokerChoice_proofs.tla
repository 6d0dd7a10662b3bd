-------------------------- MODULE BrokerChoice_proofs --------------------------
(***************************************************************************)
(* Theorems about BrokerChoice for any brokers, sections, addresses and    *)
(* settings: the types, the choice of the fastest broker, the addresses    *)
(* that an attempt goes through, the file, and the delays.                 *)
(***************************************************************************)
EXTENDS BrokerChoice, FiniteSetTheorems, SequenceTheorems, TLAPS

-----------------------------------------------------------------------------
(* Sets of numbers in ascending order *)

\* Every set of natural numbers has a least one: induction without a parameter.
LEMMA LeastNumber ==
    ASSUME NEW T \in SUBSET Nat, T # {}
    PROVE  \E x \in T : \A y \in T : x <= y
  <1> DEFINE R == OpToRel(<, Nat)
  <1>1. \A x, y \in Nat : x < y => <<x, y>> \in R
    BY Zenon DEF OpToRel
  <1>2. IsWellFoundedOn(R, Nat)
    BY NatLessThanWellFounded, Zenon
  <1> HIDE DEF R
  <1>3. PICK x \in T : \A y \in T : ~ (<<y, x>> \in R)
    BY <1>2, WFMin
  <1>4. \A y \in T : ~ (y < x) /\ y \in Nat /\ x \in Nat
    BY <1>1, <1>3
  <1> QED
    BY <1>4

Increasing(f, n) == \A j, k \in 1..n : j < k => f[j] < f[k]

\* A finite set of numbers can be put in order: its least element comes before an
\* order of the others.
LEMMA CanBeOrdered ==
    ASSUME NEW I \in SUBSET Nat, IsFiniteSet(I)
    PROVE  \E f \in [1..Cardinality(I) -> I] : Increasing(f, Cardinality(I))
  <1> DEFINE Ordered(J) == \E f \in [1..Cardinality(J) -> J] : Increasing(f, Cardinality(J))
             Bad == {n \in Nat : \E J \in SUBSET Nat :
                         IsFiniteSet(J) /\ Cardinality(J) = n /\ ~Ordered(J)}
  <1>1. SUFFICES ASSUME Bad # {} PROVE FALSE
    <2>1. Cardinality(I) \in Nat
      BY FS_CardinalityType
    <2> QED
      BY <2>1
  <1>2. PICK n \in Bad : \A m \in Bad : n <= m
    <2>1. Bad \in SUBSET Nat
      OBVIOUS
    <2> HIDE DEF Bad
    <2> QED
      BY <1>1, <2>1, LeastNumber
  <1>3. PICK J \in SUBSET Nat : IsFiniteSet(J) /\ Cardinality(J) = n /\ ~Ordered(J)
    OBVIOUS
  <1>4. n # 0
    <2>1. SUFFICES ASSUME n = 0 PROVE FALSE
      OBVIOUS
    <2>2. [k \in 1..0 |-> 0] \in [1..0 -> J] /\ Increasing([k \in 1..0 |-> 0], 0)
      BY DEF Increasing
    <2> QED
      BY <1>3, <2>1, <2>2
  <1>5. PICK m \in J : \A j \in J : m <= j
    <2>1. J # {}
      BY <1>3, <1>4, FS_EmptySet
    <2> QED
      BY <2>1, LeastNumber
  <1>6. IsFiniteSet(J \ {m}) /\ Cardinality(J \ {m}) = n - 1
    BY <1>3, <1>5, FS_RemoveElement
  <1>7. PICK g \in [1..(n - 1) -> J \ {m}] : Increasing(g, n - 1)
    <2>1. n - 1 \in Nat /\ n - 1 \notin Bad
      BY <1>2, <1>4
    <2>2. Ordered(J \ {m})
      BY <1>6, <2>1
    <2> QED
      BY <1>6, <2>2
  <1> DEFINE f == [k \in 1..n |-> IF k = 1 THEN m ELSE g[k - 1]]
  <1>8. f \in [1..n -> J]
    BY <1>5, <1>7
  <1>9. Increasing(f, n)
    <2> SUFFICES ASSUME NEW j \in 1..n, NEW k \in 1..n, j < k
                 PROVE  f[j] < f[k]
      BY DEF Increasing
    <2>1. k # 1 /\ k - 1 \in 1..(n - 1) /\ f[k] = g[k - 1]
      OBVIOUS
    <2>2. CASE j = 1
      <3>1. f[j] = m /\ g[k - 1] \in J \ {m}
        BY <1>7, <2>1, <2>2
      <3>2. m \in Nat /\ g[k - 1] \in Nat /\ m <= g[k - 1] /\ m # g[k - 1]
        BY <1>5, <3>1
      <3> QED
        BY <2>1, <3>1, <3>2
    <2>3. CASE j # 1
      <3>1. j - 1 \in 1..(n - 1) /\ j - 1 < k - 1
        BY <2>3
      <3> QED
        BY <1>7, <2>1, <2>3, <3>1 DEF Increasing
    <2> QED
      BY <2>2, <2>3
  <1> QED
    BY <1>3, <1>8, <1>9

\* Ascending(I) runs through all of I, upwards.
LEMMA AscendingIsOrder ==
    ASSUME NEW I \in SUBSET Nat, IsFiniteSet(I)
    PROVE  /\ Cardinality(I) \in Nat
           /\ Ascending(I) \in [1..Cardinality(I) -> I]
           /\ Increasing(Ascending(I), Cardinality(I))
           /\ \A i \in I : \E k \in 1..Cardinality(I) : Ascending(I)[k] = i
  <1> DEFINE n == Cardinality(I)
             f == Ascending(I)
  <1>1. n \in Nat
    BY FS_CardinalityType
  <1>2. f \in [1..n -> I] /\ Increasing(f, n)
    BY CanBeOrdered DEF Ascending, Increasing
  <1> HIDE DEF f
  <1>3. f \in Injection(1..n, I)
    <2>1. \A j \in 1..n : f[j] \in Nat /\ j \in Nat
      <3> HIDE DEF n
      <3> SUFFICES ASSUME NEW j \in 1..n PROVE f[j] \in Nat /\ j \in Nat
        OBVIOUS
      <3>1. f[j] \in I
        BY <1>2
      <3>2. j \in Nat
        BY <1>1
      <3> QED
        BY <3>1, <3>2
    <2>2. \A j, k \in 1..n : j < k => f[j] # f[k]
      BY <1>2, <2>1 DEF Increasing
    <2>3. \A j, k \in 1..n : f[j] = f[k] => j = k
      BY <2>1, <2>2
    <2> QED
      BY <1>2, <2>3 DEF Injection, IsInjective
  <1>4. Cardinality(1..n) = n
    BY <1>1, FS_Interval
  <1>5. f \in Surjection(1..n, I)
    BY <1>1, <1>3, <1>4, FS_Injection
  <1> QED
    BY <1>1, <1>2, <1>5 DEF Surjection, f

Elements(s) == {s[i] : i \in 1..Len(s)}

\* What is left of a list at some of its places.
LEMMA ElementsAtPlaces ==
    ASSUME NEW S, NEW s \in Seq(S), NEW I \in SUBSET (1..Len(s))
    PROVE  /\ ElementsAt(s, I) \in Seq(S)
           /\ Elements(ElementsAt(s, I)) = {s[i] : i \in I}
  <1>1. I \in SUBSET Nat /\ IsFiniteSet(I)
    <2>1. Len(s) \in Nat
      OBVIOUS
    <2>2. IsFiniteSet(1..Len(s))
      BY <2>1, FS_Interval
    <2>3. 1..Len(s) \subseteq Nat
      BY <2>1
    <2> QED
      BY <2>2, <2>3, FS_Subset
  <1> DEFINE n == Cardinality(I)
             f == Ascending(I)
  <1>2. /\ n \in Nat /\ f \in [1..n -> I]
        /\ \A i \in I : \E k \in 1..n : f[k] = i
    BY <1>1, AscendingIsOrder
  <1>3. ElementsAt(s, I) = [k \in 1..n |-> s[f[k]]]
    BY DEF ElementsAt
  <1> HIDE DEF n, f
  <1>4. ElementsAt(s, I) \in [1..n -> S]
    <2>1. \A k \in 1..n : f[k] \in 1..Len(s)
      BY <1>2
    <2>2. \A k \in 1..n : s[f[k]] \in S
      BY <2>1
    <2> QED
      BY <1>3, <2>2
  <1>5. ElementsAt(s, I) \in Seq(S) /\ Len(ElementsAt(s, I)) = n
    BY <1>2, <1>4
  <1>6. Elements(ElementsAt(s, I)) \subseteq {s[i] : i \in I}
    <2> SUFFICES ASSUME NEW k \in 1..n PROVE ElementsAt(s, I)[k] \in {s[i] : i \in I}
      BY <1>5 DEF Elements
    <2>1. f[k] \in I
      BY <1>2
    <2> QED
      BY <1>3, <2>1
  <1>7. {s[i] : i \in I} \subseteq Elements(ElementsAt(s, I))
    <2> SUFFICES ASSUME NEW i \in I PROVE \E k \in 1..n : ElementsAt(s, I)[k] = s[i]
      BY <1>5 DEF Elements
    <2>1. PICK k \in 1..n : f[k] = i
      BY <1>2
    <2> QED
      BY <1>3, <2>1
  <1> QED
    BY <1>5, <1>6, <1>7
-----------------------------------------------------------------------------
(* Writing and reading the file *)

USE BrokerConfigAssumption

\* Sequences of tokens, one after the other.
LEMMA OneAndTwo ==
    ASSUME NEW a \in Texts, NEW b \in Texts, NEW c \in Texts
    PROVE  <<a>> \o <<b, c>> = <<a, b, c>>
  <1>1. <<a>> \in Seq(Texts) /\ <<b, c>> \in Seq(Texts) /\ <<a, b, c>> \in Seq(Texts)
    OBVIOUS
  <1>2. /\ <<a>> \o <<b, c>> \in Seq(Texts) /\ Len(<<a>> \o <<b, c>>) = 3
        /\ \A i \in 1..3 : (<<a>> \o <<b, c>>)[i]
                               = IF i <= 1 THEN <<a>>[i] ELSE <<b, c>>[i - 1]
    BY <1>1, ConcatProperties
  <1>3. \A i \in 1..3 : i = 1 \/ i = 2 \/ i = 3
    OBVIOUS
  <1>4. \A i \in 1..3 : (<<a>> \o <<b, c>>)[i] = <<a, b, c>>[i]
    BY <1>2, <1>3
  <1> QED
    BY <1>1, <1>2, <1>4, SeqEqual

LEMMA TwoAndOne ==
    ASSUME NEW a \in Texts, NEW b \in Texts, NEW c \in Texts
    PROVE  <<a, b>> \o <<c>> = <<a, b, c>>
  <1>1. <<a, b>> \in Seq(Texts) /\ <<c>> \in Seq(Texts) /\ <<a, b, c>> \in Seq(Texts)
    OBVIOUS
  <1>2. /\ <<a, b>> \o <<c>> \in Seq(Texts) /\ Len(<<a, b>> \o <<c>>) = 3
        /\ \A i \in 1..3 : (<<a, b>> \o <<c>>)[i]
                               = IF i <= 2 THEN <<a, b>>[i] ELSE <<c>>[i - 2]
    BY <1>1, ConcatProperties
  <1>3. \A i \in 1..3 : i = 1 \/ i = 2 \/ i = 3
    OBVIOUS
  <1>4. \A i \in 1..3 : (<<a, b>> \o <<c>>)[i] = <<a, b, c>>[i]
    BY <1>2, <1>3
  <1> QED
    BY <1>1, <1>2, <1>4, SeqEqual

LEMMA ThreeAndOne ==
    ASSUME NEW a \in Texts, NEW b \in Texts, NEW c \in Texts, NEW d \in Texts
    PROVE  <<a, b, c>> \o <<d>> = <<a, b, c, d>>
  <1>1. <<a, b, c>> \in Seq(Texts) /\ <<d>> \in Seq(Texts) /\ <<a, b, c, d>> \in Seq(Texts)
    OBVIOUS
  <1>2. /\ <<a, b, c>> \o <<d>> \in Seq(Texts) /\ Len(<<a, b, c>> \o <<d>>) = 4
        /\ \A i \in 1..4 : (<<a, b, c>> \o <<d>>)[i]
                               = IF i <= 3 THEN <<a, b, c>>[i] ELSE <<d>>[i - 3]
    BY <1>1, ConcatProperties
  <1>3. \A i \in 1..4 : i = 1 \/ i = 2 \/ i = 3 \/ i = 4
    OBVIOUS
  <1>4. \A i \in 1..4 : (<<a, b, c>> \o <<d>>)[i] = <<a, b, c, d>>[i]
    BY <1>2, <1>3
  <1> QED
    BY <1>1, <1>2, <1>4, SeqEqual

\* The string of a broker is read back as the broker, whatever it has of an
\* identifier and an address, if the identifier is not taken for the port.
LEMMA RoundTrip ==
    ASSUME NEW b \in Brokers
    PROVE  /\ ToBrokerString(b) \in Seq(Texts)
           /\ ~IsPortNumber(b.id) => Parse(ToBrokerString(b)) = b
  <1>1. /\ b = [id |-> b.id, port |-> b.port, host |-> b.host, ip |-> b.ip]
        /\ b.id \in Texts /\ b.port \in Ports /\ b.host \in Texts /\ b.ip \in Texts
        /\ b.host # NoText /\ b.port \in Texts
    BY DEF Brokers
  <1>a. /\ <<b.port, b.host>> \in Seq(Texts) /\ <<b.id, b.port, b.host>> \in Seq(Texts)
        /\ <<b.port, b.host, b.ip>> \in Seq(Texts)
    BY <1>1
  <1>2. CASE b.id = NoText /\ b.ip = NoText
    <2>1. ToBrokerString(b) = <<b.port, b.host>>
      BY <1>2, <1>a, ConcatEmptySeq DEF ToBrokerString, Optional
    <2> QED
      BY <1>1, <1>2, <2>1 DEF Parse, Element, NewBroker, IsPortNumber
  <1>3. CASE b.id = NoText /\ b.ip # NoText
    <2>1. ToBrokerString(b) = (<<>> \o <<b.port, b.host>>) \o <<b.ip>>
      BY <1>3 DEF ToBrokerString, Optional
    <2>1a. <<>> \o <<b.port, b.host>> = <<b.port, b.host>>
      BY <1>a, ConcatEmptySeq
    <2>1b. <<b.port, b.host>> \o <<b.ip>> = <<b.port, b.host, b.ip>>
      BY <1>1, TwoAndOne
    <2>2. ToBrokerString(b) = <<b.port, b.host, b.ip>>
      BY <2>1, <2>1a, <2>1b, Zenon
    <2> QED
      BY <1>1, <1>3, <2>2 DEF Parse, Element, NewBroker, IsPortNumber
  <1>4. CASE b.id # NoText /\ b.ip = NoText
    <2>1. ToBrokerString(b) = (<<b.id>> \o <<b.port, b.host>>) \o <<>>
      BY <1>4 DEF ToBrokerString, Optional
    <2>1a. <<b.id>> \o <<b.port, b.host>> = <<b.id, b.port, b.host>>
      BY <1>1, OneAndTwo
    <2>1b. <<b.id, b.port, b.host>> \o <<>> = <<b.id, b.port, b.host>>
      BY <1>a, ConcatEmptySeq
    <2>2. ToBrokerString(b) = <<b.id, b.port, b.host>>
      BY <2>1, <2>1a, <2>1b, Zenon
    <2> QED
      BY <1>1, <1>4, <2>2 DEF Parse, Element, NewBroker, IsPortNumber
  <1>5. CASE b.id # NoText /\ b.ip # NoText
    <2>1. ToBrokerString(b) = (<<b.id>> \o <<b.port, b.host>>) \o <<b.ip>>
      BY <1>5 DEF ToBrokerString, Optional
    <2>1a. <<b.id>> \o <<b.port, b.host>> = <<b.id, b.port, b.host>>
      BY <1>1, OneAndTwo
    <2>1b. <<b.id, b.port, b.host>> \o <<b.ip>> = <<b.id, b.port, b.host, b.ip>>
      BY <1>1, ThreeAndOne
    <2>2. ToBrokerString(b) = <<b.id, b.port, b.host, b.ip>>
      BY <2>1, <2>1a, <2>1b, Zenon
    <2> QED
      BY <1>1, <1>5, <2>2 DEF Parse, Element, NewBroker, IsPortNumber
  <1> QED
    BY <1>2, <1>3, <1>4, <1>5

\* Whatever the parser accepts is a broker.
LEMMA ParsedIsBroker ==
    ASSUME NEW texts \in Seq(Texts), Parse(texts) # Malformed
    PROVE  Parse(texts) \in Brokers
  <1>1. \A i \in Nat \ {0} : Element(texts, i) \in Texts
    BY DEF Element
  <1>2. Len(texts) >= 2 => texts[1] \in Texts /\ texts[2] \in Texts
    OBVIOUS
  <1>3. \A id, port, host, ip \in Texts :
            NewBroker(id, port, host, ip) \in Brokers \cup {Malformed}
    BY DEF NewBroker, Brokers, IsPortNumber
  <1> QED
    <2>1. Len(texts) >= 2
      BY DEF Parse
    <2>2. /\ texts[1] \in Texts /\ texts[2] \in Texts
          /\ Element(texts, 3) \in Texts /\ Element(texts, 4) \in Texts
      BY <1>1, <1>2, <2>1
    <2>3. \/ Parse(texts) = NewBroker(NoText, texts[1], texts[2], Element(texts, 3))
          \/ Parse(texts) = NewBroker(texts[1], texts[2], Element(texts, 3), Element(texts, 4))
      BY <2>1 DEF Parse
    <2>4. NoText \in Texts
      OBVIOUS
    <2>5. NewBroker(NoText, texts[1], texts[2], Element(texts, 3)) \in Brokers \cup {Malformed}
      BY <1>3, <2>2, <2>4
    <2>6. NewBroker(texts[1], texts[2], Element(texts, 3), Element(texts, 4))
              \in Brokers \cup {Malformed}
      BY <1>3, <2>2
    <2> QED
      BY <2>3, <2>5, <2>6

\* The value for an identifier is the string of a broker that has it.
LEMMA ValueOfIsString ==
    ASSUME NEW bs \in Seq(Brokers), NEW id \in Ids(bs)
    PROVE  \E i \in 1..Len(bs) : bs[i].id = id /\ ValueOf(id, bs) = ToBrokerString(bs[i])
  <1> DEFINE IsLast(i) == bs[i].id = id /\ \A j \in (i + 1)..Len(bs) : bs[j].id # id
             Rest == {Len(bs) - i : i \in {k \in 1..Len(bs) : bs[k].id = id}}
  <1>1. Rest \in SUBSET Nat /\ Rest # {}
    BY DEF Ids
  <1>2. PICK d \in Rest : \A e \in Rest : d <= e
    BY <1>1, LeastNumber
  <1>3. PICK i \in 1..Len(bs) : bs[i].id = id /\ d = Len(bs) - i
    BY <1>2
  <1>4. IsLast(i)
    <2> SUFFICES ASSUME NEW j \in (i + 1)..Len(bs), bs[j].id = id PROVE FALSE
      BY <1>3
    <2>1. j \in 1..Len(bs) /\ Len(bs) - j \in Rest
      BY <1>3
    <2>2. Len(bs) - i <= Len(bs) - j
      BY <1>2, <1>3, <2>1
    <2> QED
      BY <2>1, <2>2
  <1> DEFINE last == CHOOSE k \in 1..Len(bs) : IsLast(k)
  <1>5. last \in 1..Len(bs) /\ IsLast(last)
    BY <1>4
  <1>6. ValueOf(id, bs) = ToBrokerString(bs[last])
    BY DEF ValueOf
  <1> QED
    BY <1>5, <1>6

\* The entries of the new section: the keys that stay and those that are added.
LEMMA ModelEntries ==
    ASSUME NEW s \in Seq(Entries), NEW bs \in Seq(Brokers)
    PROVE  /\ UpdateModel(s, bs) \in Seq(Entries)
           /\ Elements(UpdateModel(s, bs)) =
                  {[key |-> s[i].key, value |-> ValueOf(s[i].key, bs)] : i \in Kept(s, bs)}
                  \cup {NewEntry(bs[i], bs) : i \in Added(s, bs)}
  <1> DEFINE kept  == ElementsAt(s, Kept(s, bs))
             added == ElementsAt(bs, Added(s, bs))
             old   == [k \in 1..Len(kept) |-> [kept[k] EXCEPT !.value = ValueOf(kept[k].key, bs)]]
             new   == [k \in 1..Len(added) |-> NewEntry(added[k], bs)]
  <1>1. \A id \in Ids(bs) : ValueOf(id, bs) \in Seq(Texts)
    <2> SUFFICES ASSUME NEW id \in Ids(bs) PROVE ValueOf(id, bs) \in Seq(Texts)
      OBVIOUS
    <2>1. PICK i \in 1..Len(bs) : ValueOf(id, bs) = ToBrokerString(bs[i])
      BY ValueOfIsString
    <2> QED
      BY <2>1, RoundTrip
  <1>2. kept \in Seq(Entries) /\ Elements(kept) = {s[i] : i \in Kept(s, bs)}
    BY ElementsAtPlaces DEF Kept
  <1>3. added \in Seq(Brokers) /\ Elements(added) = {bs[i] : i \in Added(s, bs)}
    BY ElementsAtPlaces DEF Added
  <1> HIDE DEF kept, added
  <1>4. \A k \in 1..Len(kept) :
            /\ kept[k] \in Entries /\ kept[k].key \in Ids(bs)
            /\ [kept[k] EXCEPT !.value = ValueOf(kept[k].key, bs)]
                   = [key |-> kept[k].key, value |-> ValueOf(kept[k].key, bs)]
    <2> SUFFICES ASSUME NEW k \in 1..Len(kept)
                 PROVE  /\ kept[k] \in Entries /\ kept[k].key \in Ids(bs)
                        /\ [kept[k] EXCEPT !.value = ValueOf(kept[k].key, bs)]
                               = [key |-> kept[k].key, value |-> ValueOf(kept[k].key, bs)]
      OBVIOUS
    <2>1. PICK i \in Kept(s, bs) : kept[k] = s[i]
      BY <1>2 DEF Elements
    <2>2. kept[k] \in Entries /\ kept[k].key \in Ids(bs)
      BY <2>1 DEF Kept
    <2>3. \A e \in Entries : \A v : [e EXCEPT !.value = v] = [key |-> e.key, value |-> v]
      BY DEF Entries
    <2> QED
      BY <2>2, <2>3
  <1>5. old \in [1..Len(kept) -> Entries] /\ Len(kept) \in Nat
    <2>1. \A k \in 1..Len(kept) :
              [kept[k] EXCEPT !.value = ValueOf(kept[k].key, bs)] \in Entries
      <3> SUFFICES ASSUME NEW k \in 1..Len(kept)
                   PROVE  [key |-> kept[k].key, value |-> ValueOf(kept[k].key, bs)] \in Entries
        BY <1>4
      <3>1. kept[k].key \in Texts /\ ValueOf(kept[k].key, bs) \in Seq(Texts)
        BY <1>1, <1>4 DEF Entries
      <3> QED
        BY <3>1 DEF Entries
    <2> QED
      BY <1>2, <2>1
  <1>6. \A k \in 1..Len(added) : NewEntry(added[k], bs) \in Entries
    <2> SUFFICES ASSUME NEW k \in 1..Len(added) PROVE NewEntry(added[k], bs) \in Entries
      OBVIOUS
    <2>1. added[k] \in Brokers
      BY <1>3
    <2>1a. added[k].id \in Texts
      BY <2>1 DEF Brokers
    <2>2. added[k].id # NoText => added[k].id \in Ids(bs)
      BY <1>3 DEF Elements, Added, Ids
    <2> QED
      BY <1>1, <2>1, <2>1a, <2>2, RoundTrip DEF NewEntry, Entries
  <1>7. new \in [1..Len(added) -> Entries] /\ Len(added) \in Nat
    BY <1>3, <1>6
  <1>8. /\ old \in Seq(Entries) /\ Len(old) = Len(kept)
        /\ new \in Seq(Entries) /\ Len(new) = Len(added)
    BY <1>5, <1>7
  <1>9. UpdateModel(s, bs) = old \o new
    BY DEF UpdateModel, kept, added
  <1>10. Elements(old) = {[key |-> s[i].key, value |-> ValueOf(s[i].key, bs)] : i \in Kept(s, bs)}
    <2>1. Elements(old) = {[key |-> e.key, value |-> ValueOf(e.key, bs)] : e \in Elements(kept)}
      <3>1. \A k \in 1..Len(kept) : old[k] = [key |-> kept[k].key, value |-> ValueOf(kept[k].key, bs)]
        BY <1>4
      <3> HIDE DEF old
      <3> QED
        BY <1>8, <3>1 DEF Elements
    <2> QED
      BY <1>2, <2>1
  <1>11. Elements(new) = {NewEntry(bs[i], bs) : i \in Added(s, bs)}
    <2>1. Elements(new) = {NewEntry(b, bs) : b \in Elements(added)}
      BY <1>8 DEF Elements
    <2> QED
      BY <1>3, <2>1
  <1> HIDE DEF old, new
  <1>12. old \o new \in Seq(Entries) /\ Elements(old \o new) = Elements(old) \cup Elements(new)
    <2>1. /\ old \o new \in Seq(Entries) /\ Len(old \o new) = Len(old) + Len(new)
          /\ \A i \in 1..(Len(old) + Len(new)) :
                 (old \o new)[i] = IF i <= Len(old) THEN old[i] ELSE new[i - Len(old)]
      BY <1>8, ConcatProperties
    <2>2. Elements(old \o new) \subseteq Elements(old) \cup Elements(new)
      <3> SUFFICES ASSUME NEW i \in 1..(Len(old) + Len(new))
                   PROVE  (old \o new)[i] \in Elements(old) \cup Elements(new)
        BY <2>1 DEF Elements
      <3>1. CASE i <= Len(old)
        BY <1>8, <2>1, <3>1 DEF Elements
      <3>2. CASE ~(i <= Len(old))
        <4>1. i - Len(old) \in 1..Len(new)
          BY <1>8, <3>2
        <4> QED
          BY <2>1, <3>2, <4>1 DEF Elements
      <3> QED
        BY <3>1, <3>2
    <2>3. Elements(old) \subseteq Elements(old \o new)
      BY <1>8, <2>1 DEF Elements
    <2>4. Elements(new) \subseteq Elements(old \o new)
      <3> SUFFICES ASSUME NEW i \in 1..Len(new) PROVE new[i] \in Elements(old \o new)
        BY DEF Elements
      <3>1. /\ Len(old) + i \in 1..(Len(old) + Len(new)) /\ ~(Len(old) + i <= Len(old))
            /\ Len(old) + i - Len(old) = i
        BY <1>8
      <3>2. (old \o new)[Len(old) + i] = new[i]
        BY <2>1, <3>1
      <3> QED
        BY <2>1, <3>1, <3>2 DEF Elements
    <2> QED
      BY <2>1, <2>2, <2>3, <2>4
  <1> QED
    BY <1>9, <1>10, <1>11, <1>12

\* Whatever the section was, the brokers of a storable list are read from the new
\* one, and no others.
LEMMA ModelIsRead ==
    ASSUME NEW s \in Seq(Entries), NEW bs \in Seq(Brokers), Storable(bs)
    PROVE  /\ Readable(UpdateModel(s, bs))
           /\ Elements(ReadBrokers(UpdateModel(s, bs))) = Elements(bs)
  <1> DEFINE model == UpdateModel(s, bs)
  <1>1. model \in Seq(Entries)
    BY ModelEntries
  <1>2. \A i \in 1..Len(bs) : bs[i] \in Brokers /\ Parse(ToBrokerString(bs[i])) = bs[i]
    BY RoundTrip DEF Storable
  <1>3. \A i \in 1..Len(bs) : bs[i].id # NoText => ValueOf(bs[i].id, bs) = ToBrokerString(bs[i])
    <2> SUFFICES ASSUME NEW i \in 1..Len(bs), bs[i].id # NoText
                 PROVE  ValueOf(bs[i].id, bs) = ToBrokerString(bs[i])
      OBVIOUS
    <2>1. bs[i].id \in Ids(bs)
      BY DEF Ids
    <2>2. PICK j \in 1..Len(bs) :
              bs[j].id = bs[i].id /\ ValueOf(bs[i].id, bs) = ToBrokerString(bs[j])
      BY <2>1, ValueOfIsString
    <2>3. i = j
      BY <2>2 DEF Storable
    <2> QED
      BY <2>2, <2>3
  <1>4. \A e \in Elements(model) : \E i \in 1..Len(bs) : Parse(e.value) = bs[i]
    <2> SUFFICES ASSUME NEW e \in Elements(model)
                 PROVE  \E i \in 1..Len(bs) : e.value = ToBrokerString(bs[i])
      BY <1>2
    <2>1. CASE \E k \in Kept(s, bs) : e = [key |-> s[k].key, value |-> ValueOf(s[k].key, bs)]
      <3>1. PICK k \in Kept(s, bs) : e.value = ValueOf(s[k].key, bs)
        BY <2>1
      <3> QED
        BY <3>1, ValueOfIsString DEF Kept
    <2>2. CASE \E k \in Added(s, bs) : e = NewEntry(bs[k], bs)
      <3>1. PICK k \in Added(s, bs) : e = NewEntry(bs[k], bs)
        BY <2>2
      <3>2. k \in 1..Len(bs)
        BY DEF Added
      <3>3. e.value = ToBrokerString(bs[k])
        BY <1>3, <3>1, <3>2 DEF NewEntry
      <3> QED
        BY <3>2, <3>3
    <2>3. e \in {[key |-> s[k].key, value |-> ValueOf(s[k].key, bs)] : k \in Kept(s, bs)}
                 \cup {NewEntry(bs[k], bs) : k \in Added(s, bs)}
      BY ModelEntries, Zenon
    <2> QED
      BY <2>1, <2>2, <2>3
  <1>5. \A i \in 1..Len(bs) : \E e \in Elements(model) : Parse(e.value) = bs[i]
    <2> SUFFICES ASSUME NEW i \in 1..Len(bs)
                 PROVE  \E e \in Elements(model) : e.value = ToBrokerString(bs[i])
      BY <1>2
    <2>1. CASE i \in Added(s, bs)
      <3>1. NewEntry(bs[i], bs) \in Elements(model)
        BY <2>1, ModelEntries
      <3>2. NewEntry(bs[i], bs).value = ToBrokerString(bs[i])
        BY <1>3 DEF NewEntry
      <3> QED
        BY <3>1, <3>2
    <2>2. CASE i \notin Added(s, bs)
      <3>1. bs[i].id # NoText /\ \A j \in 1..(i - 1) : bs[j].id # bs[i].id
        BY <2>2 DEF Added, Storable
      <3>2. PICK k \in 1..Len(s) : s[k].key = bs[i].id
        BY <2>2, <3>1 DEF Added, Keys
      <3>3. k \in Kept(s, bs)
        BY <3>1, <3>2 DEF Kept, Ids
      <3>4. [key |-> s[k].key, value |-> ValueOf(s[k].key, bs)] \in Elements(model)
        BY <3>3, ModelEntries
      <3> QED
        BY <1>3, <3>1, <3>2, <3>4
    <2> QED
      BY <2>1, <2>2
  <1> HIDE DEF model
  <1>6. Readable(model)
    <2> SUFFICES ASSUME NEW k \in 1..Len(model) PROVE Parse(model[k].value) # Malformed
      BY DEF Readable
    <2>1. \E i \in 1..Len(bs) : Parse(model[k].value) = bs[i]
      BY <1>4 DEF Elements
    <2> QED
      BY <1>2, <2>1
  <1>7. /\ Len(ReadBrokers(model)) = Len(model)
        /\ \A k \in 1..Len(model) : ReadBrokers(model)[k] = Parse(model[k].value)
    BY <1>1 DEF ReadBrokers
  <1>8. Elements(ReadBrokers(model)) = {Parse(e.value) : e \in Elements(model)}
    BY <1>7 DEF Elements
  <1>9. Elements(ReadBrokers(model)) = Elements(bs)
    BY <1>4, <1>5, <1>8 DEF Elements
  <1> QED
    BY <1>6, <1>9 DEF model
-----------------------------------------------------------------------------
(* Delays *)

USE BrokerChoiceAssumption

\* The share of a delay that is added at random, at most.
Share(d) == (RandomPercent * d) \div 100

LEMMA ShareType == \A d \in Nat : Share(d) \in Nat
  <1> SUFFICES ASSUME NEW d \in Nat PROVE Share(d) \in Nat
    OBVIOUS
  <1>1. RandomPercent * d \in Nat
    OBVIOUS
  <1>2. \A n \in Nat : n \div 100 \in Nat
    OBVIOUS
  <1> QED
    BY <1>1, <1>2 DEF Share

\* The delay is capped before its random share is added and before it is waited
\* for; what it is multiplied to is capped the next time.
LEMMA DelayBack ==
    ASSUME delay \in Nat, NEW extra \in Extras, Back(extra)
    PROVE  delay' \in Nat /\ waited' \in Nat /\ waited' <= DelayMax + Share(DelayMax)
  <1> DEFINE capped == IF delay > DelayMax THEN DelayMax ELSE delay
  <1>1. capped \in Nat /\ capped <= DelayMax
    OBVIOUS
  <1>2. extra \in Nat /\ extra <= Share(DelayMax)
    BY ShareType DEF Extras, Share
  <1>3. waited' = extra + capped /\ delay' = Multiplier * waited'
    BY DEF Back, Wait
  <1> HIDE DEF capped
  <1>4. waited' \in Nat /\ waited' <= DelayMax + Share(DelayMax)
    BY <1>1, <1>2, <1>3, ShareType
  <1> QED
    BY <1>3, <1>4

LEMMA DelayNext ==
    ASSUME TypeOK, DelayBounded, [Next]_vars
    PROVE  DelayBounded'
  <1> USE DEF config, loop
  <1>1. CASE UNCHANGED vars
    BY <1>1 DEF vars, DelayBounded
  <1>2. CASE SetBrokers \/ Write \/ Load \/ NetChange
    BY <1>2 DEF SetBrokers, Write, Load, NetChange, DelayBounded
  <1>3. CASE (\E n \in Retries : Connect(n)) \/ Reconnect \/ Disconnect
    BY <1>3 DEF Connect, Reconnect, Disconnect, DelayBounded
  <1>4. CASE Quit \/ Launch
    BY <1>4, ShareType DEF Quit, Launch, EndThread, DelayBounded, Share
  <1>5. CASE HaveBrokers \/ Check \/ BeginAttempt \/ Try \/ Failed
    BY <1>5 DEF HaveBrokers, Check, BeginAttempt, Try, Failed, DelayBounded
  <1>6. CASE Sort
    BY <1>6 DEF Sort, DelayBounded
  <1>7. CASE \E extra \in Extras : Back(extra)
    BY <1>7, DelayBack DEF TypeOK, DelayBounded, Share
  <1> QED
    BY <1>1, <1>2, <1>3, <1>4, <1>5, <1>6, <1>7 DEF Next, ThreadStep

-----------------------------------------------------------------------------
(* Types *)

\* A function on the first numbers is a list.
LEMMA FunctionIsSeq ==
    ASSUME NEW S, NEW n \in Nat, NEW f \in [1..n -> S]
    PROVE  f \in Seq(S)
  <1>1. f \in UNION {[1..m -> S] : m \in Nat}
    OBVIOUS
  <1> QED
    BY <1>1, SeqDef

LEMMA ObjectsType == \A list \in Seq(Brokers) : Objects(list) \in Seq(ObjectSet)
  <1> SUFFICES ASSUME NEW list \in Seq(Brokers) PROVE Objects(list) \in Seq(ObjectSet)
    OBVIOUS
  <1>1. \A b \in Brokers : Untested(b) \in ObjectSet
    BY DEF Untested, ObjectSet
  <1>2. Objects(list) \in [1..Len(list) -> ObjectSet] /\ Len(list) \in Nat
    BY <1>1 DEF Objects
  <1> QED
    BY <1>2

LEMMA PlainType == \A objects \in Seq(ObjectSet) : Plain(objects) \in Seq(Brokers)
  <1> SUFFICES ASSUME NEW objects \in Seq(ObjectSet) PROVE Plain(objects) \in Seq(Brokers)
    OBVIOUS
  <1>1. \A o \in ObjectSet : o.broker \in Brokers
    BY DEF ObjectSet
  <1>2. Plain(objects) \in [1..Len(objects) -> Brokers] /\ Len(objects) \in Nat
    BY <1>1 DEF Plain
  <1> QED
    BY <1>2

LEMMA ReadType ==
    ASSUME NEW s \in Seq(Entries), Readable(s)
    PROVE  ReadBrokers(s) \in Seq(Brokers)
  <1>1. \A i \in 1..Len(s) : Parse(s[i].value) \in Brokers
    <2> SUFFICES ASSUME NEW i \in 1..Len(s) PROVE Parse(s[i].value) \in Brokers
      OBVIOUS
    <2>1. s[i] \in Entries
      OBVIOUS
    <2>2. s[i].value \in Seq(Texts)
      BY <2>1 DEF Entries
    <2> QED
      BY <2>2, ParsedIsBroker DEF Readable
  <1>2. ReadBrokers(s) \in [1..Len(s) -> Brokers] /\ Len(s) \in Nat
    BY <1>1 DEF ReadBrokers
  <1> QED
    BY <1>2

\* A check changes what is known of a broker, not the broker.
LEMMA CheckedType ==
    ASSUME NEW o \in ObjectSet, NEW t \in 1..MaxTime
    PROVE  Checked(o, t) \in ObjectSet /\ Checked(o, t).broker = o.broker
  <1>1. t \in 0..MaxTime
    OBVIOUS
  <1>2. o.broker \in Brokers /\ o.time \in 0..MaxTime /\ o.via \in BOOLEAN
    BY DEF ObjectSet
  <1>3. \A answered :
            [o EXCEPT !.answered = answered]
                = [broker |-> o.broker, time |-> o.time, via |-> o.via, answered |-> answered]
    BY DEF ObjectSet
  <1> QED
    BY <1>1, <1>2, <1>3 DEF Checked, Reached, ObjectSet

Flags == terminate \in BOOLEAN /\ unlimited \in BOOLEAN /\ calm \in BOOLEAN /\ steady \in BOOLEAN

LEMMA FlagsNext == Flags /\ [Next]_vars => Flags'
  <1> SUFFICES ASSUME Flags, [Next]_vars PROVE Flags'
    OBVIOUS
  <1> USE DEF Flags, config, loop
  <1>1. CASE UNCHANGED vars
    BY <1>1, Zenon DEF vars
  <1>2. CASE SetBrokers \/ Write \/ Load \/ NetChange
    BY <1>2, Zenon DEF SetBrokers, Write, Load, NetChange
  <1>3. CASE \E n \in Retries : Connect(n)
    <2>1. PICK n \in Retries : Connect(n)
      BY <1>3
    <2>2. (n < 0) \in BOOLEAN
      OBVIOUS
    <2> QED
      BY <2>1, <2>2, Zenon DEF Connect, Begin
  <1>4. CASE Reconnect \/ Disconnect
    <2>1. (-1 < 0) \in BOOLEAN
      OBVIOUS
    <2>2. CASE Reconnect
      BY <2>1, <2>2, Zenon DEF Reconnect, Begin
    <2>3. CASE Disconnect
      BY <2>3, Zenon DEF Disconnect
    <2> QED
      BY <1>4, <2>2, <2>3
  <1>5. CASE Quit \/ Launch
    BY <1>5, Zenon DEF Quit, Launch, EndThread
  <1>6. CASE HaveBrokers \/ Check \/ Sort
    BY <1>6, Zenon DEF HaveBrokers, Check, Sort
  <1>7. CASE BeginAttempt \/ Try \/ Failed
    BY <1>7, Zenon DEF BeginAttempt, Try, Failed
  <1>8. CASE \E extra \in Extras : Back(extra)
    BY <1>8, Zenon DEF Back
  <1> QED
    BY <1>1, <1>2, <1>3, <1>4, <1>5, <1>6, <1>7, <1>8 DEF Next, ThreadStep

Lists ==
    /\ brokers \in Seq(ObjectSet) /\ order \in Seq(ObjectSet)
    /\ section \in Seq(Entries) /\ saved \in Seq(Brokers)

LEMMA ListsNext == Lists /\ [Next]_vars => Lists'
  <1> SUFFICES ASSUME Lists, [Next]_vars PROVE Lists'
    OBVIOUS
  <1> USE DEF Lists, config, loop
  <1>1. CASE UNCHANGED vars
    BY <1>1 DEF vars
  <1>2. CASE SetBrokers
    BY <1>2, ObjectsType DEF SetBrokers
  <1>3. CASE Write
    BY <1>3, PlainType, ModelEntries DEF Write
  <1>4. CASE Load
    BY <1>4, ReadType, ObjectsType DEF Load
  <1>5. CASE NetChange \/ (\E n \in Retries : Connect(n)) \/ Reconnect \/ Disconnect
    BY <1>5 DEF NetChange, Connect, Reconnect, Disconnect
  <1>6. CASE Quit \/ Launch
    <2>1. <<>> \in Seq(ObjectSet)
      OBVIOUS
    <2> QED
      BY <1>6, <2>1, Zenon DEF Quit, Launch, EndThread
  <1>7. CASE HaveBrokers \/ BeginAttempt \/ Try \/ Failed \/ (\E extra \in Extras : Back(extra))
    BY <1>7 DEF HaveBrokers, BeginAttempt, Try, Failed, Back
  <1>8. CASE Check
    <2>1. PICK t \in [1..Len(brokers) -> 1..MaxTime] :
              brokers' = [i \in 1..Len(brokers) |-> Checked(brokers[i], t[i])]
      BY <1>8 DEF Check
    <2>2. \A i \in 1..Len(brokers) : Checked(brokers[i], t[i]) \in ObjectSet
      <3> SUFFICES ASSUME NEW i \in 1..Len(brokers) PROVE Checked(brokers[i], t[i]) \in ObjectSet
        OBVIOUS
      <3>1. brokers[i] \in ObjectSet /\ t[i] \in 1..MaxTime
        OBVIOUS
      <3> QED
        BY <3>1, CheckedType
    <2>3. brokers' \in [1..Len(brokers) -> ObjectSet] /\ Len(brokers) \in Nat
      BY <2>1, <2>2
    <2>4. brokers' \in Seq(ObjectSet)
      BY <2>3, FunctionIsSeq
    <2>5. UNCHANGED <<section, saved, order>>
      BY <1>8 DEF Check
    <2> QED
      BY <2>4, <2>5
  <1>9. CASE Sort
    <2>1. PICK f \in [1..Len(brokers) -> 1..Len(brokers)] :
              order' = [k \in 1..Len(brokers) |-> brokers[f[k]]]
      BY <1>9 DEF Sort
    <2>2. \A k \in 1..Len(brokers) : brokers[f[k]] \in ObjectSet
      <3> SUFFICES ASSUME NEW k \in 1..Len(brokers) PROVE brokers[f[k]] \in ObjectSet
        OBVIOUS
      <3>1. f[k] \in 1..Len(brokers)
        OBVIOUS
      <3> QED
        BY <3>1
    <2>3. order' \in [1..Len(brokers) -> ObjectSet] /\ Len(brokers) \in Nat
      BY <2>1, <2>2
    <2>4. order' \in Seq(ObjectSet)
      BY <2>3, FunctionIsSeq
    <2>5. UNCHANGED <<brokers, section, saved>>
      BY <1>9 DEF Sort
    <2> QED
      BY <2>4, <2>5
  <1> QED
    BY <1>1, <1>2, <1>3, <1>4, <1>5, <1>6, <1>7, <1>8, <1>9 DEF Next, ThreadStep

LEMMA TypeInit == Init => TypeOK
  <1> SUFFICES ASSUME Init PROVE TypeOK
    OBVIOUS
  <1>1. Flags
    BY Zenon DEF Init, Flags
  <1>2. Lists
    BY DEF Init, Lists
  <1>3. net \in [Addresses -> {"down", "slow", "up"}]
    <2>1. net \in [Addresses -> {"down", "up"}]
      BY DEF Init
    <2> QED
      BY <2>1
  <1> QED
    BY <1>1, <1>2, <1>3 DEF Init, TypeOK, Flags, Lists

LEMMA TypeNext == TypeOK /\ [Next]_vars => TypeOK'
  <1> SUFFICES ASSUME TypeOK, [Next]_vars PROVE TypeOK'
    OBVIOUS
  <1> DEFINE Steps == {"idle", "list", "check", "sort", "begin", "try", "delay", "finish", "launched"}
             Numbers == retries \in Int /\ delay \in Nat /\ waited \in Nat /\ changes \in Nat
             Where == turn \in {"timed", "host", "ip"} /\ place \in Nat \ {0}
             Net == net \in [Addresses -> {"down", "slow", "up"}]
  <1>1. Flags' /\ Lists'
    BY FlagsNext, ListsNext DEF TypeOK, Flags, Lists
  <1>2. (Numbers /\ Where /\ Net /\ pc \in Steps)'
    <2> USE DEF TypeOK, config, loop
    <2>1. CASE UNCHANGED vars
      BY <2>1 DEF vars
    <2>2. CASE SetBrokers \/ Write \/ Load
      BY <2>2 DEF SetBrokers, Write, Load, Change
    <2>2a. CASE NetChange
      <3>1. PICK a \in Addresses, s \in {"down", "slow", "up"} : net' = [net EXCEPT ![a] = s]
        BY <2>2a DEF NetChange
      <3>2. Net'
        BY <3>1
      <3> QED
        BY <2>2a, <3>2 DEF NetChange, Change
    <2>3. CASE \E n \in Retries : Connect(n)
      BY <2>3 DEF Connect, Begin
    <2>4. CASE Reconnect \/ Disconnect
      BY <2>4 DEF Reconnect, Begin, Disconnect
    <2>5. CASE Quit \/ Launch
      BY <2>5 DEF Quit, Launch, EndThread
    <2>6. CASE HaveBrokers \/ Check \/ Sort \/ BeginAttempt
      BY <2>6 DEF HaveBrokers, Check, Sort, BeginAttempt
    <2>7. CASE Try
      BY <2>7 DEF Try, Advance
    <2>8. CASE Failed
      BY <2>8 DEF Failed
    <2>9. CASE \E extra \in Extras : Back(extra)
      <3>1. PICK extra \in Extras : Back(extra)
        BY <2>9
      <3>2. delay' \in Nat /\ waited' \in Nat
        BY <3>1, DelayBack
      <3> QED
        BY <3>1, <3>2 DEF Back
    <2> QED
      BY <2>1, <2>2, <2>2a, <2>3, <2>4, <2>5, <2>6, <2>7, <2>8, <2>9 DEF Next, ThreadStep
  <1> QED
    BY <1>1, <1>2 DEF TypeOK, Flags, Lists

\* The lists hold brokers, the section entries and the clocks numbers, for any
\* texts, addresses and settings; what a file that can be read holds are brokers.
THEOREM TypeCorrect == Spec => []TypeOK
  BY TypeInit, TypeNext, PTL DEF Spec

\* Whatever the reconnection settings are, also a multiplier of 0 or 1, and
\* however many attempts fail, the connect thread never waits longer than the
\* maximum and its random share (client.py, _loop_until_connected).
THEOREM DelaysStayBounded == Spec => []DelayBounded
  <1>1. Init => DelayBounded
    BY ShareType DEF Init, DelayBounded, Share
  <1> QED
    BY <1>1, TypeCorrect, DelayNext, PTL DEF Spec
-----------------------------------------------------------------------------
(* The file survives *)

LEMMA FileNext ==
    ASSUME TypeOK, ConfigSurvives, [Next]_vars
    PROVE  ConfigSurvives'
  <1> USE DEF config, loop
  <1>1. CASE Write
    <2> DEFINE new == UpdateModel(section, Plain(brokers))
    <2>1. section \in Seq(Entries) /\ Plain(brokers) \in Seq(Brokers)
      BY PlainType DEF TypeOK
    <2>2. Storable(Plain(brokers)) =>
              Readable(new) /\ Elements(ReadBrokers(new)) = Elements(Plain(brokers))
      BY <2>1, ModelIsRead
    <2>3. section' = new /\ saved' = Plain(brokers)
      BY <1>1 DEF Write
    <2> HIDE DEF new
    <2> QED
      BY <2>2, <2>3 DEF ConfigSurvives, Elements
  <1>2. CASE UNCHANGED <<section, saved>>
    BY <1>2 DEF ConfigSurvives
  <1>3. ~Write => UNCHANGED <<section, saved>>
    BY DEF vars, Next, ThreadStep, SetBrokers, Load, NetChange, Connect, Reconnect, Disconnect,
           Quit, Launch, EndThread, HaveBrokers, Check, Sort, BeginAttempt, Try, Failed, Back
  <1> QED
    BY <1>1, <1>2, <1>3

\* Whatever stood in the file and in the configuration, the brokers of the list
\* that was written last are read back from it with their ports and addresses, if
\* their identifiers differ and are no port numbers (_update_broker_config_model).
THEOREM FileSurvives == Spec => []ConfigSurvives
  <1>1. Init => ConfigSurvives
    BY DEF Init, ConfigSurvives
  <1> QED
    BY <1>1, TypeCorrect, FileNext, PTL DEF Spec
-----------------------------------------------------------------------------
(* Sorting *)

\* Where a broker belongs: by its time, without one behind all others, and among
\* equals by its place in the list.
Rank(o) == IF o.time = 0 THEN MaxTime + 1 ELSE o.time
Weight(objects, i) == Rank(objects[i]) * (Len(objects) + 1) + i

\* Weights are ordered by rank first.
LEMMA WeightOrder ==
    ASSUME NEW r \in Nat, NEW q \in Nat, NEW n \in Nat, NEW i \in 1..n, NEW j \in 1..n,
           r * (n + 1) + i <= q * (n + 1) + j
    PROVE  r <= q /\ (r = q => i <= j)
  <1>1. \A a, c \in Nat : (a + 1) * c = a * c + c
    OBVIOUS
  <1>2. \A a, b, c \in Nat : (a + b) * c = a * c + b * c /\ b * c \in Nat
    OBVIOUS
  <1>3. ASSUME q < r PROVE FALSE
    <2>1. PICK d \in Nat : r = (q + 1) + d
      <3>1. r - (q + 1) \in Nat /\ r = (q + 1) + (r - (q + 1))
        BY <1>3
      <3> QED
        BY <3>1
    <2>2. r * (n + 1) = (q + 1) * (n + 1) + d * (n + 1) /\ d * (n + 1) \in Nat
      BY <1>2, <2>1
    <2>3. (q + 1) * (n + 1) = q * (n + 1) + (n + 1) /\ q * (n + 1) \in Nat
      BY <1>1
    <2> HIDE <2>1
    <2> DEFINE x == q * (n + 1)
               y == d * (n + 1)
    <2>4. r * (n + 1) = x + (n + 1) + y /\ x \in Nat /\ y \in Nat
      BY <2>2, <2>3
    <2>5. r * (n + 1) + i <= x + j
      OBVIOUS
    <2> HIDE DEF x, y
    <2> QED
      BY <2>4, <2>5
  <1>4. ASSUME r = q PROVE i <= j
    <2>1. r * (n + 1) \in Nat
      OBVIOUS
    <2> DEFINE x == r * (n + 1)
    <2>2. x + i <= x + j
      BY <1>4
    <2> HIDE DEF x
    <2> QED
      BY <2>1, <2>2 DEF x
  <1> QED
    BY <1>3, <1>4

\* Every list can be sorted: the step Sort does not wait for anything.
LEMMA SortingExists ==
    ASSUME NEW objects \in Seq(ObjectSet)
    PROVE  \E f \in [1..Len(objects) -> 1..Len(objects)] : IsSorting(f, objects)
  <1> DEFINE n == Len(objects)
             I == {Weight(objects, i) : i \in 1..n}
             w == [i \in 1..n |-> Weight(objects, i)]
  <1>1. n \in Nat
    OBVIOUS
  <1>2. \A i \in 1..n : objects[i].time \in 0..MaxTime
    <2>1. \A o \in ObjectSet : o.time \in 0..MaxTime
      BY DEF ObjectSet
    <2> QED
      BY <2>1
  <1>3. \A i \in 1..n : Rank(objects[i]) \in Nat
    BY <1>2 DEF Rank
  <1> HIDE DEF n
  <1>4. \A i \in 1..n : Weight(objects, i) = Rank(objects[i]) * (n + 1) + i
    BY DEF Weight, n
  <1>5. \A a \in Nat : a * (n + 1) \in Nat
    BY <1>1
  <1>6. \A i \in 1..n : Weight(objects, i) \in Nat
    <2> SUFFICES ASSUME NEW i \in 1..n PROVE Weight(objects, i) \in Nat
      OBVIOUS
    <2>1. Rank(objects[i]) * (n + 1) \in Nat /\ i \in Nat
      BY <1>1, <1>3, <1>5
    <2> QED
      BY <1>4, <2>1
  <1>7. \A i, j \in 1..n : Weight(objects, i) <= Weight(objects, j) =>
            /\ Rank(objects[i]) <= Rank(objects[j])
            /\ Rank(objects[i]) = Rank(objects[j]) => i <= j
    <2> SUFFICES ASSUME NEW i \in 1..n, NEW j \in 1..n,
                        Weight(objects, i) <= Weight(objects, j)
                 PROVE  /\ Rank(objects[i]) <= Rank(objects[j])
                        /\ Rank(objects[i]) = Rank(objects[j]) => i <= j
      OBVIOUS
    <2> DEFINE r == Rank(objects[i])
               q == Rank(objects[j])
    <2>1. r \in Nat /\ q \in Nat
      BY <1>3
    <2>2. r * (n + 1) + i <= q * (n + 1) + j
      BY <1>4
    <2> HIDE DEF r, q
    <2>3. r <= q /\ (r = q => i <= j)
      BY <1>1, <2>1, <2>2, WeightOrder
    <2> QED
      BY <2>3 DEF r, q
  <1>8. w \in Bijection(1..n, I)
    <2>1. w \in [1..n -> I] /\ \A v \in I : \E i \in 1..n : w[i] = v
      OBVIOUS
    <2>2. \A i, j \in 1..n : w[i] = w[j] => i = j
      <3> SUFFICES ASSUME NEW i \in 1..n, NEW j \in 1..n, w[i] = w[j] PROVE i = j
        OBVIOUS
      <3>1. Weight(objects, i) <= Weight(objects, j) /\ Weight(objects, j) <= Weight(objects, i)
        BY <1>6
      <3>2. i <= j /\ j <= i
        <4>1. Rank(objects[i]) = Rank(objects[j])
          BY <1>3, <1>7, <3>1
        <4> QED
          BY <1>7, <3>1, <4>1
      <3> QED
        BY <1>1, <3>2
    <2> QED
      BY <2>1, <2>2 DEF Bijection, Injection, Surjection, IsInjective
  <1>9. IsFiniteSet(I) /\ Cardinality(I) = n
    <2>1. IsFiniteSet(1..n) /\ Cardinality(1..n) = n
      BY <1>1, FS_Interval
    <2>2. ExistsBijection(1..n, I)
      BY <1>8 DEF ExistsBijection
    <2> HIDE DEF I
    <2> QED
      BY <2>1, <2>2, FS_Bijection
  <1>10. I \in SUBSET Nat
    BY <1>6
  <1>11. PICK g \in [1..n -> I] : Increasing(g, n)
    <2> HIDE DEF I
    <2> QED
      BY <1>9, <1>10, CanBeOrdered
  <1> DEFINE f == [k \in 1..n |-> CHOOSE i \in 1..n : Weight(objects, i) = g[k]]
  <1>12. \A k \in 1..n : f[k] \in 1..n /\ Weight(objects, f[k]) = g[k]
    BY <1>11
  <1>13. f \in [1..n -> 1..n]
    BY <1>12
  <1>14. ASSUME NEW j \in 1..n, NEW k \in 1..n, j < k
         PROVE  /\ f[j] # f[k]
                /\ ~Faster(objects[f[k]], objects[f[j]])
                /\ Faster(objects[f[j]], objects[f[k]]) \/ f[j] < f[k]
    <2> DEFINE a == f[j]
               b == f[k]
    <2>1. a \in 1..n /\ b \in 1..n /\ Weight(objects, a) < Weight(objects, b)
      <3>1. g[j] < g[k]
        BY <1>11, <1>14 DEF Increasing
      <3> HIDE DEF f
      <3> QED
        BY <1>12, <3>1
    <2> HIDE DEF f, a, b
    <2>1a. /\ Weight(objects, a) \in Nat /\ Weight(objects, b) \in Nat
           /\ Rank(objects[a]) \in Nat /\ Rank(objects[b]) \in Nat
           /\ a \in Nat /\ b \in Nat
      BY <1>1, <1>3, <1>6, <2>1
    <2>2. a # b
      BY <2>1, <2>1a
    <2>3. /\ Rank(objects[a]) <= Rank(objects[b])
          /\ Rank(objects[a]) = Rank(objects[b]) => a <= b
      BY <1>7, <2>1, <2>1a
    <2>4. /\ Rank(objects[a]) <= Rank(objects[b]) => ~Faster(objects[b], objects[a])
          /\ Rank(objects[a]) < Rank(objects[b]) => Faster(objects[a], objects[b])
      BY <1>2, <2>1 DEF Rank, Faster
    <2>5. Rank(objects[a]) < Rank(objects[b]) \/ a < b
      BY <2>1a, <2>2, <2>3
    <2> QED
      BY <2>2, <2>3, <2>4, <2>5 DEF a, b
  <1>15. IsSorting(f, objects)
    <2> HIDE DEF f
    <2> QED
      BY <1>14 DEF IsSorting, n
  <1> QED
    BY <1>13, <1>15 DEF n
-----------------------------------------------------------------------------
(* The choice of the broker *)

\* No broker of the sorted list is faster than one before it.
InOrder == \A j, k \in 1..Len(order) : j < k => ~Faster(order[k], order[j])

\* What the check said of a broker still holds.
StillTrue(o) == o.answered => o.time # 0 /\ Accepts(Address("timed", o))

\* As long as the network stays as it was checked, an attempt does not get past a
\* broker that answered.
Answered ==
    calm =>
        /\ pc = "sort" => \A i \in 1..Len(brokers) : StillTrue(brokers[i])
        /\ pc \in {"begin", "try", "delay", "finish"} =>
               \A i \in 1..Len(order) : StillTrue(order[i])
        /\ pc = "try" => \A i \in 1..Len(order) :
               order[i].answered => turn = "timed" /\ place <= i

\* What an attempt has been through in its second pass does not accept.
Refused ==
    pc = "try" =>
        /\ current = NoBroker
        /\ turn = "timed" => (place <= Len(order) \/ order = <<>>)
        /\ steady => \A i \in 1..Len(order) :
               /\ (turn = "host" /\ i < place) \/ (turn = "ip" /\ i <= place) =>
                      ~Accepts(Host(order[i]))
               /\ turn # "timed" /\ i < place /\ HasIp(order[i]) =>
                      ~Accepts(Ip(order[i]))

\* What is inductive beside the types and the order.
Choice == Answered /\ Refused /\ FastestChosen /\ NoAddressMissed

LEMMA ChoiceInit == Init => InOrder /\ Choice
  BY DEF Init, Choice, InOrder, Answered, Refused, FastestChosen, NoAddressMissed

\* The list is only made by Sort.
LEMMA OrderNext ==
    ASSUME TypeOK, InOrder, [Next]_vars
    PROVE  InOrder'
  <1> USE DEF config, loop
  <1>1. CASE Sort
    <2>1. PICK f \in [1..Len(brokers) -> 1..Len(brokers)] :
              /\ IsSorting(f, brokers)
              /\ order' = [k \in 1..Len(brokers) |-> brokers[f[k]]]
      BY <1>1 DEF Sort
    <2>2. Len(order') = Len(brokers)
      BY <2>1 DEF TypeOK
    <2>3. \A j, k \in 1..Len(brokers) : j < k => ~Faster(order'[k], order'[j])
      BY <2>1 DEF IsSorting
    <2> QED
      BY <2>2, <2>3 DEF InOrder
  <1>2. CASE order' = order
    BY <1>2 DEF InOrder
  <1>3. CASE order' = <<>>
    BY <1>3 DEF InOrder
  <1>4. Sort \/ order' = order \/ order' = <<>>
    BY DEF vars, Next, ThreadStep, SetBrokers, Write, Load, NetChange, Connect, Reconnect,
           Disconnect, Quit, Launch, EndThread, HaveBrokers, Check, BeginAttempt, Try, Failed, Back
  <1> QED
    BY <1>1, <1>2, <1>3, <1>4

\* A broker that has just been checked and answered accepts a connection at the
\* address that answered.
LEMMA CheckedIsTrue ==
    ASSUME NEW o \in ObjectSet, NEW t \in 1..MaxTime, Checked(o, t).answered
    PROVE  Checked(o, t).time # 0 /\ Accepts(Address("timed", Checked(o, t)))
  <1>1. \A via : Reached(o, t, via).broker = o.broker /\ Reached(o, t, via).time = t
                 /\ Reached(o, t, via).via = via
    BY DEF Reached
  <1>2. \A answered :
            [o EXCEPT !.answered = answered]
                = [broker |-> o.broker, time |-> o.time, via |-> o.via, answered |-> answered]
    BY DEF ObjectSet
  <1>3. \/ Answers(Host(o)) /\ Checked(o, t) = Reached(o, t, FALSE)
        \/ Answers(Ip(o)) /\ Checked(o, t) = Reached(o, t, TRUE)
    BY <1>2 DEF Checked
  <1>4. Address("timed", Reached(o, t, FALSE)) = Host(o)
        /\ Address("timed", Reached(o, t, TRUE)) = Ip(o)
    BY <1>1 DEF Address, Host, Ip
  <1>5. \A a : Answers(a) => Accepts(a)
    BY DEF Answers, Accepts
  <1>6. t # 0
    OBVIOUS
  <1>7. CASE Answers(Host(o)) /\ Checked(o, t) = Reached(o, t, FALSE)
    BY <1>1, <1>4, <1>5, <1>6, <1>7
  <1>8. CASE Answers(Ip(o)) /\ Checked(o, t) = Reached(o, t, TRUE)
    BY <1>1, <1>4, <1>5, <1>6, <1>8
  <1> QED
    BY <1>3, <1>7, <1>8

\* Steps to a place where nothing has been checked or tried.
LEMMA ChoiceAway ==
    ASSUME pc' \in {"idle", "launched", "list", "check"}
    PROVE  Choice'
  BY DEF Choice, Answered, Refused, FastestChosen, NoAddressMissed

\* Steps that leave the attempt and the network alone.
LEMMA ChoiceBeside ==
    ASSUME Choice, UNCHANGED <<net, pc, calm, steady, order, turn, place, current>>,
           terminate => terminate',
           calm /\ pc = "sort" => \A i \in 1..Len(brokers') : StillTrue(brokers'[i])
    PROVE  Choice'
  BY DEF Choice, Answered, Refused, FastestChosen, NoAddressMissed, StillTrue, Accepts, Does

LEMMA ChoiceSort ==
    ASSUME TypeOK, Choice, Sort
    PROVE  Choice'
  <1>1. PICK f \in [1..Len(brokers) -> 1..Len(brokers)] :
            order' = [k \in 1..Len(brokers) |-> brokers[f[k]]]
    BY DEF Sort
  <1>2. Len(order') = Len(brokers)
    BY <1>1 DEF TypeOK
  <1>3. calm => \A i \in 1..Len(brokers) : StillTrue(order'[i])
    BY <1>1 DEF Sort, Choice, Answered
  <1>4. net' = net /\ calm' = calm /\ terminate' = terminate
    BY DEF Sort
  <1>5. Answered'
    BY <1>2, <1>3, <1>4 DEF Sort, Answered, StillTrue, Accepts, Does
  <1>6. pc' = "begin" \/ (pc' = "finish" /\ terminate')
    BY <1>4 DEF Sort
  <1> QED
    BY <1>5, <1>6 DEF Choice, Refused, FastestChosen, NoAddressMissed

LEMMA ChoiceCheck ==
    ASSUME TypeOK, Choice, Check
    PROVE  Choice'
  <1>1. PICK t \in [1..Len(brokers) -> 1..MaxTime] :
            brokers' = [i \in 1..Len(brokers) |-> Checked(brokers[i], t[i])]
    BY DEF Check
  <1>2. Len(brokers') = Len(brokers)
    BY <1>1 DEF TypeOK
  <1>3. \A i \in 1..Len(brokers) : StillTrue(brokers'[i])
    <2> SUFFICES ASSUME NEW i \in 1..Len(brokers) PROVE StillTrue(brokers'[i])
      OBVIOUS
    <2>1. brokers[i] \in ObjectSet /\ t[i] \in 1..MaxTime
      BY DEF TypeOK
    <2>2. brokers'[i] = Checked(brokers[i], t[i])
      BY <1>1
    <2> QED
      BY <2>1, <2>2, CheckedIsTrue DEF StillTrue
  <1>4. pc' = "sort" /\ net' = net
    BY DEF Check
  <1> QED
    BY <1>2, <1>3, <1>4 DEF Choice, Answered, Refused, FastestChosen, NoAddressMissed, StillTrue, Accepts, Does

\* A turn of an attempt: success takes a broker before which none has answered.
LEMMA ChoiceTry ==
    ASSUME TypeOK, InOrder, Choice, Try
    PROVE  Choice'
  <1> DEFINE o == order[place]
             Success == IsTried(turn, o) /\ Accepts(Address(turn, o))
  <1>1. /\ pc = "try" /\ place \in 1..Len(order) /\ o \in ObjectSet
        /\ UNCHANGED <<net, order, calm, steady>>
    BY DEF Try, TypeOK
  <1>2. \A i \in 1..Len(order) : order[i].time \in Nat
    <2>1. \A p \in ObjectSet : p.time \in Nat
      BY DEF ObjectSet
    <2> QED
      BY <2>1 DEF TypeOK
  <1>3. CASE Success
    <2>1. /\ current' = [object |-> o, address |-> Address(turn, o)]
          /\ pc' = "finish"
      BY <1>3 DEF Try
    <2>2. current' # NoBroker /\ current'.object = o
      <3>1. DOMAIN current' = {"object", "address"}
        BY <2>1
      <3>2. DOMAIN NoBroker = {}
        BY DEF NoBroker
      <3> QED
        BY <2>1, <3>1, <3>2
    <2>3. ASSUME calm, NEW i \in 1..Len(order), order[i].answered
          PROVE  o.time # 0 /\ o.time <= order[i].time
      <3>1. turn = "timed" /\ place <= i /\ order[i].time # 0
        BY <1>1, <2>3 DEF Choice, Answered, StillTrue
      <3>2. o.time # 0
        BY <1>3, <3>1 DEF IsTried
      <3>3. CASE place = i
        BY <1>2, <3>2, <3>3
      <3>4. CASE place < i
        <4>1. ~Faster(order[i], o)
          BY <1>1, <3>4 DEF InOrder
        <4> QED
          BY <1>1, <1>2, <3>1, <3>2, <4>1 DEF Faster
      <3> QED
        BY <1>1, <3>1, <3>3, <3>4
    <2> HIDE DEF o
    <2>4. FastestChosen'
      BY <1>1, <2>2, <2>3 DEF FastestChosen
    <2>5. NoAddressMissed'
      BY <2>1, <2>2 DEF NoAddressMissed
    <2>6. Answered'
      BY <1>1, <2>1 DEF Choice, Answered, StillTrue, Accepts, Does
    <2>7. Refused'
      BY <2>1 DEF Refused
    <2> QED
      BY <2>4, <2>5, <2>6, <2>7 DEF Choice
  <1>4. CASE ~Success
    <2>1. Advance /\ current' = current /\ pc' = pc
      BY <1>4 DEF Try
    <2>2. calm => ~o.answered \/ turn # "timed"
      <3>1. calm /\ o.answered => o.time # 0 /\ Accepts(Address("timed", o))
        BY <1>1 DEF Choice, Answered, StillTrue
      <3> QED
        BY <1>4, <3>1 DEF IsTried
    <2>3. ASSUME calm, NEW i \in 1..Len(order), order[i].answered
          PROVE  turn' = "timed" /\ place' <= i
      <3>1. turn = "timed" /\ place <= i /\ place # i
        BY <1>1, <2>2, <2>3 DEF Choice, Answered
      <3> QED
        BY <1>1, <2>1, <3>1 DEF Advance
    <2>4. Answered'
      BY <1>1, <2>1, <2>3 DEF Choice, Answered, StillTrue, Accepts, Does
    <2>5. turn = "host" => ~Accepts(Host(o))
      BY <1>4 DEF IsTried, Address
    <2>6. turn = "ip" /\ HasIp(o) => ~Accepts(Ip(o))
      BY <1>4 DEF IsTried, Address
    <2>7. ASSUME steady, NEW i \in 1..Len(order)
          PROVE  /\ (turn' = "host" /\ i < place') \/ (turn' = "ip" /\ i <= place') =>
                         ~Accepts(Host(order[i]))
                 /\ turn' # "timed" /\ i < place' /\ HasIp(order[i]) =>
                         ~Accepts(Ip(order[i]))
      <3>1. /\ (turn = "host" /\ i < place) \/ (turn = "ip" /\ i <= place) =>
                   ~Accepts(Host(order[i]))
            /\ turn # "timed" /\ i < place /\ HasIp(order[i]) => ~Accepts(Ip(order[i]))
        BY <1>1, <2>7 DEF Choice, Refused
      <3>2. CASE turn = "timed"
        BY <1>1, <2>1, <3>2 DEF Advance
      <3>3. CASE turn = "host"
        <4>1. turn' = "ip" /\ place' = place
          BY <2>1, <3>3 DEF Advance
        <4> QED
          BY <1>1, <2>5, <3>1, <3>3, <4>1
      <3>4. CASE turn = "ip"
        <4>1. turn' = "host" /\ place' = place + 1
          BY <2>1, <3>4 DEF Advance
        <4> QED
          BY <1>1, <2>6, <3>1, <3>4, <4>1
      <3> QED
        BY <3>2, <3>3, <3>4 DEF TypeOK
    <2>8. turn' = "timed" => place' <= Len(order) \/ order = <<>>
      BY <1>1, <2>1 DEF Advance
    <2> HIDE DEF o
    <2>9. Refused'
      <3>1. current' = NoBroker
        BY <1>1, <2>1 DEF Choice, Refused
      <3> QED
        BY <1>1, <2>7, <2>8, <3>1 DEF Refused, Accepts, Does
    <2>10. pc' = "try"
      BY <1>1, <2>1
    <2> QED
      BY <2>4, <2>9, <2>10 DEF Choice, FastestChosen, NoAddressMissed
  <1> QED
    BY <1>3, <1>4

\* An attempt ends without a broker when it is past the end of its second pass.
LEMMA ChoiceFailed ==
    ASSUME TypeOK, Choice, Failed
    PROVE  Choice'
  <1>1. /\ pc = "try" /\ place > Len(order) /\ pc' \in {"delay", "finish"}
        /\ UNCHANGED <<net, order, calm, steady, turn, place, current>>
    BY DEF Failed
  <1>2. Answered'
    BY <1>1 DEF Choice, Answered, StillTrue, Accepts, Does
  <1>3. current' = NoBroker
    BY <1>1 DEF Choice, Refused
  <1>4. steady => \A i \in 1..Len(order) :
            ~Accepts(Host(order[i])) /\ (HasIp(order[i]) => ~Accepts(Ip(order[i])))
    <2> SUFFICES ASSUME steady, NEW i \in 1..Len(order)
                 PROVE  ~Accepts(Host(order[i])) /\ (HasIp(order[i]) => ~Accepts(Ip(order[i])))
      OBVIOUS
    <2>1. turn # "timed" /\ i < place /\ i <= place
      BY <1>1 DEF Choice, Refused, TypeOK
    <2> QED
      BY <1>1, <2>1 DEF Choice, Refused, TypeOK
  <1>5. NoAddressMissed'
    BY <1>1, <1>4 DEF NoAddressMissed, Accepts, Does
  <1> QED
    BY <1>1, <1>2, <1>3, <1>5 DEF Choice, Refused, FastestChosen

LEMMA ChoiceNext ==
    ASSUME TypeOK, InOrder, Choice, [Next]_vars
    PROVE  Choice'
  <1> USE DEF config, loop
  <1>1. CASE UNCHANGED vars
    BY <1>1 DEF vars, Choice, Answered, Refused, FastestChosen, NoAddressMissed, StillTrue,
                Accepts, Does
  <1>2. CASE SetBrokers
    <2>1. PICK list \in BrokerLists : brokers' = Objects(list)
      BY <1>2 DEF SetBrokers
    <2>2. \A i \in 1..Len(brokers') : ~brokers'[i].answered
      BY <2>1 DEF Objects, Untested
    <2> QED
      BY <1>2, <2>2, ChoiceBeside DEF SetBrokers, StillTrue
  <1>3. CASE Write
    <2>1. /\ UNCHANGED <<brokers, net, pc, calm, steady, order, turn, place, current>>
          /\ terminate' = terminate
      BY <1>3 DEF Write
    <2>2. calm /\ pc = "sort" => \A i \in 1..Len(brokers') : StillTrue(brokers'[i])
      BY <2>1 DEF Choice, Answered
    <2> QED
      BY <2>1, <2>2, ChoiceBeside
  <1>4. CASE Load
    BY <1>4, ChoiceAway DEF Load
  <1>5. CASE NetChange
    BY <1>5 DEF NetChange, Choice, Answered, Refused, FastestChosen, NoAddressMissed
  <1>6. CASE (\E n \in Retries : Connect(n)) \/ Reconnect
    BY <1>6, ChoiceAway DEF Connect, Reconnect, Begin
  <1>7. CASE Disconnect
    <2>1. CASE Trying
      <3>1. /\ UNCHANGED <<brokers, net, pc, calm, steady, order, turn, place, current>>
            /\ terminate'
        BY <1>7, <2>1 DEF Disconnect
      <3>2. calm /\ pc = "sort" => \A i \in 1..Len(brokers') : StillTrue(brokers'[i])
        BY <3>1 DEF Choice, Answered
      <3> QED
        BY <3>1, <3>2, ChoiceBeside
    <2>2. CASE ~Trying
      BY <1>7, <2>2, ChoiceAway DEF Disconnect
    <2> QED
      BY <2>1, <2>2
  <1>8. CASE Quit \/ Launch \/ HaveBrokers
    BY <1>8, ChoiceAway DEF Quit, Launch, EndThread, HaveBrokers
  <1>9. CASE Check \/ Sort
    BY <1>9, ChoiceCheck, ChoiceSort
  <1>10. CASE BeginAttempt
    <2>1. /\ pc = "begin" /\ pc' = "try" /\ current' = NoBroker
          /\ turn' = "timed" /\ place' = 1 /\ UNCHANGED <<net, order, calm>>
      BY <1>10 DEF BeginAttempt
    <2>2. Answered'
      BY <2>1 DEF Choice, Answered, StillTrue, Accepts, Does
    <2>3. order = <<>> \/ 1 <= Len(order)
      BY DEF TypeOK
    <2>4. Refused'
      BY <2>1, <2>3 DEF Refused
    <2> QED
      BY <2>1, <2>2, <2>4 DEF Choice, FastestChosen, NoAddressMissed
  <1>11. CASE Try \/ Failed
    BY <1>11, ChoiceTry, ChoiceFailed
  <1>12. CASE \E extra \in Extras : Back(extra)
    BY <1>12 DEF Back, Choice, Answered, Refused, FastestChosen, NoAddressMissed, StillTrue,
                Accepts, Does
  <1> QED
    BY <1>1, <1>2, <1>3, <1>4, <1>5, <1>6, <1>7, <1>8, <1>9, <1>10, <1>11, <1>12 DEF Next, ThreadStep

LEMMA ChoiceInvariant == Spec => [](InOrder /\ Choice)
  <1>1. TypeOK /\ InOrder /\ Choice /\ [Next]_vars => (InOrder /\ Choice)'
    BY OrderNext, ChoiceNext
  <1> QED
    BY <1>1, ChoiceInit, TypeCorrect, PTL DEF Spec

\* For any brokers and response times: while the network stays as it was when the
\* brokers were checked, the one that is chosen took no longer than any other that
\* answered, whatever list is set meanwhile (_get_sorted_broker_list, _connect).
THEOREM FastestIsChosen == Spec => []FastestChosen
  <1>1. Choice => FastestChosen
    BY DEF Choice
  <1> QED
    BY <1>1, ChoiceInvariant, PTL

\* For any list of brokers: an attempt gives up only after it has tried the host
\* and the IP address of every broker of its list (client.py, _connect).
THEOREM NothingMissed == Spec => []NoAddressMissed
  <1>1. Choice => NoAddressMissed
    BY DEF Choice
  <1> QED
    BY <1>1, ChoiceInvariant, PTL
=============================================================================
