----------------------- MODULE CallbackManager_proofs ------------------------
(***************************************************************************)
(* Proofs about CallbackManager, for any registrars, callbacks and channels. *)
(***************************************************************************)
EXTENDS CallbackManager, SequenceTheorems, TLAPS

Distinct(list) == \A i, j \in 1 .. Len(list) : list[i] = list[j] => i = j

DistinctLists(map) == \A c \in Channels : Distinct(map[c])

\* A list.append of a new callback adds it and nothing else.
LEMMA AppendNew ==
    ASSUME NEW K, NEW s \in Seq(K), NEW k \in K, ~Contains(s, k), Distinct(s)
    PROVE  /\ Append(s, k) \in Seq(K)
           /\ Append(s, k) # <<>>
           /\ Distinct(Append(s, k))
           /\ \A x : Contains(Append(s, k), x) <=> Contains(s, x) \/ x = k
<1> DEFINE t == Append(s, k)
<1>1. /\ t \in Seq(K)
      /\ Len(t) = Len(s) + 1
      /\ t[Len(s) + 1] = k
      /\ \A i \in 1 .. Len(s) : t[i] = s[i]
  OBVIOUS
<1>2. Len(s) \in Nat /\ 1 .. Len(t) = 1 .. Len(s) \cup {Len(s) + 1}
  BY <1>1
<1>3. t # <<>>
  BY <1>1, <1>2
<1>4. Distinct(t)
  BY <1>1, <1>2 DEF Distinct, Contains
<1>5. \A x : Contains(t, x) <=> Contains(s, x) \/ x = k
  BY <1>1, <1>2 DEF Contains
<1> QED BY <1>1, <1>3, <1>4, <1>5

\* A list.remove from a list without duplicates removes the callback and
\* nothing else.
LEMMA RemoveOnly ==
    ASSUME NEW K, NEW s \in Seq(K), Distinct(s), NEW i \in 1 .. Len(s)
    PROVE  /\ RemoveAt(s, i) \in Seq(K)
           /\ Distinct(RemoveAt(s, i))
           /\ \A x : Contains(RemoveAt(s, i), x) <=> Contains(s, x) /\ x # s[i]
<1> DEFINE a == SubSeq(s, 1, i - 1)
           b == SubSeq(s, i + 1, Len(s))
           t == RemoveAt(s, i)
<1>1. /\ a \in Seq(K) /\ Len(a) = i - 1
      /\ \A j \in 1 .. i - 1 : a[j] = s[j]
  OBVIOUS
<1>2. /\ b \in Seq(K) /\ Len(b) = Len(s) - i
      /\ \A j \in 1 .. Len(s) - i : b[j] = s[i + j]
  OBVIOUS
<1>3. t = a \o b
  BY DEF RemoveAt
<1> HIDE DEF a, b, t
<1>4. /\ t \in Seq(K) /\ Len(t) = Len(s) - 1
      /\ \A j \in 1 .. Len(s) - 1 : t[j] = IF j < i THEN s[j] ELSE s[j + 1]
  <2>1. t \in Seq(K) /\ Len(t) = Len(s) - 1
    <3>1. t \in Seq(K) /\ Len(t) = Len(a) + Len(b)
      BY <1>1, <1>2, <1>3, ConcatProperties
    <3> QED BY <3>1, <1>1, <1>2
  <2>2. ASSUME NEW j \in 1 .. Len(s) - 1, j < i
        PROVE  t[j] = s[j]
    BY <2>2, <1>1, <1>2, <1>3
  <2>3. ASSUME NEW j \in 1 .. Len(s) - 1, ~(j < i)
        PROVE  t[j] = s[j + 1]
    <3>1. t[j] = b[j - (i - 1)]
      BY <2>3, <1>1, <1>2, <1>3
    <3>2. j - (i - 1) \in 1 .. Len(s) - i /\ i + (j - (i - 1)) = j + 1
      BY <2>3
    <3> QED BY <3>1, <3>2, <1>2
  <2> QED BY <2>1, <2>2, <2>3
<1>5. Distinct(t)
  <2> SUFFICES ASSUME NEW j \in 1 .. Len(t), NEW m \in 1 .. Len(t), t[j] = t[m]
               PROVE  j = m
    BY DEF Distinct
  <2>1. j \in 1 .. Len(s) - 1 /\ m \in 1 .. Len(s) - 1
    BY <1>4
  <2>2. j \in 1 .. Len(s) /\ j + 1 \in 1 .. Len(s) /\ m \in 1 .. Len(s) /\ m + 1 \in 1 .. Len(s)
    BY <2>1
  <2> QED BY <2>1, <2>2, <1>4 DEF Distinct
<1>6. ASSUME NEW x PROVE Contains(t, x) <=> Contains(s, x) /\ x # s[i]
  <2>1. ASSUME NEW j \in 1 .. Len(t), t[j] = x
        PROVE  Contains(s, x) /\ x # s[i]
    <3>1. PICK m \in 1 .. Len(s) : m # i /\ s[m] = x
      <4>1. j \in 1 .. Len(s) - 1 /\ j \in 1 .. Len(s) /\ j + 1 \in 1 .. Len(s)
        BY <1>4
      <4> QED BY <4>1, <2>1, <1>4
    <3> QED BY <3>1 DEF Distinct, Contains
  <2>2. ASSUME NEW j \in 1 .. Len(s), s[j] = x, x # s[i]
        PROVE  Contains(t, x)
    <3>1. CASE j < i
      <4>1. j \in 1 .. Len(s) - 1 /\ j \in 1 .. Len(t)
        BY <3>1, <1>4
      <4> QED BY <4>1, <3>1, <2>2, <1>4 DEF Contains
    <3>2. CASE j > i
      <4>1. j - 1 \in 1 .. Len(s) - 1 /\ j - 1 \in 1 .. Len(t) /\ ~(j - 1 < i) /\ (j - 1) + 1 = j
        BY <3>2, <1>4
      <4> QED BY <4>1, <2>2, <1>4 DEF Contains
    <3>3. j # i
      BY <2>2
    <3> QED BY <3>1, <3>2, <3>3
  <2> QED BY <2>1, <2>2 DEF Contains
<1> QED BY <1>4, <1>5, <1>6 DEF t

\* What add_callback's copy holds.
LEMMA AddedMap ==
    ASSUME NEW map \in Lists, DistinctLists(map), NEW c \in Channels, NEW k \in Callbacks
    PROVE  /\ Added(map, c, k) \in Lists
           /\ DistinctLists(Added(map, c, k))
           /\ Registered(Added(map, c, k)) = Registered(map) \cup {<<c, k>>}
           /\ AnyWildcard(Added(map, c, k)) <=> AnyWildcard(map) \/ HasWildcard(c)
<1> DEFINE new == Added(map, c, k)
<1>1. map[c] \in Seq(Callbacks) /\ Distinct(map[c])
  BY DEF Lists, DistinctLists
<1>2. /\ new[c] \in Seq(Callbacks)
      /\ Distinct(new[c])
      /\ new[c] # <<>>
      /\ \A x : Contains(new[c], x) <=> Contains(map[c], x) \/ x = k
  <2>1. CASE Contains(map[c], k)
    <3>1. new[c] = map[c]
      BY <2>1 DEF Added, Lists
    <3>2. map[c] # <<>>
      BY <2>1, <1>1 DEF Contains
    <3> QED BY <3>1, <3>2, <2>1, <1>1
  <2>2. CASE ~Contains(map[c], k)
    <3>1. new[c] = Append(map[c], k)
      BY <2>2 DEF Added, Lists
    <3> QED BY <3>1, <2>2, <1>1, AppendNew
  <2> QED BY <2>1, <2>2
<1>3. /\ new = [map EXCEPT ![c] = new[c]]
      /\ \A d \in Channels \ {c} : new[d] = map[d]
  BY DEF Added, Lists
<1> HIDE DEF new
<1>4. new \in Lists
  BY <1>2, <1>3 DEF Lists
<1>5. DistinctLists(new)
  BY <1>2, <1>3 DEF DistinctLists
<1>6. ASSUME NEW d \in Channels, NEW x \in Callbacks
      PROVE  Contains(new[d], x) <=> Contains(map[d], x) \/ (d = c /\ x = k)
  BY <1>2, <1>3
<1>7. Registered(new) = Registered(map) \cup {<<c, k>>}
  BY <1>6 DEF Registered, Registrations
<1>8. AnyWildcard(new) <=> AnyWildcard(map) \/ HasWildcard(c)
  BY <1>2, <1>3 DEF AnyWildcard
<1> QED BY <1>4, <1>5, <1>7, <1>8 DEF new

\* What remove_callback's copy holds.
LEMMA RemovedMap ==
    ASSUME NEW map \in Lists, DistinctLists(map), NEW c \in Channels, NEW k \in Callbacks
    PROVE  /\ Removed(map, c, k) \in Lists
           /\ DistinctLists(Removed(map, c, k))
           /\ Registered(Removed(map, c, k)) = Registered(map) \ {<<c, k>>}
           /\ AnyWildcard(Removed(map, c, k)) => AnyWildcard(map)
<1> DEFINE new == Removed(map, c, k)
<1>1. map[c] \in Seq(Callbacks) /\ Distinct(map[c])
  BY DEF Lists, DistinctLists
<1>2. /\ new[c] \in Seq(Callbacks)
      /\ Distinct(new[c])
      /\ new[c] # <<>> => map[c] # <<>>
      /\ \A x : Contains(new[c], x) <=> Contains(map[c], x) /\ x # k
  <2>1. CASE Contains(map[c], k)
    <3> DEFINE i == CHOOSE j \in 1 .. Len(map[c]) : map[c][j] = k
    <3>1. i \in 1 .. Len(map[c]) /\ map[c][i] = k
      BY <2>1 DEF Contains
    <3>2. new[c] = RemoveAt(map[c], i)
      BY <2>1 DEF Removed, Lists, Without
    <3>3. map[c] # <<>>
      BY <2>1, <1>1 DEF Contains
    <3> HIDE DEF i, new
    <3> QED BY <3>1, <3>2, <3>3, <1>1, RemoveOnly
  <2>2. CASE ~Contains(map[c], k)
    <3>1. new[c] = map[c]
      BY <2>2 DEF Removed, Lists
    <3> QED BY <3>1, <2>2, <1>1
  <2> QED BY <2>1, <2>2
<1>3. /\ new = [map EXCEPT ![c] = new[c]]
      /\ \A d \in Channels \ {c} : new[d] = map[d]
  BY DEF Removed, Lists
<1> HIDE DEF new
<1>4. new \in Lists
  BY <1>2, <1>3 DEF Lists
<1>5. DistinctLists(new)
  BY <1>2, <1>3 DEF DistinctLists
<1>6. ASSUME NEW d \in Channels, NEW x \in Callbacks
      PROVE  Contains(new[d], x) <=> Contains(map[d], x) /\ ~(d = c /\ x = k)
  BY <1>2, <1>3
<1>7. Registered(new) = Registered(map) \ {<<c, k>>}
  BY <1>6 DEF Registered, Registrations
<1>8. AnyWildcard(new) => AnyWildcard(map)
  BY <1>2, <1>3 DEF AnyWildcard
<1> QED BY <1>4, <1>5, <1>7, <1>8 DEF new

\* Sequences of one and of two elements.
LEMMA SingletonSeq ==
    ASSUME NEW S, NEW e \in S
    PROVE  /\ <<e>> \in Seq(S) /\ <<e>> # <<>> /\ Head(<<e>>) = e /\ Tail(<<e>>) = <<>>
           /\ Len(<<e>>) = 1 /\ <<e>>[1] = e
  OBVIOUS

\* The same for two elements.
LEMMA PairSeq ==
    ASSUME NEW S, NEW e \in S, NEW f \in S
    PROVE  /\ <<e, f>> \in Seq(S)
           /\ <<e, f>> # <<>>
           /\ Head(<<e, f>>) = e
           /\ Tail(<<e, f>>) = <<f>>
<1>1. Len(Tail(<<e, f>>)) = 1 /\ Tail(<<e, f>>)[1] = f /\ Tail(<<e, f>>) \in Seq(S)
  OBVIOUS
<1> QED BY <1>1

\* The direct channels of a message.
LEMMA DirectTypes == EveryChannel \in Seq(Levels) /\ Topic \in Seq(Levels) /\ EveryChannel # Topic
  BY LevelsAssumption, RegistryAssumption, SingletonSeq DEF EveryChannel

\* The channels a loop turn of _get_wildcards goes on to.
LEMMA WildcardsAboveType ==
    ASSUME NEW t \in Seq(Levels)
    PROVE  WildcardsAbove(t) \in Seq(Seq(Levels))
<1>1. <<"#">> \in Seq(Levels) /\ <<"">> \in Seq(Levels)
  <2>1. "#" \in Levels /\ "" \in Levels
    BY LevelsAssumption
  <2> QED BY <2>1, SingletonSeq
<1>2. \A u \in Seq(Levels) : Under(u) \in Seq(Levels)
  <2> SUFFICES ASSUME NEW u \in Seq(Levels) PROVE Under(u) \in Seq(Levels)
    OBVIOUS
  <2>1. (IF u = <<>> THEN <<"">> ELSE u) \in Seq(Levels)
    BY <1>1
  <2> QED BY <1>1, <2>1, ConcatProperties DEF Under
<1>3. SubSeq(t, 1, Len(t) - 1) \in Seq(Levels) /\ SubSeq(t, 1, Len(t) - 2) \in Seq(Levels)
  OBVIOUS
<1>4. WildcardGenerator(t) \in Seq(Levels)
  <2>1. AllWildcard \in Seq(Levels) /\ Under(SubSeq(t, 1, Len(t) - 1)) \in Seq(Levels)
        /\ Under(SubSeq(t, 1, Len(t) - 2)) \in Seq(Levels)
    BY <1>1, <1>2, <1>3 DEF AllWildcard
  <2>2. CASE HasWildcard(t)
    BY <2>1, <2>2, Zenon DEF WildcardGenerator
  <2>3. CASE ~HasWildcard(t)
    BY <2>1, <2>3, Zenon DEF WildcardGenerator
  <2> QED BY <2>2, <2>3
<1>5. <<WildcardGenerator(t)>> \in Seq(Seq(Levels))
  BY <1>4, SingletonSeq
<1>6. <<>> \in Seq(Seq(Levels))
  OBVIOUS
<1> QED BY <1>5, <1>6 DEF WildcardsAbove

-----------------------------------------------------------------------------
\* The critical section of a registrar: only the lock's holder is in it, its
\* copy is the map with its call applied, and the flag is right for the copy
\* from the moment remove_callback has looked for wildcards.
CriticalSection ==
    \A r \in Registrars :
        pc[r] # "idle" =>
            /\ lock = r
            /\ op[r] \in Registrations
            /\ DistinctLists(copy[r])
            /\ Registered(copy[r]) =
                   IF pc[r] = "adding" THEN wanted \cup {op[r]} ELSE wanted \ {op[r]}
            /\ pc[r] # "rescanning" => (wildcarding_enabled <=> AnyWildcard(copy[r]))

HolderIsInside == lock # NoThread => pc[lock] # "idle"

RegistryInv ==
    /\ CriticalSection
    /\ HolderIsInside
    /\ DistinctLists(callbacks_by_channel)
    /\ NoUpdateLost
    /\ FlagExact

DirectChannels == {EveryChannel, Topic}

\* fire_message will still come to the registration.
Ahead(p) ==
    /\ todo # <<>>
    /\ \/ /\ p[1] = Head(todo)
          /\ \E i \in 1 .. Len(snapshot[p[1]]) : i >= pos /\ snapshot[p[1]][i] = p[2]
       \/ todo = <<EveryChannel, Topic>> /\ p[1] = Topic

FireInv ==
    /\ stage \in {"idle", "done"} => todo = <<>>
    /\ stage = "direct" => todo \in {<<EveryChannel, Topic>>, <<Topic>>, <<>>}
    /\ stage = "idle" => steady = {}
    /\ steady \subseteq Registered(snapshot)
    /\ \A p \in steady :
           p[1] \in DirectChannels => delivered[p] > 0 \/ (stage = "direct" /\ Ahead(p))

Inv == TypeOK /\ RegistryInv /\ FireInv

\* An empty registry and an idle worker satisfy the invariant.
LEMMA InitInv == Init => Inv
<1> SUFFICES ASSUME Init PROVE Inv
  OBVIOUS
<1> USE DEF Init, NoCallbacks
<1>1. TypeOK
  <2>1. NoCallbacks \in Lists
    BY DEF Lists
  <2> HIDE DEF NoCallbacks
  <2>2. /\ copy \in [Registrars -> Lists]
        /\ pc \in [Registrars -> {"idle", "adding", "rescanning", "removing"}]
        /\ op \in [Registrars -> Registrations \cup {<<>>}]
    BY <2>1
  <2>3. delivered \in [Registrations -> Nat] /\ pos \in Nat \ {0} /\ todo \in Seq(Seq(Levels))
    OBVIOUS
  <2> QED BY <2>1, <2>2, <2>3 DEF TypeOK
<1>2. Registered(callbacks_by_channel) = {}
  BY DEF Registered, Registrations, Contains
<1>3. ~AnyWildcard(callbacks_by_channel)
  BY DEF AnyWildcard
<1>4. RegistryInv
  BY <1>2, <1>3
     DEF RegistryInv, CriticalSection, HolderIsInside, DistinctLists, Distinct, NoUpdateLost,
         FlagExact
<1>5. FireInv
  BY DEF FireInv
<1> QED BY <1>1, <1>4, <1>5 DEF Inv

\* Calls that change the registry keep its invariant: each step works on the
\* copy of the one thread that holds the lock.
LEMMA RegistryStep ==
    ASSUME Inv, [Next]_vars
    PROVE  RegistryInv'
<1> USE DEF Inv
<1>1. ASSUME NEW r \in Registrars, NEW c \in Channels, NEW k \in Callbacks, AddBegin(r, c, k)
      PROVE  RegistryInv'
  <2> DEFINE new == Added(callbacks_by_channel, c, k)
  <2>1. lock = NoThread /\ lock' = r /\ pc[r] = "idle" /\ r # NoThread
    BY <1>1, RegistryAssumption DEF AddBegin, Acquire
  <2>2. /\ new \in Lists
        /\ DistinctLists(new)
        /\ Registered(new) = Registered(callbacks_by_channel) \cup {<<c, k>>}
        /\ AnyWildcard(new) <=> AnyWildcard(callbacks_by_channel) \/ HasWildcard(c)
    BY AddedMap DEF TypeOK, RegistryInv
  <2> HIDE DEF new
  <2>3. /\ pc' = [pc EXCEPT ![r] = "adding"]
        /\ op' = [op EXCEPT ![r] = <<c, k>>]
        /\ copy' = [copy EXCEPT ![r] = new]
        /\ wildcarding_enabled' <=> wildcarding_enabled \/ HasWildcard(c)
        /\ UNCHANGED <<callbacks_by_channel, wanted>>
    BY <1>1 DEF AddBegin, new
  <2>4. \A q \in Registrars : pc[q] = "idle"
    BY <2>1, RegistryAssumption DEF RegistryInv, CriticalSection
  <2>5. pc'[r] = "adding" /\ op'[r] = <<c, k>> /\ copy'[r] = new
        /\ \A q \in Registrars \ {r} : pc'[q] = "idle"
    BY <2>3, <2>4 DEF TypeOK
  <2>6. <<c, k>> \in Registrations
    BY DEF Registrations
  <2>7. wildcarding_enabled' <=> AnyWildcard(new)
    BY <2>1, <2>2, <2>3 DEF RegistryInv, FlagExact
  <2>8. CriticalSection'
    <3> SUFFICES ASSUME NEW q \in Registrars, pc'[q] # "idle"
                 PROVE  /\ lock' = q
                        /\ op'[q] \in Registrations
                        /\ DistinctLists(copy'[q])
                        /\ Registered(copy'[q]) =
                               IF pc'[q] = "adding" THEN wanted' \cup {op'[q]}
                                                    ELSE wanted' \ {op'[q]}
                        /\ pc'[q] # "rescanning" =>
                               (wildcarding_enabled' <=> AnyWildcard(copy'[q]))
      BY DEF CriticalSection, Registered, AnyWildcard, DistinctLists
    <3>1. q = r
      BY <2>5
    <3>2. Registered(new) = wanted' \cup {<<c, k>>}
      BY <2>2, <2>3 DEF RegistryInv, NoUpdateLost
    <3> QED BY <3>1, <3>2, <2>1, <2>2, <2>5, <2>6, <2>7
  <2>9. HolderIsInside' /\ FlagExact'
    BY <2>1, <2>5 DEF HolderIsInside, FlagExact
  <2>10. DistinctLists(callbacks_by_channel)' /\ NoUpdateLost'
    BY <2>3 DEF RegistryInv, NoUpdateLost, DistinctLists, Registered
  <2> QED BY <2>8, <2>9, <2>10 DEF RegistryInv
<1>2. ASSUME NEW r \in Registrars, NEW c \in Channels, NEW k \in Callbacks, RemoveBegin(r, c, k)
      PROVE  RegistryInv'
  <2> DEFINE new == Removed(callbacks_by_channel, c, k)
  <2>1. lock = NoThread /\ lock' = r /\ pc[r] = "idle" /\ r # NoThread
    BY <1>2, RegistryAssumption DEF RemoveBegin, Acquire
  <2>2. /\ new \in Lists
        /\ DistinctLists(new)
        /\ Registered(new) = Registered(callbacks_by_channel) \ {<<c, k>>}
        /\ AnyWildcard(new) => AnyWildcard(callbacks_by_channel)
    BY RemovedMap DEF TypeOK, RegistryInv
  <2> HIDE DEF new
  <2>3. /\ pc' = [pc EXCEPT ![r] = IF wildcarding_enabled THEN "rescanning" ELSE "removing"]
        /\ op' = [op EXCEPT ![r] = <<c, k>>]
        /\ copy' = [copy EXCEPT ![r] = new]
        /\ ~wildcarding_enabled'
        /\ UNCHANGED <<callbacks_by_channel, wanted>>
    BY <1>2 DEF RemoveBegin, new
  <2>4. \A q \in Registrars : pc[q] = "idle"
    BY <2>1, RegistryAssumption DEF RegistryInv, CriticalSection
  <2>5. /\ pc'[r] = IF wildcarding_enabled THEN "rescanning" ELSE "removing"
        /\ op'[r] = <<c, k>>
        /\ copy'[r] = new
        /\ \A q \in Registrars \ {r} : pc'[q] = "idle"
    BY <2>3, <2>4 DEF TypeOK
  <2>6. <<c, k>> \in Registrations
    BY DEF Registrations
  <2>7. ~wildcarding_enabled => ~AnyWildcard(new)
    BY <2>1, <2>2 DEF RegistryInv, FlagExact
  <2>8. CriticalSection'
    <3> SUFFICES ASSUME NEW q \in Registrars, pc'[q] # "idle"
                 PROVE  /\ lock' = q
                        /\ op'[q] \in Registrations
                        /\ DistinctLists(copy'[q])
                        /\ Registered(copy'[q]) =
                               IF pc'[q] = "adding" THEN wanted' \cup {op'[q]}
                                                    ELSE wanted' \ {op'[q]}
                        /\ pc'[q] # "rescanning" =>
                               (wildcarding_enabled' <=> AnyWildcard(copy'[q]))
      BY DEF CriticalSection, Registered, AnyWildcard, DistinctLists
    <3>1. q = r
      BY <2>5
    <3>2. Registered(new) = wanted' \ {<<c, k>>}
      BY <2>2, <2>3 DEF RegistryInv, NoUpdateLost
    <3>3. pc'[r] # "adding" /\ (pc'[r] # "rescanning" => ~wildcarding_enabled)
      BY <2>5
    <3> QED BY <3>1, <3>2, <3>3, <2>1, <2>2, <2>3, <2>5, <2>6, <2>7
  <2>9. HolderIsInside' /\ FlagExact'
    BY <2>1, <2>5 DEF HolderIsInside, FlagExact
  <2>10. DistinctLists(callbacks_by_channel)' /\ NoUpdateLost'
    BY <2>3 DEF RegistryInv, NoUpdateLost, DistinctLists, Registered
  <2> QED BY <2>8, <2>9, <2>10 DEF RegistryInv
<1>3. ASSUME NEW r \in Registrars, Rescan(r)
      PROVE  RegistryInv'
  <2>1. /\ pc[r] = "rescanning" /\ pc' = [pc EXCEPT ![r] = "removing"]
        /\ wildcarding_enabled' <=> AnyWildcard(copy[r])
        /\ UNCHANGED <<callbacks_by_channel, lock, op, copy, wanted>>
    BY <1>3 DEF Rescan
  <2>2. \A q \in Registrars : pc[q] # "idle" => q = r
    BY <2>1 DEF RegistryInv, CriticalSection
  <2>3. CriticalSection'
    BY <2>1, <2>2 DEF RegistryInv, CriticalSection, TypeOK, Registered, AnyWildcard, DistinctLists
  <2>4. lock = r /\ r # NoThread
    BY <2>1, RegistryAssumption DEF RegistryInv, CriticalSection
  <2>5. HolderIsInside' /\ FlagExact'
    BY <2>1, <2>4 DEF HolderIsInside, FlagExact, TypeOK
  <2>6. DistinctLists(callbacks_by_channel)' /\ NoUpdateLost'
    BY <2>1 DEF RegistryInv, NoUpdateLost, DistinctLists, Registered
  <2> QED BY <2>3, <2>5, <2>6 DEF RegistryInv
<1>4. ASSUME NEW r \in Registrars, Publish(r)
      PROVE  RegistryInv'
  <2>1. /\ pc[r] \in {"adding", "removing"} /\ pc' = [pc EXCEPT ![r] = "idle"]
        /\ callbacks_by_channel' = copy[r]
        /\ wanted' = IF pc[r] = "adding" THEN wanted \cup {op[r]} ELSE wanted \ {op[r]}
        /\ lock' = NoThread
        /\ UNCHANGED wildcarding_enabled
    BY <1>4 DEF Publish
  <2>2. /\ DistinctLists(copy[r])
        /\ Registered(copy[r]) = wanted'
        /\ wildcarding_enabled <=> AnyWildcard(copy[r])
        /\ \A q \in Registrars : pc[q] # "idle" => q = r
    BY <2>1 DEF RegistryInv, CriticalSection
  <2>3. CriticalSection' /\ HolderIsInside'
    BY <2>1, <2>2 DEF CriticalSection, HolderIsInside, TypeOK
  <2>4. DistinctLists(callbacks_by_channel)' /\ NoUpdateLost' /\ FlagExact'
    BY <2>1, <2>2 DEF NoUpdateLost, FlagExact, DistinctLists, Registered, AnyWildcard
  <2> QED BY <2>3, <2>4 DEF RegistryInv
<1>5. ASSUME UNCHANGED registry
      PROVE  RegistryInv'
  BY <1>5
     DEF registry, RegistryInv, CriticalSection, HolderIsInside, DistinctLists, NoUpdateLost,
         FlagExact, Registered, AnyWildcard
<1>6. CASE \/ FireBegin \/ FireNext \/ NextChannel \/ ReadFlag \/ WildcardsDone
           \/ FireEnd \/ FireRaises \/ UNCHANGED vars
  BY <1>5, <1>6
     DEF FireBegin, FireNext, NextChannel, ReadFlag, WildcardsDone, FireEnd, FireRaises,
         FireReset, vars
<1> QED BY <1>1, <1>2, <1>3, <1>4, <1>6 DEF Next

\* Every step keeps the types.
LEMMA TypeStep ==
    ASSUME Inv, [Next]_vars
    PROVE  TypeOK'
<1> USE DEF Inv, TypeOK
<1>1. ASSUME NEW r \in Registrars, NEW c \in Channels, NEW k \in Callbacks, AddBegin(r, c, k)
      PROVE  TypeOK'
  <2>1. Added(callbacks_by_channel, c, k) \in Lists
    BY AddedMap DEF RegistryInv
  <2>2. <<c, k>> \in Registrations
    BY DEF Registrations
  <2>3. /\ lock' \in Registrars \cup {NoThread}
        /\ copy' \in [Registrars -> Lists]
        /\ op' \in [Registrars -> Registrations \cup {<<>>}]
        /\ pc' \in [Registrars -> {"idle", "adding", "rescanning", "removing"}]
        /\ wildcarding_enabled' \in BOOLEAN
    BY <1>1, <2>1, <2>2 DEF AddBegin, Acquire
  <2> QED BY <1>1, <2>3 DEF AddBegin, fire
<1>2. ASSUME NEW r \in Registrars, NEW c \in Channels, NEW k \in Callbacks, RemoveBegin(r, c, k)
      PROVE  TypeOK'
  <2>1. Removed(callbacks_by_channel, c, k) \in Lists
    BY RemovedMap DEF RegistryInv
  <2>2. <<c, k>> \in Registrations
    BY DEF Registrations
  <2>3. /\ lock' \in Registrars \cup {NoThread}
        /\ copy' \in [Registrars -> Lists]
        /\ op' \in [Registrars -> Registrations \cup {<<>>}]
        /\ pc' \in [Registrars -> {"idle", "adding", "rescanning", "removing"}]
        /\ wildcarding_enabled' \in BOOLEAN
        /\ steady' \subseteq Registrations
    BY <1>2, <2>1, <2>2 DEF RemoveBegin, Acquire
  <2> QED BY <1>2, <2>3 DEF RemoveBegin, fire
<1>3. ASSUME NEW r \in Registrars, Rescan(r)
      PROVE  TypeOK'
  BY <1>3 DEF Rescan, AnyWildcard, fire
<1>4. ASSUME NEW r \in Registrars, Publish(r)
      PROVE  TypeOK'
  <2>1. pc[r] # "idle" /\ op[r] \in Registrations
    BY <1>4 DEF Publish, RegistryInv, CriticalSection
  <2>2. NoCallbacks \in Lists
    BY DEF Lists, NoCallbacks
  <2> QED BY <1>4, <2>1, <2>2 DEF Publish, fire
<1>5. CASE FireBegin
  <2>1. Registered(callbacks_by_channel) \subseteq Registrations
    BY DEF Registered
  <2>3. <<EveryChannel, Topic>> \in Seq(Seq(Levels))
    BY DirectTypes, PairSeq
  <2> QED BY <1>5, <2>1, <2>3 DEF FireBegin, registry
<1>6. CASE FireNext
  <2> DEFINE key == <<Head(todo), Current[pos]>>
  <2>1. delivered' = [delivered EXCEPT ![key] = delivered[key] + 1] /\ pos' = pos + 1
    BY <1>6 DEF FireNext
  <2> HIDE DEF key
  <2>2. delivered' \in [Registrations -> Nat]
    <3>1. \A p \in Registrations : delivered[p] \in Nat /\ delivered[p] + 1 \in Nat
      OBVIOUS
    <3> QED BY <3>1, <2>1
  <2>3. pos' \in Nat \ {0}
    BY <2>1
  <2> QED BY <1>6, <2>2, <2>3 DEF FireNext, registry
<1>7. CASE NextChannel
  <2>1. Head(todo) \in Seq(Levels) /\ Tail(todo) \in Seq(Seq(Levels))
    BY <1>7 DEF NextChannel
  <2>2. todo' \in Seq(Seq(Levels))
    BY <1>7, <2>1, WildcardsAboveType DEF NextChannel
  <2> QED BY <1>7, <2>2 DEF NextChannel, registry
<1>8. CASE ReadFlag
  <2>1. todo' \in Seq(Seq(Levels)) /\ stage' \in {"wildcards", "done"}
    BY <1>8, WildcardsAboveType, RegistryAssumption DEF ReadFlag
  <2> QED BY <1>8, <2>1 DEF ReadFlag, registry
<1>9. CASE WildcardsDone
  BY <1>9 DEF WildcardsDone, registry
<1>10. CASE FireReset
  <2>1. NoCallbacks \in Lists
    BY DEF Lists, NoCallbacks
  <2>2. todo' \in Seq(Seq(Levels)) /\ pos' \in Nat \ {0} /\ delivered' \in [Registrations -> Nat]
    BY <1>10 DEF FireReset
  <2> QED BY <1>10, <2>1, <2>2 DEF FireReset, registry
<1>11. CASE UNCHANGED vars
  BY <1>11 DEF vars, registry, fire
<1> QED
  BY <1>1, <1>2, <1>3, <1>4, <1>5, <1>6, <1>7, <1>8, <1>9, <1>10, <1>11
     DEF Next, FireEnd, FireRaises

\* Firing keeps its invariant: the snapshot never changes under the worker.
LEMMA FireStep ==
    ASSUME Inv, [Next]_vars
    PROVE  FireInv'
<1> USE DEF Inv
<1>1. ASSUME UNCHANGED fire, steady' \subseteq steady
      PROVE  FireInv'
  BY <1>1 DEF fire, FireInv, Ahead, Registered
<1>2. CASE FireBegin
  <2>1. /\ stage' = "direct"
        /\ snapshot' = callbacks_by_channel
        /\ todo' = <<EveryChannel, Topic>>
        /\ pos' = 1
        /\ steady' \subseteq Registered(callbacks_by_channel)
    BY <1>2 DEF FireBegin
  <2>2. ASSUME NEW p \in steady', p[1] \in DirectChannels
        PROVE  Ahead(p)'
    <3>1. \E i \in 1 .. Len(callbacks_by_channel[p[1]]) : callbacks_by_channel[p[1]][i] = p[2]
      BY <2>1, <2>2 DEF Registered, Contains
    <3>2. p[1] = EveryChannel \/ p[1] = Topic
      BY <2>2 DEF DirectChannels
    <3>3. CASE p[1] = Topic
      BY <3>3, <2>1 DEF Ahead
    <3>4. CASE p[1] = EveryChannel
      <4>1. todo' # <<>> /\ Head(todo') = EveryChannel
        BY <2>1, DirectTypes, PairSeq
      <4>2. \E i \in 1 .. Len(snapshot'[p[1]]) : i >= pos' /\ snapshot'[p[1]][i] = p[2]
        BY <3>1, <2>1
      <4> QED BY <4>1, <4>2, <3>4 DEF Ahead
    <3> QED BY <3>2, <3>3, <3>4
  <2>3. steady' \subseteq Registered(snapshot)'
    BY <2>1 DEF Registered
  <2> QED BY <2>1, <2>2, <2>3 DEF FireInv
<1>3. CASE FireNext
  <2>1. /\ todo # <<>> /\ pos <= Len(Current)
        /\ delivered' = [delivered EXCEPT ![<<Head(todo), Current[pos]>>] = @ + 1]
        /\ pos' = pos + 1
        /\ UNCHANGED <<stage, snapshot, todo, steady>>
    BY <1>3 DEF FireNext
  <2>2. \A p \in Registrations : delivered[p] > 0 => delivered'[p] > 0
    <3> DEFINE key == <<Head(todo), Current[pos]>>
    <3>1. delivered' = [delivered EXCEPT ![key] = delivered[key] + 1]
      BY <2>1
    <3> HIDE DEF key
    <3> QED BY <3>1 DEF TypeOK
  <2>3. ASSUME NEW p \in steady, p[1] \in DirectChannels, Ahead(p), stage = "direct"
        PROVE  delivered'[p] > 0 \/ Ahead(p)'
    <3>1. CASE todo = <<EveryChannel, Topic>> /\ p[1] = Topic
      BY <3>1, <2>1 DEF Ahead
    <3>2. CASE p[1] = Head(todo)
      <4>1. CASE \E i \in 1 .. Len(snapshot[p[1]]) : i >= pos + 1 /\ snapshot[p[1]][i] = p[2]
        BY <4>1, <3>2, <2>1 DEF Ahead
      <4>2. CASE /\ \A i \in 1 .. Len(snapshot[p[1]]) :
                        i >= pos + 1 => snapshot[p[1]][i] # p[2]
                 /\ \E i \in 1 .. Len(snapshot[p[1]]) : i >= pos /\ snapshot[p[1]][i] = p[2]
        <5>1. snapshot[p[1]][pos] = p[2]
          BY <4>2 DEF TypeOK
        <5>2. p \in Registrations /\ p[1] \in Channels /\ p = <<p[1], p[2]>>
          BY DEF TypeOK, Registrations
        <5>3. Current = snapshot[p[1]]
          BY <3>2, <5>2 DEF Current
        <5>4. <<Head(todo), Current[pos]>> = p
          BY <5>1, <5>2, <5>3, <3>2
        <5>5. delivered' = [delivered EXCEPT ![p] = delivered[p] + 1]
          BY <5>4, <2>1
        <5>6. delivered[p] \in Nat /\ delivered \in [Registrations -> Nat]
          BY <5>2 DEF TypeOK
        <5>7. delivered'[p] = delivered[p] + 1
          BY <5>2, <5>5, <5>6
        <5> QED BY <5>6, <5>7
      <4> QED BY <2>3, <3>1, <4>1, <4>2 DEF Ahead
    <3> QED BY <2>3, <3>1, <3>2 DEF Ahead
  <2>4. \A p \in steady :
           p[1] \in DirectChannels => delivered'[p] > 0 \/ (stage = "direct" /\ Ahead(p)')
    BY <2>2, <2>3 DEF FireInv, TypeOK
  <2> QED BY <2>1, <2>4 DEF FireInv, Registered
<1>4. CASE NextChannel
  <2>1. /\ todo # <<>> /\ pos > Len(Current)
        /\ todo' = IF stage = "wildcards" THEN WildcardsAbove(Head(todo)) ELSE Tail(todo)
        /\ pos' = 1
        /\ UNCHANGED <<stage, snapshot, delivered, steady>>
    BY <1>4 DEF NextChannel
  <2>2. stage \notin {"idle", "done"}
    BY <2>1 DEF FireInv
  <2>3. ASSUME stage = "direct"
        PROVE  /\ todo = <<EveryChannel, Topic>> => todo' = <<Topic>>
               /\ todo = <<Topic>> => todo' = <<>>
               /\ todo = <<EveryChannel, Topic>> \/ todo = <<Topic>>
    <3>1. /\ Tail(<<EveryChannel, Topic>>) = <<Topic>>
          /\ Tail(<<Topic>>) = <<>>
      BY DirectTypes, PairSeq, SingletonSeq
    <3>2. todo \in {<<EveryChannel, Topic>>, <<Topic>>}
      BY <2>3, <2>1 DEF FireInv
    <3>3. todo' = Tail(todo)
      BY <2>3, <2>1
    <3>4. todo = <<EveryChannel, Topic>> => todo' = <<Topic>>
      BY <3>1, <3>3
    <3>5. todo = <<Topic>> => todo' = <<>>
      BY <3>1, <3>3
    <3> QED BY <3>2, <3>4, <3>5
  <2>4. ASSUME NEW p \in steady, p[1] \in DirectChannels, Ahead(p), stage = "direct"
        PROVE  Ahead(p)'
    <3>1. p \in Registered(snapshot) /\ p \in Registrations /\ p[1] \in Channels
      BY DEF FireInv, Registered, Registrations
    <3>2. p[1] # Head(todo) \/ (todo = <<EveryChannel, Topic>> /\ p[1] = Topic)
      BY <2>1, <2>4, <3>1 DEF Ahead, Current, TypeOK, Lists
    <3>3. todo = <<EveryChannel, Topic>> /\ p[1] = Topic
      BY <2>4, <3>2 DEF Ahead
    <3>4. todo' = <<Topic>> /\ todo' # <<>> /\ Head(todo') = Topic
      BY <2>3, <2>4, <3>3, DirectTypes, SingletonSeq
    <3>5. \E i \in 1 .. Len(snapshot[p[1]]) : snapshot[p[1]][i] = p[2]
      BY <3>1 DEF Registered, Contains
    <3> QED BY <3>3, <3>4, <3>5, <2>1 DEF Ahead
  <2>5. stage' = "direct" => todo' \in {<<EveryChannel, Topic>>, <<Topic>>, <<>>}
    BY <2>1, <2>3
  <2> QED BY <2>1, <2>2, <2>4, <2>5 DEF FireInv, Registered
<1>5. CASE ReadFlag
  <2>1. /\ stage = "direct" /\ todo = <<>>
        /\ stage' \in {"wildcards", "done"}
        /\ stage' = "done" => todo' = todo
        /\ UNCHANGED <<snapshot, pos, delivered, steady>>
    BY <1>5 DEF ReadFlag
  <2> QED BY <2>1 DEF FireInv, Ahead, Registered
<1>6. CASE WildcardsDone
  BY <1>6 DEF WildcardsDone, FireInv, Registered
<1>7. CASE FireReset
  BY <1>7 DEF FireReset, FireInv, Registered
<1>8. ASSUME NEW r \in Registrars, Rescan(r) \/ Publish(r)
      PROVE  FireInv'
  BY <1>1, <1>8 DEF Rescan, Publish
<1>9. ASSUME NEW r \in Registrars, NEW c \in Channels, NEW k \in Callbacks,
             AddBegin(r, c, k) \/ RemoveBegin(r, c, k)
      PROVE  FireInv'
  BY <1>1, <1>9 DEF AddBegin, RemoveBegin
<1>10. CASE UNCHANGED vars
  BY <1>1, <1>10 DEF vars
<1> QED
  BY <1>2, <1>3, <1>4, <1>5, <1>6, <1>7, <1>8, <1>9, <1>10 DEF Next, FireEnd, FireRaises

-----------------------------------------------------------------------------
\* The invariant holds in every reachable state.
LEMMA Invariance == Spec => []Inv
<1>1. Inv /\ [Next]_vars => Inv'
  BY TypeStep, RegistryStep, FireStep DEF Inv
<1> QED BY InitInv, <1>1, PTL DEF Spec

\* The registry, the copies and the worker's position keep their types.
THEOREM TypeCorrect == Spec => []TypeOK
<1>1. Inv => TypeOK
  BY DEF Inv
<1> QED BY Invariance, <1>1, PTL

\* wildcarding_enabled is exact whenever no add_callback or remove_callback is
\* in progress.
THEOREM FlagIsExact == Spec => []FlagExact
<1>1. Inv => FlagExact
  BY DEF Inv, RegistryInv
<1> QED BY Invariance, <1>1, PTL

\* However many threads add and remove callbacks, the map holds what their
\* completed calls ask for.
THEOREM UpdatesSurvive == Spec => []NoUpdateLost
<1>1. Inv => NoUpdateLost
  BY DEF Inv, RegistryInv
<1> QED BY Invariance, <1>1, PTL

\* fire_message, which takes no lock, reaches every callback of the topic and
\* of all channels that is registered when it starts and that nobody removes.
THEOREM DirectDelivery == Spec => []SteadyDirectDelivered
<1>1. Inv => SteadyDirectDelivered
  BY DEF Inv, FireInv, SteadyDirectDelivered, DirectChannels
<1> QED BY Invariance, <1>1, PTL

-----------------------------------------------------------------------------
\* How far up a channel is among the wildcards: no channel is met twice on the
\* way up, since each turn of _get_wildcards goes to a lower rank.
Rank(c) == IF c = AllWildcard THEN 0
           ELSE IF c = <<"", "#">> THEN 1
           ELSE IF HasWildcard(c) THEN Len(c) + 1 ELSE Len(c) + 2

\* Pairs, and what concatenation does to the last element.
LEMMA PairConcat ==
    ASSUME NEW S, NEW e \in S, NEW f \in S
    PROVE  /\ <<e, f>> \in Seq(S) \ {<<>>} /\ Len(<<e, f>>) = 2
           /\ <<e, f>>[1] = e /\ <<e, f>>[2] = f
           /\ <<e>> \o <<f>> = <<e, f>>
<1>1. /\ <<e, f>> \in Seq(S) \ {<<>>} /\ Len(<<e, f>>) = 2
      /\ <<e, f>>[1] = e /\ <<e, f>>[2] = f
  OBVIOUS
<1>2. <<e>> \in Seq(S) /\ <<f>> \in Seq(S)
  OBVIOUS
<1> DEFINE s == <<e>> \o <<f>>
<1>3. s \in Seq(S) /\ Len(s) = 2 /\ s[1] = e /\ s[2] = f
  BY <1>2, ConcatProperties
<1> HIDE DEF s
<1>4. s = <<e, f>>
  BY <1>1, <1>3, SeqEqual
<1> QED BY <1>1, <1>4 DEF s

LEMMA AppendLast ==
    ASSUME NEW S, NEW u \in Seq(S), NEW v \in Seq(S), Len(v) = 1
    PROVE  /\ u \o v \in Seq(S) \ {<<>>}
           /\ Len(u \o v) = Len(u) + 1
           /\ (u \o v)[Len(u \o v)] = v[1]
<1> DEFINE s == u \o v
<1>1. /\ s \in Seq(S) /\ Len(s) = Len(u) + 1
      /\ \A i \in 1 .. Len(u) + 1 : s[i] = IF i <= Len(u) THEN u[i] ELSE v[i - Len(u)]
  <2>1. /\ s \in Seq(S) /\ Len(s) = Len(u) + Len(v)
        /\ \A i \in 1 .. Len(u) + Len(v) : s[i] = IF i <= Len(u) THEN u[i] ELSE v[i - Len(u)]
    BY ConcatProperties, Zenon
  <2> HIDE DEF s
  <2> QED BY <2>1
<1>2. Len(u) \in Nat
  OBVIOUS
<1> HIDE DEF s
<1>3. s # <<>>
  BY <1>1, <1>2
<1>4. s[Len(s)] = v[1]
  BY <1>1, <1>2
<1> QED BY <1>1, <1>3, <1>4 DEF s

\* The first levels of a channel.
LEMMA FirstLevels ==
    ASSUME NEW S, NEW t \in Seq(S), NEW n \in 0 .. Len(t)
    PROVE  /\ SubSeq(t, 1, n) \in Seq(S) /\ Len(SubSeq(t, 1, n)) = n
           /\ SubSeq(t, 1, n) = <<>> <=> n = 0
<1> DEFINE u == SubSeq(t, 1, n)
<1>1. Len(t) \in Nat /\ \A i \in 1 .. n : t[i] \in S
  OBVIOUS
<1>2. u \in Seq(S) /\ Len(u) = n
  BY <1>1, SubSeqProperties
<1> HIDE DEF u
<1>3. u = <<>> <=> n = 0
  BY <1>2
<1> QED BY <1>2, <1>3 DEF u

\* The two literal wildcards.
LEMMA Literals ==
    /\ {<<"">>, AllWildcard, <<"", "#">>} \subseteq Seq(Levels) \ {<<>>}
    /\ Len(AllWildcard) = 1 /\ AllWildcard[1] = "#" /\ Len(<<"">>) = 1 /\ <<"">>[1] = ""
    /\ Len(<<"", "#">>) = 2 /\ <<"", "#">>[2] = "#"
    /\ <<"">> \o AllWildcard = <<"", "#">>
    /\ HasWildcard(AllWildcard) /\ HasWildcard(<<"", "#">>) /\ ~HasWildcard(<<"">>)
<1>1. /\ "#" \in Levels /\ "" \in Levels /\ "#" # ""
      /\ "#" \in HashLevels /\ "" \notin HashLevels
  BY LevelsAssumption
<1>2. /\ {<<"">>, AllWildcard, <<"", "#">>} \subseteq Seq(Levels) \ {<<>>}
      /\ Len(AllWildcard) = 1 /\ AllWildcard[1] = "#" /\ Len(<<"">>) = 1 /\ <<"">>[1] = ""
      /\ Len(<<"", "#">>) = 2 /\ <<"", "#">>[2] = "#"
      /\ <<"">> \o AllWildcard = <<"", "#">>
  <2> DEFINE a == ""  b == "#"
  <2> HIDE DEF a, b
  <2>1. a \in Levels /\ b \in Levels
    BY <1>1 DEF a, b
  <2>2. /\ {<<a>>, <<b>>, <<a, b>>} \subseteq Seq(Levels) \ {<<>>}
        /\ Len(<<b>>) = 1 /\ <<b>>[1] = b /\ Len(<<a>>) = 1 /\ <<a>>[1] = a
        /\ Len(<<a, b>>) = 2 /\ <<a, b>>[2] = b /\ <<a>> \o <<b>> = <<a, b>>
    BY <2>1, SingletonSeq, PairConcat
  <2> QED BY <2>2, Zenon DEF a, b, AllWildcard
<1> QED BY <1>1, <1>2, Zenon DEF HasWildcard

\* What "/".join(levels) + "/#" is.
LEMMA UnderEffect ==
    ASSUME NEW u \in Seq(Levels)
    PROVE  /\ Under(u) \in Seq(Levels) \ {<<>>}
           /\ HasWildcard(Under(u))
           /\ u = <<>> => Under(u) = <<"", "#">>
           /\ u # <<>> => Len(Under(u)) = Len(u) + 1
<1>1. CASE u = <<>>
  <2>1. Under(u) = <<"">> \o AllWildcard
    BY <1>1, Zenon DEF Under, AllWildcard
  <2>2. Under(u) = <<"", "#">>
    BY <2>1, Literals, Zenon
  <2> QED BY <1>1, <2>2, Literals, Zenon
<1>2. CASE u # <<>>
  <2>1. Under(u) = u \o AllWildcard
    BY <1>2, Zenon DEF Under, AllWildcard
  <2>2. AllWildcard \in Seq(Levels) /\ Len(AllWildcard) = 1 /\ AllWildcard[1] = "#"
    BY Literals, Zenon
  <2>3. /\ u \o AllWildcard \in Seq(Levels) \ {<<>>}
        /\ Len(u \o AllWildcard) = Len(u) + 1
        /\ (u \o AllWildcard)[Len(u \o AllWildcard)] = AllWildcard[1]
    BY <2>2, AppendLast
  <2>4. "#" \in HashLevels
    BY LevelsAssumption
  <2> QED BY <1>2, <2>1, <2>2, <2>3, <2>4, Zenon DEF HasWildcard
<1> QED BY <1>1, <1>2

\* The ranks of topics and wildcards.
LEMMA RankType ==
    ASSUME NEW c \in Seq(Levels) \ {<<>>}
    PROVE  /\ Rank(c) \in Nat
           /\ HasWildcard(c) /\ c # AllWildcard => Rank(c) > 0
           /\ ~HasWildcard(c) => Rank(c) = Len(c) + 2
           /\ HasWildcard(c) /\ c \notin {AllWildcard, <<"", "#">>} =>
                  Rank(c) = Len(c) + 1
<1>1. Len(c) \in Nat \ {0} /\ c \in [1 .. Len(c) -> Levels]
  OBVIOUS
<1> DEFINE h == HasWildcard(c)  a == AllWildcard  b == <<"", "#">>
<1>3. HasWildcard(a) /\ HasWildcard(b)
  BY Literals, Zenon
<1>4. Rank(c) = IF c = a THEN 0 ELSE IF c = b THEN 1 ELSE IF h THEN Len(c) + 1 ELSE Len(c) + 2
  BY DEF Rank
<1>5. (c = a => h) /\ (c = b => h)
  BY <1>3
<1>6. h \in BOOLEAN
  BY DEF HasWildcard
<1> HIDE DEF h, a, b
<1>7. /\ Rank(c) \in Nat
      /\ h /\ c # a => Rank(c) > 0
      /\ ~h => Rank(c) = Len(c) + 2
      /\ h /\ c \notin {a, b} => Rank(c) = Len(c) + 1
  <2>1. CASE c = a
    BY <1>4, <1>5, <2>1
  <2>2. CASE c # a /\ c = b
    BY <1>4, <1>5, <2>2
  <2>3. CASE c \notin {a, b} /\ h
    BY <1>1, <1>4, <1>6, <2>3
  <2>4. CASE c \notin {a, b} /\ ~h
    <3>1. Rank(c) = Len(c) + 2
      BY <1>4, <1>6, <2>4
    <3>2. Len(c) + 2 \in Nat
      BY <1>1
    <3> QED BY <2>4, <3>1, <3>2
  <2> QED BY <2>1, <2>2, <2>3, <2>4
<1> QED BY <1>7, Zenon DEF h, a, b

\* Each turn of _get_wildcards yields a wildcard of a lower rank.
LEMMA Climb ==
    ASSUME NEW t \in Seq(Levels) \ {<<>>}, t # AllWildcard
    PROVE  /\ WildcardsAbove(t) = <<WildcardGenerator(t)>>
           /\ WildcardGenerator(t) \in Seq(Levels) \ {<<>>}
           /\ HasWildcard(WildcardGenerator(t))
           /\ Rank(WildcardGenerator(t)) < Rank(t)
<1> DEFINE w == WildcardGenerator(t)
           e == <<"">>
           b == <<"", "#">>
<1>1. WildcardsAbove(t) = <<w>>
  BY DEF WildcardsAbove
<1>2. /\ AllWildcard \in Seq(Levels) \ {<<>>} /\ HasWildcard(AllWildcard)
      /\ ~HasWildcard(e) /\ HasWildcard(b) /\ b # AllWildcard /\ e # AllWildcard
      /\ b \in Seq(Levels) \ {<<>>}
  <2> HIDE DEF e, b
  <2>1. Len(b) = 2 /\ Len(AllWildcard) = 1 /\ e[1] = "" /\ AllWildcard[1] = "#"
    BY Literals, Zenon DEF e, b
  <2>2. b # AllWildcard
    <3>1. 2 # 1
      OBVIOUS
    <3> QED BY <2>1, <3>1, Zenon
  <2>3. e # AllWildcard
    BY <2>1
  <2> QED BY <2>2, <2>3, Literals, Zenon DEF e, b
<1>3. Rank(AllWildcard) = 0 /\ Rank(b) = 1
  <2> HIDE DEF AllWildcard
  <2> QED BY <1>2, Zenon DEF Rank
<1>4. /\ t = e \/ TwoCharacters(t) => w = AllWildcard
      /\ t # e /\ ~TwoCharacters(t) /\ ~HasWildcard(t)
             => w = Under(SubSeq(t, 1, Len(t) - 1))
      /\ t # e /\ ~TwoCharacters(t) /\ HasWildcard(t)
             => w = Under(SubSeq(t, 1, Len(t) - 2))
  BY Zenon DEF WildcardGenerator
<1>5. \A u \in Seq(Levels) : /\ Under(u) \in Seq(Levels) \ {<<>>}
                             /\ HasWildcard(Under(u))
                             /\ u = <<>> => Under(u) = b
                             /\ u # <<>> => Len(Under(u)) = Len(u) + 1
  BY UnderEffect, Zenon
<1>6. \A c \in Seq(Levels) \ {<<>>} :
          /\ Rank(c) \in Nat
          /\ HasWildcard(c) /\ c # AllWildcard => Rank(c) > 0
          /\ ~HasWildcard(c) => Rank(c) = Len(c) + 2
          /\ HasWildcard(c) /\ c \notin {AllWildcard, b} => Rank(c) = Len(c) + 1
  BY RankType, Zenon
<1>7. Len(t) \in Nat \ {0}
  OBVIOUS
<1> HIDE DEF w, e, b
<1>8. ASSUME NEW n \in 0 .. Len(t), w = Under(SubSeq(t, 1, n)),
             n = 0 \/ n + 2 < Rank(t), 1 < Rank(t)
      PROVE  w \in Seq(Levels) \ {<<>>} /\ HasWildcard(w) /\ Rank(w) < Rank(t)
  <2> DEFINE u == SubSeq(t, 1, n)
  <2>1. u \in Seq(Levels) /\ Len(u) = n /\ (u = <<>> <=> n = 0)
    BY FirstLevels
  <2> HIDE DEF u
  <2>2. w = Under(u)
    BY <1>8 DEF u
  <2>3. w \in Seq(Levels) \ {<<>>} /\ HasWildcard(w) /\ (u = <<>> => w = b)
        /\ (u # <<>> => Len(w) = n + 1)
    BY <1>5, <2>1, <2>2
  <2>4. CASE w \in {AllWildcard, b}
    BY <1>3, <1>6, <1>8, <2>3, <2>4
  <2>5. CASE w \notin {AllWildcard, b}
    BY <1>6, <1>8, <2>1, <2>3, <2>5
  <2> QED BY <2>4, <2>5
<1>9. CASE t = e \/ TwoCharacters(t)
  <2>1. w = AllWildcard
    BY <1>4, <1>9
  <2>2. HasWildcard(t) => Rank(t) > 0
    BY <1>6
  <2>3. ~HasWildcard(t) => Rank(t) > 0
    BY <1>6, <1>7
  <2> QED BY <1>1, <1>2, <1>3, <2>1, <2>2, <2>3 DEF w
<1>10. CASE t # e /\ ~TwoCharacters(t) /\ ~HasWildcard(t)
  <2>1. Rank(t) = Len(t) + 2 /\ Len(t) - 1 \in 0 .. Len(t)
    BY <1>6, <1>7, <1>10
  <2> QED BY <1>1, <1>4, <1>7, <1>8, <1>10, <2>1 DEF w
<1>11. CASE t # e /\ ~TwoCharacters(t) /\ HasWildcard(t)
  <2>1. Rank(t) = Len(t) + 1
    <3>1. t # b
      BY <1>11, Zenon DEF TwoCharacters, b
    <3> QED BY <1>6, <1>11, <3>1
  <2>2. w = Under(SubSeq(t, 1, Len(t) - 2))
    BY <1>4, <1>11
  <2>3. CASE Len(t) > 1
    <3>1. Len(t) - 2 \in 0 .. Len(t)
      BY <1>7, <2>3
    <3> QED BY <1>1, <1>7, <1>8, <2>1, <2>2, <2>3, <3>1 DEF w
  <2>4. CASE Len(t) = 1
    <3>1. SubSeq(t, 1, Len(t) - 2) = <<>>
      BY <2>4, SubSeqEmpty
    <3>2. w = Under(<<>>)
      BY <2>2, <3>1, Zenon
    <3>3. <<>> \in Seq(Levels)
      OBVIOUS
    <3>4. w = b
      BY <1>5, <3>2, <3>3, Zenon
    <3>5. 1 < Rank(t)
      BY <2>1, <2>4
    <3> QED BY <1>1, <1>2, <1>3, <3>4, <3>5 DEF w
  <2>5. \A n \in Nat \ {0} : n > 1 \/ n = 1
    OBVIOUS
  <2>6. Len(t) > 1 \/ Len(t) = 1
    BY <1>7, <2>5, Zenon
  <2> QED BY <2>3, <2>4, <2>6, Zenon
<1> QED BY <1>9, <1>10, <1>11

\* fire_message is through with the channel, or with a part of its list.
Behind(c) ==
    \/ stage = "done"
    \/ stage = "direct" /\ todo = <<Topic>> /\ c = EveryChannel
    \/ stage = "direct" /\ todo = <<>> /\ c \in DirectChannels
    \/ stage = "wildcards" /\ (c \in DirectChannels \/ todo = <<>> \/ Rank(c) > Rank(Head(todo)))
Reached(p) ==
    /\ todo # <<>> /\ p[1] = Head(todo)
    /\ \E i \in 1 .. Len(snapshot[p[1]]) : i < pos /\ snapshot[p[1]][i] = p[2]

OnceInv ==
    /\ DistinctLists(snapshot)
    /\ stage = "wildcards" =>
           \/ todo = <<>>
           \/ \E w \in Seq(Levels) \ {<<>>} :
                  todo = <<w>> /\ Head(todo) = w /\ HasWildcard(w) /\ Rank(w) < Rank(Topic)
    /\ \A p \in Registrations : delivered[p] > 0 => Behind(p[1]) \/ Reached(p)
    /\ DeliveredOnce

\* The list that fire_message is in is not behind it.
LEMMA HeadNotBehind ==
    ASSUME TypeOK, FireInv, OnceInv, todo # <<>>
    PROVE  ~Behind(Head(todo))
<1>1. stage \in {"direct", "wildcards"}
  BY DEF TypeOK, FireInv
<1>2. CASE stage = "direct"
  <2>1. todo = <<EveryChannel, Topic>> \/ todo = <<Topic>>
    BY <1>2 DEF FireInv
  <2>2. <<EveryChannel, Topic>> # <<Topic>>
    <3>1. Tail(<<EveryChannel, Topic>>) # <<>> /\ Tail(<<Topic>>) = <<>>
      BY DirectTypes, PairSeq, SingletonSeq
    <3> QED BY <3>1
  <2>3. Head(<<Topic>>) = Topic
    BY DirectTypes, SingletonSeq
  <2> QED BY <1>2, <2>1, <2>2, <2>3, DirectTypes DEF Behind
<1>3. CASE stage = "wildcards"
  <2>1. PICK w \in Seq(Levels) \ {<<>>} :
            Head(todo) = w /\ HasWildcard(w) /\ Rank(w) < Rank(Topic)
    BY <1>3 DEF OnceInv
  <2>2. w # EveryChannel
    BY <2>1, Literals, Zenon DEF EveryChannel
  <2>3. Rank(w) \in Nat /\ Rank(Topic) \in Nat
    BY RankType, RegistryAssumption
  <2> QED BY <1>3, <2>1, <2>2, <2>3 DEF Behind, DirectChannels
<1> QED BY <1>1, <1>2, <1>3

LEMMA OnceStep ==
    ASSUME Inv, OnceInv, [Next]_vars
    PROVE  OnceInv'
<1> USE DEF Inv
<1>1. ASSUME UNCHANGED fire
      PROVE  OnceInv'
  BY <1>1 DEF fire, OnceInv, DistinctLists, Behind, Reached, DeliveredOnce
<1>2. CASE FireBegin
  <2>1. /\ stage = "idle" /\ stage' = "direct" /\ snapshot' = callbacks_by_channel
        /\ delivered' = delivered
    BY <1>2 DEF FireBegin
  <2>2. todo = <<>>
    BY <2>1 DEF FireInv
  <2>3. \A p \in Registrations : ~(delivered[p] > 0)
    BY <2>1, <2>2 DEF OnceInv, Behind, Reached
  <2> QED BY <2>1, <2>3 DEF OnceInv, DistinctLists, DeliveredOnce, RegistryInv
<1>3. CASE FireNext
  <2>1. /\ todo # <<>> /\ pos <= Len(Current)
        /\ delivered' = [delivered EXCEPT ![<<Head(todo), Current[pos]>>] = @ + 1]
        /\ pos' = pos + 1
        /\ UNCHANGED <<stage, snapshot, todo>>
    BY <1>3 DEF FireNext
  <2>2. /\ Head(todo) \in Channels /\ Current = snapshot[Head(todo)]
        /\ pos \in 1 .. Len(Current) /\ Current \in Seq(Callbacks)
    BY <2>1 DEF Current, TypeOK, Lists
  <2>3. PICK k \in Registrations : /\ k = <<Head(todo), Current[pos]>>
                                   /\ k[1] = Head(todo) /\ k[2] = snapshot[Head(todo)][pos]
    <3> DEFINE c == Head(todo)  d == Current[pos]
    <3>1. c \in Channels /\ d \in Callbacks /\ d = snapshot[c][pos]
      BY <2>2
    <3> HIDE DEF c, d
    <3>2. <<c, d>> \in Registrations /\ <<c, d>>[1] = c /\ <<c, d>>[2] = d
      BY <3>1 DEF Registrations
    <3>3. \E k \in Registrations : k = <<c, d>> /\ k[1] = c /\ k[2] = snapshot[c][pos]
      BY <3>1, <3>2
    <3> QED BY <3>3 DEF c, d
  <2>4. ~Reached(k)
    BY <2>2, <2>3 DEF Reached, OnceInv, DistinctLists, Distinct
  <2>5. ~Behind(k[1])
    BY <2>1, <2>3, HeadNotBehind
  <2>6. delivered[k] = 0
    BY <2>4, <2>5 DEF OnceInv, TypeOK
  <2>7. /\ delivered'[k] = 1
        /\ \A p \in Registrations \ {k} : delivered'[p] = delivered[p]
    <3>1. delivered' = [delivered EXCEPT ![k] = delivered[k] + 1]
      BY <2>1, <2>3
    <3> QED BY <2>6, <3>1 DEF TypeOK
  <2>8. Reached(k)'
    BY <2>1, <2>2, <2>3 DEF Reached
  <2>9. \A p \in Registrations : Reached(p) => Reached(p)'
    BY <2>1, <2>2 DEF Reached
  <2>10. \A c : Behind(c) => Behind(c)'
    BY <2>1 DEF Behind
  <2>11. DeliveredOnce'
    BY <2>7 DEF OnceInv, DeliveredOnce
  <2>12. ASSUME NEW p \in Registrations, delivered'[p] > 0
         PROVE  Behind(p[1])' \/ Reached(p)'
    BY <2>7, <2>8, <2>9, <2>10, <2>12 DEF OnceInv
  <2> QED BY <2>1, <2>11, <2>12 DEF OnceInv, DistinctLists
<1>4. CASE NextChannel
  <2>1. /\ todo # <<>>
        /\ todo' = IF stage = "wildcards" THEN WildcardsAbove(Head(todo)) ELSE Tail(todo)
        /\ UNCHANGED <<stage, snapshot, delivered>>
    BY <1>4 DEF NextChannel
  <2>2. stage \in {"direct", "wildcards"}
    BY <2>1 DEF FireInv, TypeOK
  <2>3. CASE stage = "direct"
    <3>1. /\ Tail(<<EveryChannel, Topic>>) = <<Topic>>
          /\ Head(<<EveryChannel, Topic>>) = EveryChannel
          /\ Tail(<<Topic>>) = <<>> /\ Head(<<Topic>>) = Topic /\ <<Topic>> # <<>>
      BY DirectTypes, PairSeq, SingletonSeq
    <3>2. \/ todo = <<EveryChannel, Topic>> /\ todo' = <<Topic>> /\ Head(todo) = EveryChannel
          \/ todo = <<Topic>> /\ todo' = <<>> /\ Head(todo) = Topic
      BY <2>1, <2>3, <3>1 DEF FireInv
    <3>3. <<EveryChannel, Topic>> # <<Topic>>
      BY <3>1
    <3>4. ASSUME NEW p \in Registrations, Behind(p[1]) \/ Reached(p)
          PROVE  Behind(p[1])'
      <4>1. CASE Behind(p[1])
        BY <2>1, <2>3, <3>1, <3>2, <3>3, <4>1 DEF Behind, DirectChannels
      <4>2. CASE Reached(p)
        BY <2>1, <2>3, <3>2, <4>2 DEF Behind, Reached, DirectChannels
      <4> QED BY <3>4, <4>1, <4>2
    <3> QED BY <2>1, <2>3, <3>4 DEF OnceInv, DistinctLists, DeliveredOnce
  <2>4. CASE stage = "wildcards"
    <3>1. PICK w \in Seq(Levels) \ {<<>>} :
              Head(todo) = w /\ HasWildcard(w) /\ Rank(w) < Rank(Topic)
      BY <2>1, <2>4 DEF OnceInv
    <3>2. todo' = WildcardsAbove(w)
      BY <2>1, <2>4, <3>1
    <3>3. CASE w = AllWildcard
      <4>1. todo' = <<>>
        BY <3>2, <3>3 DEF WildcardsAbove
      <4> QED BY <2>1, <2>4, <4>1 DEF OnceInv, Behind, DistinctLists, DeliveredOnce
    <3>4. CASE w # AllWildcard
      <4> DEFINE up == WildcardGenerator(w)
      <4>1. /\ todo' = <<up>> /\ up \in Seq(Levels) \ {<<>>} /\ HasWildcard(up)
            /\ Rank(up) < Rank(w)
        BY <3>2, <3>4, Climb
      <4> HIDE DEF up
      <4>2. Head(todo') = up
        BY <4>1, SingletonSeq
      <4>3. Rank(up) \in Nat /\ Rank(w) \in Nat /\ Rank(Topic) \in Nat
        BY <4>1, RankType, RegistryAssumption
      <4>4. ASSUME NEW p \in Registrations, Behind(p[1]) \/ Reached(p)
            PROVE  Behind(p[1])'
        <5>1. p[1] \in Seq(Levels) \ {<<>>}
          BY RegistryAssumption DEF Registrations
        <5>2. Rank(p[1]) \in Nat
          BY <5>1, RankType
        <5>3. CASE Behind(p[1])
          BY <2>1, <2>4, <3>1, <4>1, <4>2, <4>3, <5>2, <5>3 DEF Behind
        <5>4. CASE Reached(p)
          BY <2>1, <2>4, <3>1, <4>1, <4>2, <4>3, <5>4 DEF Behind, Reached
        <5> QED BY <4>4, <5>3, <5>4
      <4>5. Rank(up) < Rank(Topic)
        BY <3>1, <4>1, <4>3
      <4> QED BY <2>1, <2>4, <4>1, <4>2, <4>4, <4>5 DEF OnceInv, DistinctLists, DeliveredOnce
    <3> QED BY <3>3, <3>4
  <2> QED BY <2>2, <2>3, <2>4
<1>5. CASE ReadFlag
  <2>1. /\ stage = "direct" /\ todo = <<>>
        /\ \/ stage' = "wildcards" /\ todo' = WildcardsAbove(Topic)
           \/ stage' = "done" /\ todo' = todo
        /\ UNCHANGED <<snapshot, delivered>>
    BY <1>5 DEF ReadFlag
  <2>2. \A p \in Registrations : delivered[p] > 0 => Behind(p[1])'
    <3>1. \A p \in Registrations : delivered[p] > 0 => p[1] \in DirectChannels
      BY <2>1 DEF OnceInv, Behind, Reached
    <3> QED BY <2>1, <3>1 DEF Behind
  <2>3. ASSUME stage' = "wildcards", Topic # AllWildcard
        PROVE  \E w \in Seq(Levels) \ {<<>>} :
                   todo' = <<w>> /\ Head(todo') = w /\ HasWildcard(w) /\ Rank(w) < Rank(Topic)
    <3> DEFINE up == WildcardGenerator(Topic)
    <3>1. /\ todo' = <<up>> /\ up \in Seq(Levels) \ {<<>>} /\ HasWildcard(up)
          /\ Rank(up) < Rank(Topic)
      BY <2>1, <2>3, Climb, RegistryAssumption
    <3> HIDE DEF up
    <3>2. Head(todo') = up
      BY <3>1, SingletonSeq
    <3> QED BY <3>1, <3>2
  <2>4. Topic = AllWildcard /\ stage' = "wildcards" => todo' = <<>>
    BY <2>1 DEF WildcardsAbove
  <2> QED BY <2>1, <2>2, <2>3, <2>4 DEF OnceInv, DistinctLists, DeliveredOnce
<1>6. CASE WildcardsDone
  BY <1>6 DEF WildcardsDone, OnceInv, Behind, DistinctLists, DeliveredOnce
<1>7. CASE FireReset
  <2>1. DistinctLists(NoCallbacks)
    BY DEF DistinctLists, Distinct, NoCallbacks
  <2>2. \A p \in Registrations : delivered'[p] = 0
    BY <1>7 DEF FireReset
  <2>3. stage' = "idle" /\ snapshot' = NoCallbacks
    BY <1>7 DEF FireReset
  <2> QED BY <2>1, <2>2, <2>3 DEF OnceInv, DistinctLists, DeliveredOnce
<1>8. ASSUME NEW r \in Registrars, Rescan(r) \/ Publish(r)
      PROVE  OnceInv'
  BY <1>1, <1>8 DEF Rescan, Publish
<1>9. ASSUME NEW r \in Registrars, NEW c \in Channels, NEW k \in Callbacks,
             AddBegin(r, c, k) \/ RemoveBegin(r, c, k)
      PROVE  OnceInv'
  BY <1>1, <1>9 DEF AddBegin, RemoveBegin
<1>10. CASE UNCHANGED vars
  BY <1>1, <1>10 DEF vars
<1> QED
  BY <1>2, <1>3, <1>4, <1>5, <1>6, <1>7, <1>8, <1>9, <1>10 DEF Next, FireEnd, FireRaises

\* No registration receives a message twice: the channels that fire_message goes
\* through are all different, whatever the topic, and so are the callbacks of a
\* list (_callback_manager.py:155-179, _dxl_utils.py:26-57).
THEOREM OneDelivery == Spec => []DeliveredOnce
<1>1. Init => OnceInv
  <2> SUFFICES ASSUME Init PROVE OnceInv
    OBVIOUS
  <2>1. DistinctLists(NoCallbacks)
    BY DEF DistinctLists, Distinct, NoCallbacks
  <2>2. stage = "idle" /\ snapshot = NoCallbacks /\ \A p \in Registrations : delivered[p] = 0
    BY DEF Init
  <2> QED BY <2>1, <2>2 DEF OnceInv, DeliveredOnce
<1>2. Inv /\ OnceInv /\ [Next]_vars => OnceInv'
  BY OnceStep
<1>3. OnceInv => DeliveredOnce
  BY DEF OnceInv
<1> QED BY Invariance, <1>1, <1>2, <1>3, PTL DEF Spec
=============================================================================
