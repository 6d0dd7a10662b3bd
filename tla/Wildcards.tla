------------------------------ MODULE Wildcards ------------------------------
(***************************************************************************)
(* The wildcard channels of a topic: _wildcard_generator and                *)
(* _get_wildcards of dxlclient/_dxl_utils.py.  A channel is the sequence of  *)
(* its levels, what split("/") returns: "" is <<"">>, "/a/#" is              *)
(* <<"", "a", "#">>.  Of a level the code asks whether it ends in a "#", and  *)
(* of a channel of one level whether it is two characters long.              *)
(***************************************************************************)
EXTENDS Integers, Sequences

CONSTANTS Levels,      \* the levels a channel is made of
          HashLevels,  \* those whose last character is a "#"
          HashPairs    \* those of one character and a "#"

ASSUME LevelsAssumption ==
    /\ HashLevels \subseteq Levels /\ "" \in Levels \ HashLevels
    /\ "#" \in HashLevels /\ HashPairs \subseteq HashLevels \ {"#"}

AllWildcard == <<"#">>

\* _has_wildcard: the channel's last character is a "#".
HasWildcard(channel) == channel[Len(channel)] \in HashLevels

\* "/".join(levels) + "/#": joining no level at all gives "".
Under(levels) == (IF levels = <<>> THEN <<"">> ELSE levels) \o <<"#">>

\* len(topic) is 2, for a topic with a "#" at its end.
TwoCharacters(topic) ==
    topic = <<"", "#">> \/ (Len(topic) = 1 /\ topic[1] \in HashPairs)

\* The next wildcard up.
WildcardGenerator(topic) ==
    IF topic = <<"">> \/ TwoCharacters(topic) THEN AllWildcard
    ELSE Under(SubSeq(topic, 1, Len(topic) - (IF HasWildcard(topic) THEN 2 ELSE 1)))

\* The loop of _get_wildcards, one turn: nothing comes after "#".
WildcardsAbove(topic) ==
    IF topic = AllWildcard THEN <<>> ELSE <<WildcardGenerator(topic)>>
=============================================================================
