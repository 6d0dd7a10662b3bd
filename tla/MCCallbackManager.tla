-------------------------- MODULE MCCallbackManager --------------------------
(* CallbackManager on the topic "/a" with callbacks for every channel, for    *)
(* the topic and for its wildcard "/#".                                       *)
EXTENDS CallbackManager

AnyChannel == <<"">>
TheTopic == <<"", "a">>
TheWildcard == <<"", "#">>
TopicWildcard == {TheTopic, TheWildcard}
AllChannels == {AnyChannel, TheTopic, TheWildcard}

Symmetry == Permutations(Registrars) \cup Permutations(Callbacks)
=============================================================================
