--------------------------- MODULE MCCommsDispatch ---------------------------
(* Instances of CommsDispatch for the model checker.                       *)
EXTENDS CommsDispatch

CONSTANTS s1, s2, m1, m2, m3, email, telegram

OneSite  == {s1}
TwoSites == {s1, s2}
AllOnS1  == [e \in 1 .. N |-> s1]

(* Two plain entries with one message id, on two channels.                 *)
OneId   == {m1}
SameId  == [e \in 1 .. N |-> m1]
Plain   == [e \in 1 .. N |-> "plain"]
TwoChannels == {email, telegram}
BothChannels == {TwoChannels}

(* One entry that announces saved settings.                                *)
OneReload == <<"settings.reload">>

(* A plain entry that caches the settings, a reload and a spam entry.      *)
ThreeIds == {m1, m2, m3}
OwnId    == <<m1, m2, m3>>
Mixed    == <<"plain", "settings.reload", "spam">>
OneChannel == {email}
EmailOnly  == {OneChannel}

(* An entry on the stream of an invalid site, and a plain one elsewhere.   *)
TwoIds   == {m1, m2}
TwoOwnId == <<m1, m2>>
OnItsOwn == <<s1, s2>>
Stuck    == <<"unparsed", "plain">>
=============================================================================
