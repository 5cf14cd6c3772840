------------------------------- MODULE MCFeed -------------------------------
(***************************************************************************)
(* Instances of Feed for TLC.                                               *)
(***************************************************************************)
EXTENDS Feed, TLC

CONSTANTS u1, u2

\* Two users where rows of different users meet, one where a user meets themselves.
Mixture ==
    [names : {{"react", "save", "unpost"}, {"comment", "uncomment", "best"}, {"comment", "unpost"},
              {"vote"}, {"join", "follow"}, {"join", "announce"}, {"follow", "announce"}, {"status"}, {"rsvp", "remind"}},
     users : {People}]
    \cup
    [names : {{"comment", "like", "uncomment"}, {"vote", "close"}, {"message"}},
     users : {{u1}}]

\* Two requests of u1 may both insert a reminder.
SomeReminders == {<<u1, 1>>, <<u1, 2>>, <<u2, 1>>}
===========================================================================
