----------------------------- MODULE MCVoicePath -----------------------------
(* Small instances of VoicePath for TLC. *)
EXTENDS VoicePath

Answer(encrypted, created, max) ==
    [channelMatches |-> TRUE, mode |-> "voice", version |-> 1, encrypted |-> encrypted,
     created |-> created, maxPayload |-> max, expires |-> 1, membersMatch |-> TRUE,
     key |-> IF encrypted /\ created THEN "good" ELSE "absent"]

\* Answers in both modes, with limits around the ceilings 1142 and 1158, and
\* answers with one defect.
JoinAnswers ==
    LET new == Answer(TRUE, TRUE, 1142)
    IN  {Answer(e, c, x) : e \in BOOLEAN, c \in BOOLEAN, x \in {1142, 1158}}
        \cup {Answer(e, TRUE, x) : e \in BOOLEAN, x \in {0, 1143, 1159}}
        \cup {[new EXCEPT !.channelMatches = FALSE], [new EXCEPT !.mode = "text"],
              [new EXCEPT !.version = 2], [new EXCEPT !.expires = 0],
              [new EXCEPT !.membersMatch = FALSE], [new EXCEPT !.key = "bad"],
              [new EXCEPT !.key = "absent"],
              [Answer(TRUE, FALSE, 1142) EXCEPT !.key = "good"],
              [Answer(FALSE, TRUE, 1142) EXCEPT !.key = "good"]}

GoodMetadata == [version |-> 1, host |-> "concrete", port |-> 1, codecs |-> {"opus"},
                 labels |-> {"ok"}, streams |-> <<1, 2>>]
ServerMetadata ==
    {GoodMetadata, [GoodMetadata EXCEPT !.version = 2],
     [GoodMetadata EXCEPT !.host = "wildcard"], [GoodMetadata EXCEPT !.host = "malformed"],
     [GoodMetadata EXCEPT !.port = 0], [GoodMetadata EXCEPT !.codecs = {}],
     [GoodMetadata EXCEPT !.labels = {"invalid"}], [GoodMetadata EXCEPT !.streams = <<>>],
     [GoodMetadata EXCEPT !.streams = <<0, 1>>], [GoodMetadata EXCEPT !.streams = <<1, 1>>]}
==============================================================================
