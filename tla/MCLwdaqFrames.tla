--------------------------- MODULE MCLwdaqFrames ---------------------------
(* An instance of LwdaqFrames for TLC: one message of each kind that is    *)
(* treated differently, and each way in which a stream can be wrong.       *)
EXTENDS LwdaqFrames

Frame(id, content) == <<Start, HeadOf(id, Len(content))>> \o content \o <<End>>

RightFrames == {Frame("BYTE_POLL", <<Data>>), Frame("STREAM_WRITE", <<>>), Frame("LOGIN", <<Password>>),
                Frame("LOGIN", <<Data>>), Frame("REBOOT", <<>>)}
WrongFrames == {<<CloseCode>>, Frame("CONFIG_WRITE", <<Data>>),
                <<Start, HeadOf("ECHO", 0), Junk>>, Frame("ECHO", <<Data, Data, Data, Data>>)}
MCUnhandled == {"STREAM_DELETE"}
MCLevels == {1, 2}
MCFrames == RightFrames \cup WrongFrames
=============================================================================
