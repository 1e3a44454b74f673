--------------------------- MODULE MCCommandLine ---------------------------
(* Instances of CommandLine for TLC: one letter per command, a password of *)
(* one letter.                                                             *)
EXTENDS CommandLine

MCLetters == {"l", "e", "s", "p"}
MCPassword == <<"p">>
Typed == {<<c>> : c \in MCLetters}

(* Clients that end their lines with LF or CRLF, type a letter after they  *)
(* have deleted, once or more often, and may negotiate options.            *)
PlainClient == Typed \cup {<<"LF">>, <<"CR", "LF">>, <<"s", "BS", "BS", "p">>, <<"VERB", "s">>}
EditingClient == Typed \cup {<<"LF">>, <<"BS">>}
=============================================================================
