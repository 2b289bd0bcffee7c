------------------------------ MODULE MCStartup ------------------------------
(***************************************************************************)
(* Small instances of Startup for TLC.                                     *)
(***************************************************************************)
EXTENDS Startup, TLC

\* Ports at the boundaries: the empty word, root's, the last one setFlags() keeps for root, a
\* plain one, 0 and 80 behind the width of a port, a negative int, 80 behind
\* the width of an int, and a number strtol() clamps.  The width of an int is
\* 2^20 here, since TLC's own integers have 32 bits.
Numbers ==
    "" :> 0 @@ "80" :> 80 @@ "1024" :> 1024 @@ "8081" :> 8081
    @@ "65536" :> 65536 @@ "65616" :> 65616 @@ "negative" :> 600000
    @@ "wrapped" :> 1048656 @@ "huge" :> 1073741824

\* There is a directory that is called "-v".
Dirs == {"./cgi-bin", "-v"}
DashedWords == Options \cup {"-x"}
AllWords ==
    DashedWords \cup DOMAIN Numbers \cup Dirs
    \cup {"1.2.3.4", "0.0.0.0", "::1", "a.log", "b.log", "nowhere/log"}

\* Options with their arguments, or a stray word.
Pieces ==
    {<<"a.log">>, <<"-v">>, <<"-c", "./cgi-bin">>, <<"-c", "-v">>,
     <<"-l", "a.log">>, <<"-l", "b.log">>, <<"-bind4", "1.2.3.4">>,
     <<"-bind4", "0.0.0.0">>, <<"-bind6", "::1">>}
    \cup {<<"-p", w>> : w \in DOMAIN Numbers}

\* Options that are unknown, or without an argument, or with a wrong one.
BadPieces ==
    {<<"-x">>, <<"-l">>, <<"-p">>, <<"-c">>, <<"-bind4">>, <<"-bind6">>,
     <<"-c", "a.log">>, <<"-l", "nowhere/log">>, <<"-l", "-v">>,
     <<"-bind4", "::1">>, <<"-bind6", "-v">>, <<"-p", "a.log">>}

\* Up to three pieces in any order, the last of which may be a bad one.
ManyLines ==
    {<<>>} \cup Pieces \cup BadPieces
    \cup {p \o q : p \in Pieces, q \in Pieces \cup BadPieces}
    \cup {p \o q \o r : p \in Pieces, q \in Pieces, r \in Pieces \cup BadPieces}

FewLines == {<<>>} \cup Pieces

=============================================================================
