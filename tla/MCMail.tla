------------------------------- MODULE MCMail -------------------------------
(* The mail system with two players and letters of one, two and three blocks. *)
EXTENDS Mail

MCPersons   == {"ann", "bob"}
MCLetters   == {"note", "letter", "story"}
MCTo        == [l \in MCLetters |-> IF l = "story" THEN "bob" ELSE "ann"]
MCParts     == [l \in MCLetters |-> CASE l = "note" -> 1 [] l = "letter" -> 2 [] l = "story" -> 3]
=============================================================================
