-------------------------- MODULE MCDiscordMessages --------------------------
\* One process with messages of two, two and three parts, of which the last falls back
\* to the second, that skips parts, and another process with a message of one part.
EXTENDS DiscordMessages

CONSTANTS two, three, short, other, p1, q1

MCAuthor == [m \in Messages |-> IF m = other THEN q1 ELSE p1]
MCLength == [m \in Messages |-> CASE m \in {two, short} -> 1940 [] m = three -> 3000 [] OTHER -> 500]
MCFallback == [m \in Messages |-> IF m = three THEN short ELSE NoMessage]
=============================================================================
