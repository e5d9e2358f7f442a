--------------------------- MODULE DiscordMessages ---------------------------
(***************************************************************************)
(* Messages between the role processes over Discord: a content is cut into *)
(* numbered parts, posted one by one under a lock that all processes       *)
(* share, each with retries, over the listener's connection or a temporary *)
(* one, and put together again by the process that listens.                *)
(***************************************************************************)
EXTENDS Naturals, Sequences, Functions

CONSTANTS
    Messages,     \* the contents to send
    Processes,    \* the role processes
    Author,       \* the process that sends each
    Length,       \* its length in characters, without a line break
    Fallback,     \* the message sent when a message fails, or NoMessage
    Swallowing,   \* messages whose failed parts are skipped
    NoMessage,
    Limit,        \* 2000, the longest content Discord takes
    MaxAttempts,  \* SEND_MAX_ATTEMPTS
    MessageFaults, \* what may go wrong
    MaxFailures,  \* and how often
    MaxWire       \* bound on parts posted and not yet handled

ASSUME MessagesAssumption ==
    /\ Author \in [Messages -> Processes] /\ Length \in [Messages -> Nat]
    /\ Fallback \in [Messages -> Messages \cup {NoMessage}] /\ NoMessage \notin Messages
    /\ \A m, n \in Messages : Fallback[m] = Fallback[n] /\ Fallback[m] # NoMessage => m = n
    /\ Swallowing \subseteq Messages
    /\ {Limit, MaxAttempts, MaxFailures, MaxWire} \subseteq Nat \ {0} /\ Limit > 10
    /\ MessageFaults \subseteq
         {"refused", "unacked", "fatal", "unready", "disconnect", "crash", "reorder", "restart"}

VARIABLES
    holder,      \* the message whose send holds discord_send.lock, or NoMessage
    send,        \* how far each send is
    connection,  \* each process's listener
    wire,        \* parts posted and not yet handled by the listening process
    buffer,      \* its parts of an unfinished message, per author
    merged,      \* the messages it put together, as the messages of their parts
    broken,      \* history: the processes that skipped a part and went on with the
                 \* next, or parts of whom expired while others were to come
    failures     \* how often each kind of fault happened

messageVars == <<holder, send, connection, wire, buffer, merged, broken, failures>>

-----------------------------------------------------------------------------
\* How many parts a text of n characters between two marker lines of 34 makes:
\* the first line, full parts, and the rest with the last line, if they fit.
Parts(n, limit) ==
    IF n + 70 <= limit THEN 1
    ELSE LET rest == n % limit IN
         1 + (n \div limit) + (IF rest = 0 \/ rest + 35 <= limit THEN 1 ELSE 2)

Digits(n) == IF n < 10 THEN 1 ELSE IF n < 100 THEN 2 ELSE 3
MarkerWidth(i, n) == Digits(i) + Digits(n) + 4

\* The content is cut twice: the second time with room for the marker the
\* first count of parts needs.
BodyLimit(m) ==
    LET first == Parts(Length[m], Limit) IN
    IF first = 1 THEN Limit ELSE Limit - MarkerWidth(first, first)
Total == [m \in Messages |-> Parts(Length[m], BodyLimit(m))]
Oversized(m, i) ==
    /\ i \in 2..((Length[m] \div BodyLimit(m)) + 1)
    /\ Total[m] > 1 /\ BodyLimit(m) + MarkerWidth(i, Total[m]) > Limit

NoBuffer == [total |-> 0, parts |-> << >>]
Ended == {"done", "failed"}
Unsent == [step |-> "idle", part |-> 1, attempt |-> 1]
Steps == {"idle", "queued", "sending", "waiting", "posting", "stranded"} \cup Ended

MessagesTypeOK ==
    /\ holder \in Messages \cup {NoMessage}
    /\ send \in [Messages -> [step : Steps, part : Nat, attempt : 1..MaxAttempts]]
    /\ \A m \in Messages : send[m].part \in 1..Total[m]
    /\ connection \in [Processes -> {"off", "connecting", "ready"}]
    /\ wire \in Seq([of : Messages, part : Nat])
    /\ \A i \in DOMAIN wire : wire[i].part \in 1..Total[wire[i].of]
    /\ \A p \in Processes : DOMAIN buffer[p].parts \subseteq 1..buffer[p].total
    /\ \A s \in merged : \A i \in DOMAIN s : s[i] \in Messages
    /\ broken \subseteq Processes
    /\ failures \in [MessageFaults -> Nat]

Mishap(kind) ==
    /\ kind \in MessageFaults /\ FoldFunction(+, 0, failures) < MaxFailures
    /\ failures' = [failures EXCEPT ![kind] = @ + 1]
Never(kinds) == \A kind \in kinds \cap MessageFaults : failures[kind] = 0

-----------------------------------------------------------------------------
\* A send waits for the lock, and for each part makes up to MaxAttempts
\* attempts.  A failed message passes its content on to its fallback.
Due(m) ==
    \/ send[m].step = "queued"
    \/ send[m].step = "idle" /\ \A q \in Messages : Fallback[q] # m

Lock_Unshared(m) ==
    /\ Due(m)
    /\ holder' = m
    /\ send' = [send EXCEPT ![m].step = "sending"]
    /\ UNCHANGED <<connection, wire, buffer, merged, broken, failures>>

Lock(m) ==
    /\ Due(m) /\ holder = NoMessage
    /\ holder' = m
    /\ send' = [send EXCEPT ![m].step = "sending"]
    /\ UNCHANGED <<connection, wire, buffer, merged, broken, failures>>

Failed(m) ==
    LET f == Fallback[m]
        ended == [send EXCEPT ![m].step = "failed"]
    IN IF f = NoMessage THEN ended ELSE [ended EXCEPT ![f].step = "queued"]

Advanced(m) ==
    IF send[m].part = Total[m]
    THEN [send EXCEPT ![m].step = "done"]
    ELSE [send EXCEPT ![m] = [step |-> "sending", part |-> @.part + 1, attempt |-> 1]]

Release(m, after) ==
    /\ send' = after
    /\ holder' = IF after[m].step \in Ended THEN NoMessage ELSE holder

Skips(m) ==
    broken' = IF m \in Swallowing /\ Total[m] > 1 THEN broken \cup {Author[m]} ELSE broken

GiveUpPart_Locked(m) ==
    /\ send' = IF m \in Swallowing THEN Advanced(m) ELSE Failed(m)
    /\ Skips(m) /\ UNCHANGED holder

\* The part is given up: it is skipped, or the whole message fails.
GiveUpPart(m) == Release(m, IF m \in Swallowing THEN Advanced(m) ELSE Failed(m)) /\ Skips(m)

\* While the listener is connecting, a send waits for that attempt's ready
\* event; without a listener it logs in for itself.
Attempt(m) ==
    /\ send[m].step = "sending"
    /\ IF Oversized(m, send[m].part)
       THEN GiveUpPart(m)
       ELSE /\ send' = [send EXCEPT ![m].step =
                IF connection[Author[m]] = "connecting" THEN "waiting" ELSE "posting"]
            /\ UNCHANGED <<holder, broken>>
    /\ UNCHANGED <<connection, wire, buffer, merged, failures>>

Part(m) == [of |-> m, part |-> send[m].part]

Posted(m) ==
    /\ send[m].step = "posting" /\ Len(wire) < MaxWire
    /\ wire' = Append(wire, Part(m))
    /\ Release(m, Advanced(m))
    /\ UNCHANGED <<connection, buffer, merged, broken, failures>>

Retried(m) ==
    IF send[m].attempt < MaxAttempts
    THEN /\ send' = [send EXCEPT ![m].step = "sending", ![m].attempt = @ + 1]
         /\ UNCHANGED <<holder, broken>>
    ELSE GiveUpPart(m)

\* A timeout or a server error is tried again, whether or not the part was
\* taken; anything else is not.
AttemptFails(m) ==
    /\ send[m].step = "posting" /\ Len(wire) < MaxWire
    /\ \/ Mishap("refused") /\ Retried(m) /\ UNCHANGED wire
       \/ Mishap("unacked") /\ Retried(m) /\ wire' = Append(wire, Part(m))
       \/ Mishap("fatal") /\ GiveUpPart(m) /\ UNCHANGED wire
    /\ UNCHANGED <<connection, buffer, merged>>

-----------------------------------------------------------------------------
\* The listener of a process.
Waiting(p) == {m \in Messages : Author[m] = p /\ send[m].step = "waiting"}
Resumed(p, step) ==
    [m \in Messages |-> IF m \in Waiting(p) THEN [send[m] EXCEPT !.step = step] ELSE send[m]]

Connect(p) ==
    /\ connection[p] = "off"
    /\ connection' = [connection EXCEPT ![p] = "connecting"]
    /\ UNCHANGED <<holder, send, wire, buffer, merged, broken, failures>>

Connected(p) ==
    /\ connection[p] = "connecting"
    /\ connection' = [connection EXCEPT ![p] = "ready"]
    /\ send' = Resumed(p, "posting")
    /\ UNCHANGED <<holder, wire, buffer, merged, broken, failures>>

\* The attempt fails before it is ready: the listener is closed and tries
\* again with another event, and nobody sets the one a send waits for.
ConnectFails(p) ==
    /\ connection[p] = "connecting"
    /\ Mishap("unready")
    /\ connection' = [connection EXCEPT ![p] = "off"]
    /\ send' = Resumed(p, "stranded")
    /\ UNCHANGED <<holder, wire, buffer, merged, broken>>

Disconnected(p) ==
    /\ connection[p] = "ready"
    /\ Mishap("disconnect")
    /\ connection' = [connection EXCEPT ![p] = "off"]
    /\ UNCHANGED <<holder, send, wire, buffer, merged, broken>>

\* A process stops: the system frees its lock, its sends are gone.
Crash(p) ==
    /\ Mishap("crash")
    /\ send' = [m \in Messages |->
            IF Author[m] = p /\ send[m].step \notin Ended \cup {"idle"}
            THEN [send[m] EXCEPT !.step = "failed"] ELSE send[m]]
    /\ holder' = IF holder # NoMessage /\ Author[holder] = p THEN NoMessage ELSE holder
    /\ connection' = [connection EXCEPT ![p] = "off"]
    /\ UNCHANGED <<wire, buffer, merged, broken>>

-----------------------------------------------------------------------------
\* The listening process keeps the parts of one message per author, and begins
\* anew when the number of parts differs.
Added_Kept(b, m, i) ==
    [total |-> Total[m], parts |-> [k \in DOMAIN b.parts \cup {i} |-> IF k = i THEN m ELSE b.parts[k]]]

Added_Trimmed(b, m, i) ==
    [total |-> Total[m], parts |-> [k \in (DOMAIN b.parts \cap 1..Total[m]) \cup {i} |->
        IF k = i THEN m ELSE b.parts[k]]]

Added(b, m, i) ==
    LET known == IF b.total = Total[m] THEN b.parts ELSE << >> IN
    [total |-> Total[m], parts |-> [k \in DOMAIN known \cup {i} |-> IF k = i THEN m ELSE known[k]]]

Handled(m, i) ==
    LET b == Added(buffer[Author[m]], m, i) IN
    IF Total[m] = 1
    THEN merged' = merged \cup {<<m>>} /\ UNCHANGED buffer
    ELSE IF DOMAIN b.parts = 1..b.total
    THEN merged' = merged \cup {b.parts} /\ buffer' = [buffer EXCEPT ![Author[m]] = NoBuffer]
    ELSE buffer' = [buffer EXCEPT ![Author[m]] = b] /\ UNCHANGED merged

\* Each part is handled by a task of its own that first fetches the message
\* again, so a later part may overtake an earlier one.
Handle(i) ==
    /\ i \in DOMAIN wire
    /\ IF i = 1 THEN UNCHANGED failures ELSE Mishap("reorder")
    /\ Handled(wire[i].of, wire[i].part)
    /\ wire' = SubSeq(wire, 1, i - 1) \o SubSeq(wire, i + 1, Len(wire))
    /\ UNCHANGED <<holder, send, connection, broken>>

\* More parts of the buffered message may come.
Unfinished(p) ==
    \E k \in DOMAIN buffer[p].parts :
        LET m == buffer[p].parts[k] IN
        send[m].step \notin Ended \/ \E i \in DOMAIN wire : wire[i].of = m

\* Parts older than a minute are dropped, whether or not their message is still
\* being sent.
Expire(p) ==
    /\ buffer[p] # NoBuffer
    /\ buffer' = [buffer EXCEPT ![p] = NoBuffer]
    /\ broken' = IF Unfinished(p) THEN broken \cup {p} ELSE broken
    /\ UNCHANGED <<holder, send, connection, wire, merged, failures>>

Restart ==
    /\ Mishap("restart")
    /\ wire' = << >>
    /\ buffer' = [p \in Processes |-> NoBuffer]
    /\ UNCHANGED <<holder, send, connection, merged, broken>>

-----------------------------------------------------------------------------
MessagesInit ==
    /\ holder = NoMessage
    /\ send = [m \in Messages |-> Unsent]
    /\ connection = [p \in Processes |-> "off"]
    /\ wire = << >>
    /\ buffer = [p \in Processes |-> NoBuffer]
    /\ merged = {} /\ broken = {}
    /\ failures = [kind \in MessageFaults |-> 0]

Sending(m) == Lock(m) \/ Attempt(m) \/ Posted(m)

MessagesNext ==
    \/ \E m \in Messages : Sending(m) \/ AttemptFails(m)
    \/ \E p \in Processes :
         \/ Connect(p) \/ Connected(p) \/ ConnectFails(p) \/ Disconnected(p)
         \/ Crash(p) \/ Expire(p)
    \/ \E i \in DOMAIN wire : Handle(i)
    \/ Restart

\* Sends and handlers run on; a listener reconnects for as long as it must,
\* and faults being bounded it gets through.
MessagesSpec ==
    /\ MessagesInit /\ [][MessagesNext]_messageVars
    /\ WF_messageVars(\E m \in Messages : Sending(m))
    /\ WF_messageVars(\E p \in Processes : Connect(p) \/ Connected(p))
    /\ WF_messageVars(Handle(1))

-----------------------------------------------------------------------------
\* What the listener puts together is one message, whole: no part of another
\* message of the same author gets into it, whatever was broken off before,
\* as long as parts come once and in order, the author skipped none and none
\* expired while others were to come (client.py _process_incoming_chunk).
MergedIsSent ==
    Never({"unacked", "reorder", "restart"}) =>
        \A s \in merged : \/ \E m \in Messages : s = [i \in 1..Total[m] |-> m]
                          \/ \E i \in DOMAIN s : Author[s[i]] \in broken

\* A message that was sent without an error arrives, whatever else its author
\* broke off before it, unless it skipped a part or parts expired too early
\* (client.py _process_incoming_chunk).
SentIsMerged ==
    Never({"unacked", "reorder", "restart"}) =>
        \A m \in Messages \ Swallowing :
            send[m].step = "done" /\ (\A k \in DOMAIN wire : wire[k].of # m)
                => [i \in 1..Total[m] |-> m] \in merged \/ Author[m] \in broken

\* The listener's messages are the senders'.
MergesAreMessages == MessagesTypeOK /\ MergedIsSent /\ SentIsMerged

\* Every send ends, and so never keeps the lock from the sends of the other
\* processes, unless a connection attempt it waits for fails, which strands it
\* until its process is restarted (client.py _execute_send).
EverySendEnds ==
    []<>(\/ ~Never({"unready"})
         \/ \A m \in Messages : send[m].step \in Ended \cup {"idle"})

=============================================================================
