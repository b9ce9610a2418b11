-------------------------------- MODULE Album ---------------------------------
(***************************************************************************)
(* MediaGroupMiddleware: the messages of an album arrive one by one, each  *)
(* in a task of its own.  The first one opens a buffer, sleeps, and hands  *)
(* the buffer to the handler; the others put themselves into the buffer.   *)
(* How long the messages are apart is not bounded by the latency.          *)
(***************************************************************************)
EXTENDS Naturals, Sequences, FiniteSets

CONSTANTS
    Albums,      \* media_group_id's
    Messages,    \* the messages that arrive
    AlbumOf,     \* the album of each
    MaxItems     \* max_items

ASSUME AlbumAssumption ==
    AlbumOf \in [Messages -> Albums] /\ MaxItems \in Nat \ {0}

VARIABLES
    arrived,     \* the messages that have arrived
    buffer,      \* _albums; <<>> where there is no key
    call,        \* what the task that opened the buffer is doing
    handed,      \* per album, the lists its handlers have read
    inTime       \* history: what came before the current call's sleep was over

albumVars == <<arrived, buffer, call, handed, inTime>>

Of(g) == {m \in arrived : AlbumOf[m] = g}
Elements(s) == {s[i] : i \in DOMAIN s}
Handed(g) == UNION {Elements(handed[g][i]) : i \in DOMAIN handed[g]}

AlbumInit ==
    /\ arrived = {}
    /\ buffer = [g \in Albums |-> <<>>]
    /\ call = [g \in Albums |-> "none"]
    /\ handed = [g \in Albums |-> <<>>]
    /\ inTime = [g \in Albums |-> <<>>]

----------------------------------------------------------------------------

Put(bucket, m) == IF Len(bucket) < MaxItems THEN Append(bucket, m) ELSE bucket

First(m) ==
    LET g == AlbumOf[m]
    IN  /\ m \notin arrived
        /\ buffer[g] = <<>>
        /\ arrived' = arrived \cup {m}
        /\ buffer' = [buffer EXCEPT ![g] = <<m>>]
        /\ inTime' = [inTime EXCEPT ![g] = <<m>>]
        /\ call' = [call EXCEPT ![g] = "sleep"]
        /\ UNCHANGED handed

\* Swallowed, whatever the call is doing and however full the buffer is.
Later(m) ==
    LET g == AlbumOf[m]
    IN  /\ m \notin arrived
        /\ buffer[g] # <<>>
        /\ arrived' = arrived \cup {m}
        /\ buffer' = [buffer EXCEPT ![g] = Put(@, m)]
        /\ inTime' = IF call[g] = "sleep" THEN [inTime EXCEPT ![g] = Append(@, m)] ELSE inTime
        /\ UNCHANGED <<call, handed>>

Wake(g) ==
    /\ call[g] = "sleep"
    /\ call' = [call EXCEPT ![g] = "handler"]
    /\ UNCHANGED <<arrived, buffer, handed, inTime>>

\* Mutant: the list is made before the sleep.
List_Early(g) == SubSeq(buffer[g], 1, 1)

\* The handler has the list itself, no copy.
List(g) == buffer[g]

\* The handler goes through the list, after it awaited the form's data.
ReadList(g) ==
    /\ call[g] = "handler"
    /\ handed' = [handed EXCEPT ![g] = Append(@, List(g))]
    /\ call' = [call EXCEPT ![g] = "read"]
    /\ UNCHANGED <<arrived, buffer, inTime>>

\* The handler returns, or raises at any point; the buffer is dropped.
Return(g) ==
    /\ call[g] \in {"handler", "read"}
    /\ call' = [call EXCEPT ![g] = "none"]
    /\ buffer' = [buffer EXCEPT ![g] = <<>>]
    /\ UNCHANGED <<arrived, handed, inTime>>

AlbumNext ==
    \/ \E m \in Messages : First(m) \/ Later(m)
    \/ \E g \in Albums : Wake(g) \/ ReadList(g) \/ Return(g)

\* Sleeps and handlers end; messages need not arrive.
AlbumSpec ==
    /\ AlbumInit /\ [][AlbumNext]_albumVars
    /\ \A g \in Albums : WF_albumVars(Wake(g)) /\ WF_albumVars(ReadList(g) \/ Return(g))

----------------------------------------------------------------------------
(* Properties                                                              *)

AlbumTypeOK ==
    /\ arrived \subseteq Messages
    /\ buffer \in [Albums -> Seq(Messages)] /\ inTime \in [Albums -> Seq(Messages)]
    /\ handed \in [Albums -> Seq(Seq(Messages))]
    /\ call \in [Albums -> {"none", "sleep", "handler", "read"}]

\* The list begins with what came in time, up to max_items.
HasAll(list, g) ==
    \A k \in DOMAIN inTime[g] :
        k <= MaxItems => k \in DOMAIN list /\ list[k] = inTime[g][k]

\* The handler gets, in the order of their arrival, all the messages that came
\* before the latency was over, up to max_items; and the buffer is there as long
\* as the call, no longer: an album whose handler raised swallows nothing
\* (__call__).
AlbumHandedOver ==
    \A g \in Albums :
        /\ (buffer[g] = <<>>) = (call[g] = "none")
        /\ call[g] = "read" =>
             LET list == handed[g][Len(handed[g])]
             IN  HasAll(list, g) /\ Len(list) <= MaxItems

\* No message is handed over twice, in one list or in two: a late file is
\* attached once or not at all.
NoneTwice ==
    \A g \in Albums :
        \A i, j \in DOMAIN handed[g] :
            \A k \in DOMAIN handed[g][i], l \in DOMAIN handed[g][j] :
                handed[g][i][k] = handed[g][j][l] => i = j /\ k = l

\* Every buffer is handed over or dropped, so that the album's next message is
\* not swallowed.
BuffersGo == \A g \in Albums : buffer[g] # <<>> ~> buffer[g] = <<>>

\* "invokes the handler ONCE for the first message with the full list" (the
\* module's docstring).  Refuted: a message that arrives while the handler
\* works is swallowed by a list that was read before, and one that arrives
\* after it starts a second call.
OnceWithTheFullList ==
    \A g \in Albums :
        /\ Len(handed[g]) <= 1
        /\ handed[g] # <<>> /\ call[g] = "none" => Handed(g) = Of(g)

=============================================================================
