------------------------------- MODULE SseHub -------------------------------
(***************************************************************************)
(* The hub of server-sent events and the browsers it serves                *)
(* (apps/server/internal/platform/sse/sse.go).  A stream begins with an    *)
(* initial state, sent BEFORE the stream is registered; then the events    *)
(* published go through a buffer of its own.  A subscriber whose buffer is *)
(* full is dropped: its channel is closed, the browser reads what is left  *)
(* in it and EventSource connects again.                                   *)
(*                                                                         *)
(* What a browser shows is left out, and so is what it fetches when it is  *)
(* told of a state: its page only opens, reads, connects again and closes  *)
(* (apps/web/src/app/ed2k/page.tsx).                                       *)
(***************************************************************************)
EXTENDS Naturals, Sequences

CONSTANTS
    Browsers,
    Events,      \* what is published
    States,      \* the events that announce a state
    Unknown,     \* no announcement
    Buffer       \* frames a subscriber may be late by

ASSUME HubAssumption ==
    States \subseteq Events /\ Unknown \notin Events /\ Buffer \in Nat \ {0}

VARIABLES
    stream,      \* where each browser's stream is
    frames,      \* its buffer
    \* History, read by the properties only.
    heard        \* the last announcement received on the stream

hubVars == <<stream, frames, heard>>

\* away: no page; retry: EventSource will connect; greeted: the initial state
\* is sent; open: registered in the hub; dropped: closed by the hub.
Stream == {"away", "retry", "greeted", "open", "dropped"}

HubTypeOK ==
    /\ stream \in [Browsers -> Stream]
    /\ frames \in [Browsers -> Seq(Events)]
    /\ \A b \in Browsers : Len(frames[b]) <= Buffer
    /\ heard \in [Browsers -> States \cup {Unknown}]

HubInit ==
    /\ stream = [b \in Browsers |-> "away"]
    /\ frames = [b \in Browsers |-> <<>>]
    /\ heard = [b \in Browsers |-> Unknown]

Subscribers == {b \in Browsers : stream[b] = "open"}

\* Mutant: a subscriber that is late misses the event and keeps its stream.
LateMisses(b) == FALSE
\* A subscriber is late when its buffer is full.
Late(b) == Len(frames[b]) >= Buffer
\* Mutant: one frame too many.
TakesOneMore(b) == Len(frames[b]) <= Buffer
\* A frame that does not fit is not written.
Takes(b) == Len(frames[b]) < Buffer

\* Publish: a subscriber that is late is dropped.
Publish(event) ==
    /\ stream' = [b \in Browsers |-> IF b \in Subscribers /\ Late(b)
                                     THEN "dropped" ELSE stream[b]]
    /\ frames' = [b \in Browsers |-> IF b \in Subscribers /\ Takes(b)
                                     THEN Append(frames[b], event) ELSE frames[b]]
    /\ UNCHANGED heard

-----------------------------------------------------------------------------
\* The page is opened.
Open(b) ==
    /\ stream[b] = "away"
    /\ stream' = [stream EXCEPT ![b] = "retry"]
    /\ UNCHANGED <<frames, heard>>

\* Serve, first half: the handler evaluates the state and writes it.
Greet(b) ==
    /\ stream[b] = "retry"
    /\ stream' = [stream EXCEPT ![b] = "greeted"]
    /\ UNCHANGED <<frames, heard>>

\* Serve, second half: the stream is registered.
Subscribe(b) ==
    /\ stream[b] = "greeted"
    /\ stream' = [stream EXCEPT ![b] = "open"]
    /\ heard' = [heard EXCEPT ![b] = Unknown]
    /\ UNCHANGED frames

\* A frame reaches the page; the frames of a closed channel can be read.
Deliver(b) ==
    /\ stream[b] \in {"open", "dropped"}
    /\ frames[b] # <<>>
    /\ frames' = [frames EXCEPT ![b] = Tail(@)]
    /\ heard' = IF Head(frames[b]) \in States
                THEN [heard EXCEPT ![b] = Head(frames[b])] ELSE heard
    /\ UNCHANGED stream

\* The channel is closed and empty: Serve returns, the browser retries.
Reconnect(b) ==
    /\ stream[b] = "dropped"
    /\ frames[b] = <<>>
    /\ stream' = [stream EXCEPT ![b] = "retry"]
    /\ UNCHANGED <<frames, heard>>

\* The page is closed, and its stream with it.
Leave(b) ==
    /\ stream[b] # "away"
    /\ stream' = [stream EXCEPT ![b] = "away"]
    /\ frames' = [frames EXCEPT ![b] = <<>>]
    /\ UNCHANGED heard

\* The server stops: every stream ends, every page retries.
CutAll ==
    /\ stream' = [b \in Browsers |-> IF stream[b] = "away" THEN "away" ELSE "retry"]
    /\ frames' = [b \in Browsers |-> <<>>]
    /\ UNCHANGED heard
=============================================================================
