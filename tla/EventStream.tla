---------------------------- MODULE EventStream -----------------------------
(***************************************************************************)
(* The events of one negotiation in a Redis list, and the streams that     *)
(* clients read them from: a stream replays the list, then asks it every   *)
(* half second for what follows the last event it has sent.                *)
(***************************************************************************)
EXTENDS Naturals, Sequences

CONSTANTS
    Viewers,        \* clients; each may connect again and again
    MaxKept,        \* MAX_EVENTS_PER_SESSION
    MaxPublished    \* bounds the events

ASSUME StreamAssumption == MaxKept \in Nat \ {0} /\ MaxPublished \in Nat

VARIABLES
    published,   \* how many events there have been; the n-th has the id n
    terminals,   \* those of publish_terminal
    kept,        \* sse:session: the ids in the list, in order
    untrimmed,   \* whether an RPUSH has no LTRIM after it yet
    viewerPc,    \* where the stream of each client is
    outgoing,    \* what it has read and not yet sent
    lastSent,    \* current_last_id of the stream, 0 for None
    shown        \* history: what the client has had of this connection

streamVars == <<published, terminals, kept, untrimmed, viewerPc, outgoing, lastSent, shown>>

StreamInit ==
    /\ published = 0 /\ terminals = {} /\ kept = <<>> /\ untrimmed = FALSE
    /\ viewerPc = [v \in Viewers |-> "away"]
    /\ outgoing = [v \in Viewers |-> <<>>]
    /\ lastSent = [v \in Viewers |-> 0]
    /\ shown = [v \in Viewers |-> <<>>]

ViewerGoes(v, step) == viewerPc' = [viewerPc EXCEPT ![v] = step]

\* get_events_since: everything, when there is no such id in the list any more.
InList(id) == \E i \in DOMAIN kept : kept[i] = id
Place(id) == CHOOSE i \in DOMAIN kept : kept[i] = id
Since(last) == IF InList(last) THEN SubSeq(kept, Place(last) + 1, Len(kept)) ELSE kept

\* RPUSH.  Nothing after a terminal event keeps another request from publishing.
PublishEvent(terminal) ==
    /\ published < MaxPublished
    /\ published' = published + 1
    /\ terminals' = IF terminal THEN terminals \cup {published'} ELSE terminals
    /\ kept' = Append(kept, published')
    /\ untrimmed' = TRUE
    /\ UNCHANGED <<viewerPc, outgoing, lastSent, shown>>

\* LTRIM to the last MaxKept; a process that dies before it leaves that to the next.
TrimEvents ==
    /\ untrimmed
    /\ untrimmed' = FALSE
    /\ kept' = SubSeq(kept, IF Len(kept) > MaxKept THEN Len(kept) - MaxKept + 1 ELSE 1, Len(kept))
    /\ UNCHANGED <<published, terminals, viewerPc, outgoing, lastSent, shown>>

\* 25 hours without an event.
ExpireEvents ==
    /\ kept # <<>> /\ kept' = <<>> /\ untrimmed' = FALSE
    /\ UNCHANGED <<published, terminals, viewerPc, outgoing, lastSent, shown>>

\* The replay: what follows the id the client has sent, or 0.
ConnectViewer(v, last) ==
    /\ viewerPc[v] \in {"away", "closed"}
    /\ outgoing' = [outgoing EXCEPT ![v] = Since(last)]
    /\ lastSent' = [lastSent EXCEPT ![v] = last]
    /\ shown' = [shown EXCEPT ![v] = <<>>]
    /\ ViewerGoes(v, "replay")
    /\ UNCHANGED <<published, terminals, kept, untrimmed>>

SendsFirst(v) ==
    /\ outgoing[v] # <<>>
    /\ lastSent' = [lastSent EXCEPT ![v] = Head(outgoing[v])]
    /\ shown' = [shown EXCEPT ![v] = Append(@, Head(outgoing[v]))]

\* A terminal event that is replayed does not end the stream.
Replay(v) ==
    /\ viewerPc[v] = "replay"
    /\ \/ SendsFirst(v) /\ outgoing' = [outgoing EXCEPT ![v] = Tail(@)] /\ UNCHANGED viewerPc
       \/ outgoing[v] = <<>> /\ ViewerGoes(v, "poll") /\ UNCHANGED <<outgoing, lastSent, shown>>
    /\ UNCHANGED <<published, terminals, kept, untrimmed>>

PollFromStart(v) ==
    /\ viewerPc[v] = "poll" /\ outgoing[v] = <<>>
    /\ outgoing' = [outgoing EXCEPT ![v] = kept]
    /\ kept # <<>>
    /\ UNCHANGED <<published, terminals, kept, untrimmed, viewerPc, lastSent, shown>>

PollEvents(v) ==
    /\ viewerPc[v] = "poll" /\ outgoing[v] = <<>>
    /\ outgoing' = [outgoing EXCEPT ![v] = Since(lastSent[v])]
    /\ outgoing'[v] # <<>>
    /\ UNCHANGED <<published, terminals, kept, untrimmed, viewerPc, lastSent, shown>>

\* One that is polled does.
SendPolled(v) ==
    /\ viewerPc[v] = "poll"
    /\ SendsFirst(v)
    /\ IF Head(outgoing[v]) \in terminals
       THEN ViewerGoes(v, "closed") /\ outgoing' = [outgoing EXCEPT ![v] = <<>>]
       ELSE UNCHANGED viewerPc /\ outgoing' = [outgoing EXCEPT ![v] = Tail(@)]
    /\ UNCHANGED <<published, terminals, kept, untrimmed>>

Disconnect(v) ==
    /\ viewerPc[v] \in {"replay", "poll"}
    /\ ViewerGoes(v, "away")
    /\ outgoing' = [outgoing EXCEPT ![v] = <<>>]
    /\ UNCHANGED <<published, terminals, kept, untrimmed, lastSent, shown>>

StreamAdvances(v) == Replay(v) \/ PollEvents(v) \/ SendPolled(v)

\* The id a client connects with: none at first, and none again from the web
\* client, which puts it into a parameter the endpoint does not have; the last
\* it has had from one that sends the header.
StreamNext ==
    \/ \E terminal \in BOOLEAN : PublishEvent(terminal)
    \/ TrimEvents \/ ExpireEvents
    \/ \E v \in Viewers : (\E last \in {0, lastSent[v]} : ConnectViewer(v, last))
                             \/ StreamAdvances(v) \/ Disconnect(v)

StreamSpec == StreamInit /\ [][StreamNext]_streamVars

-----------------------------------------------------------------------------

\* Within one connection the events come in the order they were published, and
\* none comes twice, although a poll whose last event has been trimmed away is
\* answered with the whole list; and none is left out but what was trimmed or
\* expired before it was sent (sse_publisher.py:38-51, router.py:346-366).
ShownInOrder ==
    \A v \in Viewers : \A i \in DOMAIN shown[v] : i > 1 =>
       /\ shown[v][i - 1] < shown[v][i]
       /\ \A id \in shown[v][i - 1] + 1..shown[v][i] - 1 : ~InList(id)
=============================================================================
