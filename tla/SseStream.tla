----------------------------- MODULE SseStream -----------------------------
(***************************************************************************)
(* The SSE transports of packages/ap-realtime/src: the server writes each  *)
(* frame as one `data:` event, the network hands the bytes to the client   *)
(* in pieces of any size, and #pump() finds the events in what it has      *)
(* collected.  A client that lost its connection, or closed it, connects   *)
(* again: a new response, a new peer and a new #pump().                    *)
(*                                                                         *)
(* Text is a sequence of tokens: the two halves of the comment ":ok" and   *)
(* of a `data:` line, which a read may cut apart, and the newline; each    *)
(* with the number of the frame it belongs to, or 0.  The chunks of a read *)
(* are handled one by one: a listener may close() in between.              *)
(***************************************************************************)
EXTENDS Naturals, Sequences, SequencesExt

CONSTANTS
    MaxConns,   \* bound: connections, one after the other
    MaxFrames   \* bound: frames the server sends

ASSUME SseAssumption == MaxConns \in Nat /\ MaxFrames \in Nat

VARIABLES
    peers,   \* connections the server has a peer for: #peers
    link,    \* link[n]: "none", "open", "ended" by the server, "lost" or "aborted"
    wire,    \* wire[n]: text on its way to the client
    pump,    \* pump[n]: #pump() of connection n: "off", "reading", "done", or
             \* "thrown" when a message listener ended it
    buffer,  \* buffer[n]: its buffer
    sent,    \* sent[n]: frames the server has written to n (history)
    got,     \* got[n]: frames handed to the message listeners (history)
    frameCount   \* number of frames sent

serverVars == <<peers, sent, frameCount>>
pumpVars == <<pump, buffer, got>>
sseVars == <<serverVars, link, wire, pumpVars>>

Conns == 1..MaxConns

Newline == <<"nl", 0>>
Comment == << <<"colon", 0>>, <<"ok", 0>> >>
Line(f) == << <<"data", f>>, <<"rest", f>> >>
Event(line) == line \o <<Newline, Newline>>

XInit ==
    /\ peers = {} /\ frameCount = 0
    /\ link = [n \in Conns |-> "none"]
    /\ wire = [n \in Conns |-> <<>>]
    /\ pump = [n \in Conns |-> "off"]
    /\ buffer = [n \in Conns |-> <<>>]
    /\ sent = [n \in Conns |-> <<>>]
    /\ got = [n \in Conns |-> <<>>]

-----------------------------------------------------------------------------
\* connect() of the client, and handleRequest() of the server, which answers
\* with a comment first.
Connect(n) ==
    /\ link[n] = "none"
    /\ \A m \in Conns : m < n => pump[m] \in {"done", "thrown"} \/ link[m] = "aborted"
    /\ link' = [link EXCEPT ![n] = "open"]
    /\ peers' = peers \cup {n}
    /\ wire' = [wire EXCEPT ![n] = Event(Comment)]
    /\ pump' = [pump EXCEPT ![n] = "reading"]
    /\ UNCHANGED <<buffer, sent, got, frameCount>>

\* The text of frame f is written to the peers in `to`: send() writes nothing
\* to a response that has ended.
Written(to, f) ==
    LET live == {n \in to : link[n] # "ended"}
    IN  /\ wire' = [n \in Conns |-> IF n \in live /\ link[n] = "open"
                                    THEN wire[n] \o Event(Line(f)) ELSE wire[n]]
        /\ sent' = [n \in Conns |-> IF n \in live THEN Append(sent[n], f) ELSE sent[n]]

\* sendTo(peerId, frame), broadcast(frame, { except })
Send ==
    /\ frameCount < MaxFrames
    /\ frameCount' = frameCount + 1
    /\ \/ \E n \in peers : Written({n}, frameCount + 1)
       \/ \E n \in {0} \cup Conns : Written(peers \ {n}, frameCount + 1)
    /\ UNCHANGED <<peers, link, pumpVars>>

\* SsePeerConnection.close(): what is written still arrives, then the end.
EndResponse(n) ==
    /\ n \in peers /\ link[n] = "open"
    /\ link' = [link EXCEPT ![n] = "ended"]
    /\ UNCHANGED <<serverVars, wire, pumpVars>>

\* The response is closed at the server: its 'close' event removes the peer.
PeerGone(n) ==
    /\ n \in peers /\ link[n] # "open"
    /\ peers' = peers \ {n}
    /\ UNCHANGED <<sent, frameCount, link, wire, pumpVars>>

\* The connection drops, or the client calls close(), which aborts the fetch:
\* what is on its way is gone.
Lose(n, how) ==
    /\ link[n] \in {"open", "ended"} /\ pump[n] = "reading"
    /\ link' = [link EXCEPT ![n] = how]
    /\ wire' = [wire EXCEPT ![n] = <<>>]
    /\ UNCHANGED <<serverVars, pumpVars>>

-----------------------------------------------------------------------------
\* indexOf('\n\n') finds the first of these.
Boundaries(text) == {k \in 1 .. Len(text) - 1 : text[k] = Newline /\ text[k + 1] = Newline}

\* Mutant of Drained: #pump() does not look for more boundaries.
DrainedNever(n) == TRUE

\* #pump() reads again when there is no boundary left in its text.
Drained(n) == Boundaries(buffer[n]) = {}

\* Mutant of Collected: the text is that of this read alone.
CollectedNow(n, value) == value

\* buffer += decoder.decode(value)
Collected(n, value) == buffer[n] \o value

\* One read() of #pump(): some of the text.
ReadPiece(n) ==
    /\ pump[n] = "reading" /\ link[n] \in {"open", "ended"} /\ Drained(n)
    /\ \E k \in 1..Len(wire[n]) :
         /\ buffer' = [buffer EXCEPT ![n] = Collected(n, SubSeq(wire[n], 1, k))]
         /\ wire' = [wire EXCEPT ![n] = SubSeq(@, k + 1, Len(@))]
    /\ UNCHANGED <<serverVars, link, pump, got>>

\* The frame of a chunk that is a whole `data:` line; of a comment, and of what
\* parseFrame() rejects, there is none.
Parsed(chunk) == {f \in 1..MaxFrames : chunk = Line(f)}

\* #handleChunk() of what is before the first boundary, which is cut off with it.
\* A listener that throws ends the loop.
HandleChunk(n) ==
    /\ pump[n] = "reading"
    /\ \E k \in Boundaries(buffer[n]) :
         /\ \A b \in Boundaries(buffer[n]) : k <= b
         /\ buffer' = [buffer EXCEPT ![n] = SubSeq(@, k + 2, Len(@))]
         /\ LET parsed == Parsed(SubSeq(buffer[n], 1, k - 1))
            IN  \/ parsed = {} /\ UNCHANGED <<got, pump>>
                \/ \E f \in parsed :
                     /\ got' = [got EXCEPT ![n] = Append(@, f)]
                     /\ \/ UNCHANGED pump
                        \/ pump' = [pump EXCEPT ![n] = "thrown"]
    /\ UNCHANGED <<serverVars, link, wire>>

\* read() says done, or rejects: the loop ends and the close listeners run.
ReadEnds(n) ==
    /\ pump[n] = "reading" /\ Drained(n)
    /\ \/ link[n] = "ended" /\ wire[n] = <<>>
       \/ link[n] \in {"lost", "aborted"}
    /\ pump' = [pump EXCEPT ![n] = "done"]
    /\ UNCHANGED <<serverVars, link, wire, buffer, got>>

XNext ==
    \/ Send
    \/ \E n \in Conns :
        \/ Connect(n) \/ EndResponse(n) \/ PeerGone(n)
        \/ ReadPiece(n) \/ HandleChunk(n) \/ ReadEnds(n)
        \/ Lose(n, "lost") \/ Lose(n, "aborted")

\* The client's event loop goes on: with the chunks it has, with a read that can
\* complete.
XFairness == \A n \in Conns :
    WF_sseVars(ReadPiece(n)) /\ WF_sseVars(HandleChunk(n)) /\ WF_sseVars(ReadEnds(n))

XSpec == XInit /\ [][XNext]_sseVars /\ XFairness

-----------------------------------------------------------------------------
Token == {"nl", "colon", "ok", "data", "rest"} \X (0..MaxFrames)

\* Every variable keeps its type.
XTypeOK ==
    /\ peers \subseteq Conns
    /\ frameCount \in 0..MaxFrames
    /\ link \in [Conns -> {"none", "open", "ended", "lost", "aborted"}]
    /\ wire \in [Conns -> Seq(Token)]
    /\ pump \in [Conns -> {"off", "reading", "done", "thrown"}]
    /\ buffer \in [Conns -> Seq(Token)]
    /\ sent \in [Conns -> Seq(1..MaxFrames)]
    /\ got \in [Conns -> Seq(1..MaxFrames)]

\* However the bytes are cut, the listeners of a connection see the frames the
\* server wrote to it: whole, in that order, each once, none skipped before
\* the last one seen (sse-client-transport.js:36-47, sse-server-transport.js:23-26).
WholeInOrder == \A n \in Conns : IsPrefix(got[n], sent[n])

\* What was written to a response that the server then ends is read to the
\* last frame, unless the connection is lost or given up, or a listener threw
\* (sse-client-transport.js:36-50, sse-server-transport.js:33-35).
EndedIsRead ==
    \A n \in Conns :
        link[n] = "ended" ~> link[n] # "ended" \/ pump[n] = "thrown" \/ got[n] = sent[n]
=============================================================================
