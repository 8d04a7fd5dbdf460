---------------------------- MODULE QueryStream ----------------------------
(***************************************************************************)
(* The answer to a query on its way from the model to the terminal: the    *)
(* goroutine of Generator.Stream (internal/generate/claude.go, openai.go)  *)
(* reads the events of the provider and sends tokens down a buffered       *)
(* channel; handleQuery (internal/api/handlers.go) turns them into server- *)
(* sent events and adds the sources; doQuery (cmd/rag/main.go) prints      *)
(* them.                                                                   *)
(*                                                                         *)
(* An event of the provider is what the scanner's loop makes of it: it has *)
(* text or not, and it ends the answer or not.  Other lines are passed     *)
(* over in the code and left out here.  A text is known by its position in *)
(* the answer.  What was retrieved does not matter here, only whether the  *)
(* line listing it is longer than a scanner takes.                         *)
(***************************************************************************)
EXTENDS Naturals, Sequences

CONSTANTS
    Answers,        \* what the provider may send: sequences over Events
    TokenCapacity,  \* capacity of the channel of tokens, 32 in the code
    WireCapacity    \* how many server-sent events the connection buffers

\* [DONE] ends an answer, as does a finish_reason, whose event may have text.
Events == [text : BOOLEAN, ends : BOOLEAN]

ASSUME StreamAssumption ==
    /\ Answers \subseteq Seq(Events)
    /\ TokenCapacity \in Nat \ {0}
    /\ WireCapacity \in Nat \ {0}

VARIABLES
    answer,     \* what the provider sends this time
    longLine,   \* whether the line of the sources is too long for the client
    gen,        \* the generator: "request", "scan", "send" or "gone"
    seen,       \* how many events it has read
    outbox,     \* the tokens it has to send before it reads on
    tokens,     \* the channel of tokens
    handler,    \* the handler: "stream", "sources", "done" or "returned"
    wire,       \* the server-sent events on their way to the client
    connected,  \* whether the connection is up
    client,     \* the client: "read", "ok", "ended" or "failed"
    printed,    \* the texts it has printed
    listed      \* whether it has printed the sources

given == <<answer, longLine>>
generator == <<gen, seen, outbox>>
terminal == <<client, printed, listed>>
streamVars == <<answer, longLine, gen, seen, outbox, tokens, handler, wire, connected, client,
          printed, listed>>

Text(i) == [type |-> "text", at |-> i]
Done == [type |-> "done", at |-> 0]
Error == [type |-> "error", at |-> 0]
Sources == [type |-> "sources", at |-> 0]

-----------------------------------------------------------------------------
\* The goroutine of the generator.

\* The tokens an event becomes.
TokensOf(i) ==
    (IF answer[i].text THEN <<Text(i)>> ELSE <<>>) \o (IF answer[i].ends THEN <<Done>> ELSE <<>>)

Emit(toks) ==
    /\ outbox' = toks
    /\ gen' = IF toks = <<>> THEN "scan" ELSE "send"

\* The request is answered with 200.
RequestAccepted ==
    /\ gen = "request"
    /\ gen' = "scan"
    /\ UNCHANGED <<given, seen, outbox, tokens, handler, wire, connected, terminal>>

\* client.Do failed, or the answer is not a 200.
RequestFails ==
    /\ gen = "request"
    /\ Emit(<<Error>>)
    /\ UNCHANGED <<given, seen, tokens, handler, wire, connected, terminal>>

\* One round of the scanner's loop.
ScanEvent ==
    /\ gen = "scan" /\ seen < Len(answer)
    /\ seen' = seen + 1
    /\ Emit(TokensOf(seen + 1))
    /\ UNCHANGED <<given, tokens, handler, wire, connected, terminal>>

\* The body ends where the provider says so, or without saying so.
BodyEnds ==
    /\ gen = "scan" /\ seen = Len(answer)
    /\ Emit(<<Done>>)
    /\ UNCHANGED <<given, seen, tokens, handler, wire, connected, terminal>>

\* The body cannot be read on: the connection to the provider broke, a line
\* is too long, the client's 120 seconds are over, or the context of the
\* query is cancelled because its client is gone.
BodyFails ==
    /\ gen = "scan"
    /\ Emit(<<Error>>)
    /\ UNCHANGED <<given, seen, tokens, handler, wire, connected, terminal>>

\* A variant that drops the token when the channel is full.
SendTokenOrDrop ==
    /\ gen = "send"
    /\ tokens' = IF Len(tokens) < TokenCapacity THEN Append(tokens, Head(outbox)) ELSE tokens
    /\ outbox' = Tail(outbox)
    /\ gen' = IF Tail(outbox) # <<>> THEN "send"
              ELSE IF Head(outbox).type = "text" THEN "scan" ELSE "gone"
    /\ UNCHANGED <<given, seen, handler, wire, connected, terminal>>

\* A variant of stream without the return after Done: it reads on.
SendTokenAndScanOn ==
    /\ gen = "send"
    /\ Len(tokens) < TokenCapacity
    /\ tokens' = Append(tokens, Head(outbox))
    /\ outbox' = Tail(outbox)
    /\ gen' = IF Tail(outbox) # <<>> THEN "send"
              ELSE IF seen < Len(answer) THEN "scan" ELSE "gone"
    /\ UNCHANGED <<given, seen, handler, wire, connected, terminal>>

\* ch <- Token blocks while the channel is full.  After Done or an error the
\* goroutine closes the channel and is gone; nobody receives from the closed
\* channel, as the handler stops at that token.
SendToken ==
    /\ gen = "send"
    /\ Len(tokens) < TokenCapacity
    /\ tokens' = Append(tokens, Head(outbox))
    /\ outbox' = Tail(outbox)
    /\ gen' = IF Tail(outbox) # <<>> THEN "send"
              ELSE IF Head(outbox).type = "text" THEN "scan" ELSE "gone"
    /\ UNCHANGED <<given, seen, handler, wire, connected, terminal>>

Generate == RequestAccepted \/ RequestFails \/ ScanEvent \/ BodyEnds \/ BodyFails \/ SendToken

-----------------------------------------------------------------------------
\* The handler.

\* A variant that puts no bound on what the client has not taken.
WriteSSEUnbounded(event) == wire' = IF connected THEN Append(wire, event) ELSE wire

\* writeSSE blocks while the client does not take what was written before;
\* once the connection is down it fails, and its error is dropped.
WriteSSE(event) ==
    /\ connected => Len(wire) < WireCapacity
    /\ wire' = IF connected THEN Append(wire, event) ELSE wire

\* A token is turned into an event.
Forward ==
    /\ handler = "stream"
    /\ tokens # <<>> /\ Head(tokens).type = "text"
    /\ WriteSSE(Head(tokens))
    /\ tokens' = Tail(tokens)
    /\ UNCHANGED <<given, generator, handler, connected, terminal>>

\* A variant that stops when there is no token at the moment.
StreamEndsEarly ==
    /\ handler = "stream"
    /\ tokens # <<>> => Head(tokens).type # "text"
    /\ handler' = "sources"
    /\ UNCHANGED <<given, generator, tokens, wire, connected, terminal>>

\* The loop ends at Done and at an error, which is logged; the handler goes
\* on in the same way after either.
StreamEnds ==
    /\ handler = "stream"
    /\ tokens # <<>> /\ Head(tokens).type # "text"
    /\ tokens' = Tail(tokens)
    /\ handler' = "sources"
    /\ UNCHANGED <<given, generator, wire, connected, terminal>>

WriteSources ==
    /\ handler = "sources"
    /\ WriteSSE(Sources)
    /\ handler' = "done"
    /\ UNCHANGED <<given, generator, tokens, connected, terminal>>

WriteDone ==
    /\ handler = "done"
    /\ WriteSSE(Done)
    /\ handler' = "returned"
    /\ UNCHANGED <<given, generator, tokens, connected, terminal>>

Handle == Forward \/ StreamEnds \/ WriteSources \/ WriteDone

-----------------------------------------------------------------------------
\* The client, and the connection to it.

PrintToken ==
    /\ client = "read" /\ wire # <<>> /\ Head(wire).type = "text"
    /\ printed' = Append(printed, Head(wire).at)
    /\ wire' = Tail(wire)
    /\ UNCHANGED <<given, generator, tokens, handler, connected, client, listed>>

PrintSources ==
    /\ client = "read" /\ wire # <<>> /\ Head(wire).type = "sources"
    /\ ~longLine
    /\ listed' = TRUE
    /\ wire' = Tail(wire)
    /\ UNCHANGED <<given, generator, tokens, handler, connected, client, printed>>

\* The scanner refuses a line of more than 64 KiB: the query has failed
\* after its answer was printed, and the connection is closed.
LineTooLong ==
    /\ client = "read" /\ wire # <<>> /\ Head(wire).type = "sources"
    /\ longLine
    /\ client' = "failed"
    /\ connected' = FALSE
    /\ UNCHANGED <<given, generator, tokens, handler, wire, printed, listed>>

\* The done event ends the client, whatever else may be on the wire.
Finish ==
    /\ client = "read" /\ wire # <<>> /\ Head(wire).type = "done"
    /\ client' = "ok"
    /\ UNCHANGED <<given, generator, tokens, handler, wire, connected, printed, listed>>

\* The client is stopped, its own 120 seconds are over, or the response has
\* broken off, with what was still on the wire.
Leave ==
    /\ client = "read"
    /\ client' = "failed"
    /\ connected' = FALSE
    /\ UNCHANGED <<given, generator, tokens, handler, wire, printed, listed>>

\* A response that was cut may end in order nonetheless, as one does that a
\* proxy passed on: the scanner has no error to return, and the client leaves
\* with success although it has not seen the done event.
ResponseEnds ==
    /\ client = "read" /\ ~connected
    /\ client' = "ended"
    /\ UNCHANGED <<given, generator, tokens, handler, wire, connected, printed, listed>>

\* The server's WriteTimeout of 120 seconds, or the network.
Disconnect ==
    /\ connected /\ client = "read"
    /\ connected' = FALSE
    /\ UNCHANGED <<given, generator, tokens, handler, wire, terminal>>

Read == PrintToken \/ PrintSources \/ LineTooLong \/ Finish \/ Leave \/ ResponseEnds

-----------------------------------------------------------------------------

StreamInit ==
    /\ answer \in Answers
    /\ longLine \in BOOLEAN
    /\ gen = "request"
    /\ seen = 0
    /\ outbox = <<>>
    /\ tokens = <<>>
    /\ handler = "stream"
    /\ wire = <<>>
    /\ connected = TRUE
    /\ client = "read"
    /\ printed = <<>>
    /\ listed = FALSE

StreamNext == Generate \/ Handle \/ Read \/ Disconnect

\* The runtime schedules the goroutines; a provider that stalls is given up
\* after 120 seconds (BodyFails, RequestFails), and a client that does not
\* read after the server's WriteTimeout.  The client need not do anything.
StreamFairness == WF_streamVars(Generate) /\ WF_streamVars(Handle) /\ WF_streamVars(Disconnect)

StreamSpec == StreamInit /\ [][StreamNext]_streamVars /\ StreamFairness

-----------------------------------------------------------------------------
\* Properties.

\* Type invariant.
StreamTypeOK ==
    /\ answer \in Answers
    /\ longLine \in BOOLEAN
    /\ gen \in {"request", "scan", "send", "gone"}
    /\ seen \in 0 .. Len(answer)
    /\ outbox \in Seq({Text(i) : i \in DOMAIN answer} \cup {Done, Error})
    /\ tokens \in Seq({Text(i) : i \in DOMAIN answer} \cup {Done, Error})
    /\ Len(tokens) <= TokenCapacity
    /\ handler \in {"stream", "sources", "done", "returned"}
    /\ wire \in Seq({Text(i) : i \in DOMAIN answer} \cup {Sources, Done})
    /\ Len(wire) <= WireCapacity
    /\ connected \in BOOLEAN
    /\ client \in {"read", "ok", "ended", "failed"}
    /\ printed \in Seq(DOMAIN answer)
    /\ listed \in BOOLEAN

\* The texts of the answer, up to the event that ends it.
Spoken == {i \in DOMAIN answer : answer[i].text /\ \A j \in 1 .. i - 1 : ~answer[j].ends}

\* What is printed is at all times the beginning of what the model said: no
\* text is lost, repeated or overtaken on the way through the channel and the
\* connection, whichever side is slow or goes away.
PrintedInOrder ==
    \A n \in DOMAIN printed :
        /\ printed[n] \in Spoken
        /\ {i \in Spoken : i < printed[n]} = {printed[m] : m \in 1 .. n - 1}

\* A client that has seen the done event has printed the sources, and with
\* them every text the generator has read: a break between generator and
\* provider can cut such an answer short, never one between handler and
\* client.  (Without the event it may have missed any of it, and tells its
\* caller so unless the response ended in order: see ResponseEnds.)
AnsweredIsComplete ==
    client = "ok" => listed /\ {printed[n] : n \in DOMAIN printed} = {i \in Spoken : i <= seen}
=============================================================================
