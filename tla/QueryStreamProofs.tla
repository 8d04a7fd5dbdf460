------------------------- MODULE QueryStreamProofs -------------------------
(***************************************************************************)
(* Proofs about QueryStream, for any answers and any capacities of the     *)
(* channel and the connection: the type invariant, PrintedInOrder and      *)
(* AnsweredIsComplete.                                                     *)
(*                                                                         *)
(* Neither property is inductive: a text is printed in its place because   *)
(* of the order in which it stood on the wire, in the channel and with the *)
(* generator before, and an answer is complete because of what each of     *)
(* the three had passed on when it came to its end.  Inv says where every  *)
(* text that was read is, and that no stage ends before the one before it. *)
(***************************************************************************)
EXTENDS QueryStream, TLAPS, SequenceTheorems

Elems(q) == {q[i] : i \in DOMAIN q}

\* The texts that are in a queue.
Texts(q) == {i \in DOMAIN answer : Text(i) \in Elems(q)}

Heard == {printed[n] : n \in DOMAIN printed}

\* The texts the generator has read so far.
Taken == {i \in Spoken : i <= seen}

Has(q, type) == \E e \in Elems(q) : e.type = type

\* Which event may stand before which: texts in the order of the answer, then
\* the sources, then the end.
Before(a, b) ==
    \/ a.type = "text" /\ b.type = "text" /\ a.at < b.at
    \/ a.type = "text" /\ b.type # "text"
    \/ a.type = "sources" /\ b.type = "done"

InOrder(q) == \A i, j \in DOMAIN q : i < j => Before(q[i], q[j])

\* Every queue is in order, and what is in a later queue was read earlier.
InLine ==
    /\ InOrder(outbox) /\ InOrder(tokens) /\ InOrder(wire)
    /\ \A m, n \in DOMAIN printed : m < n => printed[m] < printed[n]

Ahead(S, T) == \A i \in S, j \in T : i < j

Overtaking ==
    /\ Ahead(Heard, Texts(wire)) /\ Ahead(Heard, Texts(tokens)) /\ Ahead(Heard, Texts(outbox))
    /\ Ahead(Texts(wire), Texts(tokens)) /\ Ahead(Texts(wire), Texts(outbox))
    /\ Ahead(Texts(tokens), Texts(outbox))

\* What is past the handler has no gap; while the connection is up, nothing
\* that was read is lost.
Delivered == Heard \cup Texts(wire)
Underway == Texts(tokens) \cup Texts(outbox)

NoGap ==
    /\ Delivered \cup Underway \subseteq Taken
    /\ \A j \in Delivered, i \in Spoken : i < j => i \in Delivered
    /\ connected => Delivered \cup Underway = Taken

\* The generator reads on only before the end of the answer, and its last
\* token is the only one that is not a text.
Open == \A j \in 1 .. seen : ~answer[j].ends

GeneratorInStep ==
    /\ gen = "send" <=> outbox # <<>>
    /\ gen \in {"request", "scan"} => Open
    /\ gen = "send" /\ outbox[Len(outbox)].type = "text" => Open
    /\ gen # "gone" => \A e \in Elems(tokens) : e.type = "text"

\* The handler goes on to the sources when the generator is gone.
HandlerInStep ==
    /\ handler # "stream" => gen = "gone" /\ tokens = <<>>
    /\ handler \in {"stream", "sources"} => ~listed /\ \A e \in Elems(wire) : e.type = "text"
    /\ handler = "done" /\ connected => listed \/ Has(wire, "sources")
    /\ Has(wire, "done") => handler = "returned" /\ (listed \/ Has(wire, "sources"))

\* Sources and the end of an answer stand behind all of its texts.
AllThere ==
    /\ listed \/ Has(wire, "sources") \/ Has(wire, "done") => Delivered = Taken
    /\ client = "ok" => handler = "returned" /\ listed /\ Heard = Taken

Inv ==
    /\ StreamTypeOK
    /\ InLine
    /\ Overtaking
    /\ NoGap
    /\ GeneratorInStep
    /\ HandlerInStep
    /\ AllThere

-----------------------------------------------------------------------------
\* Queues: what Append and Tail do to what is in them and to their order.

LEMMA AppendElems ==
    ASSUME NEW S, NEW q \in Seq(S), NEW e
    PROVE  Elems(Append(q, e)) = Elems(q) \cup {e}
  <1>1. /\ DOMAIN Append(q, e) = 1 .. Len(q) + 1
        /\ \A i \in 1 .. Len(q) : Append(q, e)[i] = q[i]
        /\ Append(q, e)[Len(q) + 1] = e
        /\ DOMAIN q = 1 .. Len(q) /\ Len(q) \in Nat
    OBVIOUS
  <1>2. \A i : i \in 1 .. Len(q) + 1 <=> i \in 1 .. Len(q) \/ i = Len(q) + 1
    BY <1>1
  <1> QED
    BY <1>1, <1>2 DEF Elems

LEMMA TailElems ==
    ASSUME NEW S, NEW q \in Seq(S), q # <<>>
    PROVE  /\ Elems(q) = {Head(q)} \cup Elems(Tail(q))
           /\ Head(q) \in S /\ Tail(q) \in Seq(S) /\ Len(Tail(q)) = Len(q) - 1
  <1>1. /\ DOMAIN q = 1 .. Len(q) /\ Len(q) \in Nat \ {0}
        /\ Head(q) = q[1] /\ Tail(q) \in Seq(S) /\ Len(Tail(q)) = Len(q) - 1
        /\ DOMAIN Tail(q) = 1 .. Len(q) - 1
        /\ \A i \in 1 .. Len(q) - 1 : Tail(q)[i] = q[i + 1]
    OBVIOUS
  <1>2. ASSUME NEW i \in DOMAIN q PROVE i = 1 \/ (i - 1 \in DOMAIN Tail(q) /\ Tail(q)[i - 1] = q[i])
    BY <1>1
  <1>3. \A i \in DOMAIN Tail(q) : i + 1 \in DOMAIN q /\ q[i + 1] = Tail(q)[i]
    BY <1>1
  <1>4. 1 \in DOMAIN q /\ q[1] \in S
    BY <1>1
  <1>5. Elems(q) \subseteq {Head(q)} \cup Elems(Tail(q))
    BY <1>1, <1>2 DEF Elems
  <1>6. {Head(q)} \cup Elems(Tail(q)) \subseteq Elems(q)
    BY <1>1, <1>3, <1>4 DEF Elems
  <1> QED
    BY <1>1, <1>4, <1>5, <1>6

LEMMA AppendInOrder ==
    ASSUME NEW S, NEW q \in Seq(S), NEW e, InOrder(q), \A x \in Elems(q) : Before(x, e)
    PROVE  InOrder(Append(q, e))
  <1>1. /\ DOMAIN Append(q, e) = 1 .. Len(q) + 1
        /\ \A i \in 1 .. Len(q) : Append(q, e)[i] = q[i]
        /\ Append(q, e)[Len(q) + 1] = e
        /\ DOMAIN q = 1 .. Len(q) /\ Len(q) \in Nat
    OBVIOUS
  <1> SUFFICES ASSUME NEW i \in 1 .. Len(q) + 1, NEW j \in 1 .. Len(q) + 1, i < j
               PROVE  Before(Append(q, e)[i], Append(q, e)[j])
    BY <1>1 DEF InOrder
  <1>2. i \in 1 .. Len(q)
    BY <1>1
  <1>3. CASE j \in 1 .. Len(q)
    BY <1>1, <1>2, <1>3 DEF InOrder
  <1>4. CASE j = Len(q) + 1
    BY <1>1, <1>2, <1>4 DEF Elems
  <1> QED
    BY <1>1, <1>3, <1>4

LEMMA TailInOrder ==
    ASSUME NEW S, NEW q \in Seq(S), q # <<>>, InOrder(q)
    PROVE  InOrder(Tail(q)) /\ \A x \in Elems(Tail(q)) : Before(Head(q), x)
  <1>1. /\ DOMAIN q = 1 .. Len(q) /\ Len(q) \in Nat \ {0} /\ Head(q) = q[1]
        /\ DOMAIN Tail(q) = 1 .. Len(q) - 1
        /\ \A i \in 1 .. Len(q) - 1 : Tail(q)[i] = q[i + 1]
    OBVIOUS
  <1>2. \A i \in DOMAIN Tail(q) : i + 1 \in DOMAIN q /\ q[i + 1] = Tail(q)[i] /\ 1 < i + 1
    BY <1>1
  <1>3. \A i, j \in DOMAIN Tail(q) : i < j => i + 1 < j + 1
    BY <1>1
  <1>4. InOrder(Tail(q))
    BY <1>2, <1>3 DEF InOrder
  <1>5. 1 \in DOMAIN q
    BY <1>1
  <1> QED
    BY <1>1, <1>2, <1>4, <1>5 DEF InOrder, Elems

LEMMA ShortQueues ==
    /\ Elems(<<>>) = {} /\ InOrder(<<>>)
    /\ \A a : Elems(<<a>>) = {a} /\ InOrder(<<a>>)
    /\ \A a, b : Elems(<<a, b>>) = {a, b} /\ (Before(a, b) => InOrder(<<a, b>>))
  <1>1. Elems(<<>>) = {} /\ InOrder(<<>>)
    BY DEF Elems, InOrder
  <1>2. ASSUME NEW a PROVE Elems(<<a>>) = {a} /\ InOrder(<<a>>)
    <2>1. DOMAIN <<a>> = {1} /\ <<a>>[1] = a
      OBVIOUS
    <2> QED
      BY <2>1 DEF Elems, InOrder
  <1>3. ASSUME NEW a, NEW b PROVE Elems(<<a, b>>) = {a, b} /\ (Before(a, b) => InOrder(<<a, b>>))
    <2>1. DOMAIN <<a, b>> = {1, 2} /\ <<a, b>>[1] = a /\ <<a, b>>[2] = b
      OBVIOUS
    <2> QED
      BY <2>1 DEF Elems, InOrder
  <1> QED
    BY <1>1, <1>2, <1>3

LEMMA Singletons ==
    /\ \A a, b : <<a>> \o <<b>> = <<a, b>>
    /\ \A a : <<a>> \o <<>> = <<a>> /\ <<>> \o <<a>> = <<a>>
    /\ <<>> \o <<>> = <<>>
  <1>1. ASSUME NEW a, NEW b PROVE <<a>> \o <<b>> = <<a, b>>
    <2> DEFINE s == <<a>> \o <<b>>
               t == <<a, b>>
    <2>1. <<a>> \in Seq({a, b}) /\ <<b>> \in Seq({a, b}) /\ t \in Seq({a, b})
      OBVIOUS
    <2>2. s \in Seq({a, b}) /\ Len(s) = Len(t) /\ Len(s) = 2
      BY <2>1
    <2>3. s[1] = a /\ s[2] = b /\ t[1] = a /\ t[2] = b
      BY <2>1
    <2>4. \A i \in 1 .. 2 : i = 1 \/ i = 2
      OBVIOUS
    <2> HIDE DEF s
    <2>5. \A i \in 1 .. Len(s) : s[i] = t[i]
      BY <2>2, <2>3, <2>4
    <2> QED
      BY <2>1, <2>2, <2>5, SeqEqual DEF s
  <1>2. ASSUME NEW a PROVE <<a>> \o <<>> = <<a>>
    OBVIOUS
  <1>3. ASSUME NEW a PROVE <<>> \o <<a>> = <<a>>
    OBVIOUS
  <1>4. <<>> \o <<>> = <<>>
    OBVIOUS
  <1> QED
    BY <1>1, <1>2, <1>3, <1>4

\* What can be in the channel, and on the wire.
OnChannel == {Text(i) : i \in DOMAIN answer} \cup {Done, Error}
OnWire == {Text(i) : i \in DOMAIN answer} \cup {Sources, Done}

\* An event is a text of the answer, or none.
LEMMA EventKinds ==
    ASSUME NEW e \in OnChannel \cup OnWire
    PROVE  /\ e.type = "text" => e.at \in DOMAIN answer /\ e = Text(e.at)
           /\ e.type # "text" => \A i : e # Text(i)
           /\ e.type \in {"text", "sources", "done", "error"}
           /\ e \in OnChannel => e.type # "sources"
  BY DEF OnChannel, OnWire, Text, Done, Error, Sources

LEMMA TextsKnown ==
    /\ \A i : Text(i).type = "text" /\ Text(i).at = i
    /\ Done.type = "done" /\ Error.type = "error" /\ Sources.type = "sources"
    /\ \A i, j : Text(i) = Text(j) => i = j
    /\ \A i : Text(i) # Done /\ Text(i) # Error /\ Text(i) # Sources
  BY DEF Text, Done, Error, Sources

LEMMA AnswerTyped ==
    ASSUME answer \in Answers
    PROVE  /\ Len(answer) \in Nat /\ DOMAIN answer = 1 .. Len(answer)
           /\ \A i \in DOMAIN answer : answer[i].text \in BOOLEAN /\ answer[i].ends \in BOOLEAN
           /\ Spoken \subseteq DOMAIN answer
  <1>1. answer \in Seq(Events)
    BY StreamAssumption
  <1>2. Len(answer) \in Nat /\ DOMAIN answer = 1 .. Len(answer)
    BY <1>1
  <1>3. \A i \in DOMAIN answer : answer[i] \in Events
    BY <1>1
  <1> QED
    BY <1>2, <1>3 DEF Events, Spoken

\* The answer does not change on its way.
LEMMA SameAnswer ==
    ASSUME [StreamNext]_streamVars
    PROVE  /\ answer' = answer /\ longLine' = longLine /\ Spoken' = Spoken
           /\ (connected' => connected)
  <1>1. /\ answer' = answer /\ longLine' = longLine /\ (connected' => connected)
    BY DEF StreamNext, Generate, Handle, Read, Disconnect, streamVars, given, RequestAccepted, RequestFails,
           ScanEvent, BodyEnds, BodyFails, SendToken, Forward, StreamEnds, WriteSources, WriteDone,
           PrintToken, PrintSources, LineTooLong, Finish, Leave, ResponseEnds
  <1> QED
    BY <1>1 DEF Spoken

LEMMA PrimedTexts ==
    ASSUME answer' = answer
    PROVE  /\ Texts(wire)' = Texts(wire') /\ Texts(tokens)' = Texts(tokens')
           /\ Texts(outbox)' = Texts(outbox') /\ Spoken' = Spoken
  BY DEF Texts, Elems, Spoken

\* A queue without its first event, and with one more.
LEMMA TextsMove ==
    ASSUME NEW q \in Seq(OnChannel \cup OnWire)
    PROVE  /\ \A i \in DOMAIN answer : Texts(Append(q, Text(i))) = Texts(q) \cup {i}
           /\ \A e \in {Done, Error, Sources} : Texts(Append(q, e)) = Texts(q)
           /\ q # <<>> /\ Head(q).type = "text" =>
                 /\ Head(q).at \in DOMAIN answer /\ Head(q) = Text(Head(q).at)
                 /\ Texts(q) = {Head(q).at} \cup Texts(Tail(q))
           /\ q # <<>> /\ Head(q).type # "text" => Texts(q) = Texts(Tail(q))
           /\ Texts(<<>>) = {}
  <1>1. ASSUME NEW i \in DOMAIN answer PROVE Texts(Append(q, Text(i))) = Texts(q) \cup {i}
    BY AppendElems, TextsKnown DEF Texts
  <1>2. ASSUME NEW e \in {Done, Error, Sources} PROVE Texts(Append(q, e)) = Texts(q)
    BY AppendElems, TextsKnown DEF Texts
  <1>3. ASSUME q # <<>>, Head(q).type = "text"
        PROVE  /\ Head(q).at \in DOMAIN answer /\ Head(q) = Text(Head(q).at)
               /\ Texts(q) = {Head(q).at} \cup Texts(Tail(q))
    <2>1. Head(q).at \in DOMAIN answer /\ Head(q) = Text(Head(q).at)
      BY <1>3, TailElems, EventKinds
    <2> QED
      BY <1>3, <2>1, TailElems, TextsKnown DEF Texts
  <1>4. ASSUME q # <<>>, Head(q).type # "text" PROVE Texts(q) = Texts(Tail(q))
    BY <1>4, TailElems, TextsKnown DEF Texts
  <1>5. Texts(<<>>) = {}
    BY ShortQueues DEF Texts
  <1> QED
    BY <1>1, <1>2, <1>3, <1>4, <1>5

-----------------------------------------------------------------------------
\* The steps of the generator.

LEMMA QueueTypes ==
    ASSUME StreamTypeOK
    PROVE  /\ outbox \in Seq(OnChannel) /\ outbox \in Seq(OnChannel \cup OnWire)
           /\ tokens \in Seq(OnChannel) /\ tokens \in Seq(OnChannel \cup OnWire)
           /\ wire \in Seq(OnWire) /\ wire \in Seq(OnChannel \cup OnWire)
           /\ seen \in 0 .. Len(answer)
  <1>1. ASSUME NEW S, NEW T, S \subseteq T, NEW q \in Seq(S) PROVE q \in Seq(T)
    BY <1>1
  <1>2. outbox \in Seq(OnChannel) /\ tokens \in Seq(OnChannel) /\ wire \in Seq(OnWire)
    BY DEF StreamTypeOK, OnChannel, OnWire
  <1>3. seen \in 0 .. Len(answer)
    BY DEF StreamTypeOK
  <1> QED
    BY <1>1, <1>2, <1>3

\* While the generator is there the handler streams, and no source and no end
\* has been written.
LEMMA StillStreaming ==
    ASSUME Inv, gen # "gone"
    PROVE  /\ handler = "stream" /\ ~listed /\ client # "ok"
           /\ \A e \in Elems(wire) \cup Elems(tokens) : e.type = "text"
  BY DEF Inv, HandlerInStep, AllThere, GeneratorInStep

LEMMA InitInv == StreamInit => Inv
  <1> SUFFICES ASSUME StreamInit PROVE Inv
    OBVIOUS
  <1>0. Elems(<<>>) = {} /\ InOrder(<<>>) /\ Texts(<<>>) = {}
    BY ShortQueues DEF Texts
  <1>1. StreamTypeOK
    <2>1. answer \in Answers /\ longLine \in BOOLEAN /\ seen \in 0 .. Len(answer)
      BY AnswerTyped DEF StreamInit
    <2>2. \A S : <<>> \in Seq(S) /\ Len(<<>>) = 0
      OBVIOUS
    <2>3. 0 <= TokenCapacity /\ 0 <= WireCapacity
      BY StreamAssumption
    <2> QED
      BY <2>1, <2>2, <2>3 DEF StreamInit, StreamTypeOK
  <1>2. Taken = {}
    BY <1>1, AnswerTyped DEF StreamInit, Taken, Spoken
  <1>3. Heard = {}
    BY DEF StreamInit, Heard
  <1>4. InLine /\ Overtaking /\ NoGap
    BY <1>0, <1>2, <1>3 DEF StreamInit, InLine, Overtaking, Ahead, NoGap, Delivered, Underway
  <1>5. GeneratorInStep
    BY <1>0 DEF StreamInit, GeneratorInStep, Open
  <1>6. HandlerInStep /\ AllThere
    BY <1>0 DEF StreamInit, HandlerInStep, AllThere, Has
  <1> QED
    BY <1>1, <1>4, <1>5, <1>6 DEF Inv

\* The generator has something to send: what it has read since it sent last.
LEMMA EmitInv ==
    ASSUME Inv, gen \in {"request", "scan"}, NEW toks \in Seq(OnChannel), Emit(toks),
           UNCHANGED <<answer, longLine, tokens, handler, wire, connected, client, printed, listed>>,
           seen' \in 0 .. Len(answer), seen <= seen', InOrder(toks),
           {i \in Spoken : i <= seen'} = Taken \cup Texts(toks),
           \A i \in Texts(toks) : seen < i,
           toks = <<>> \/ toks[Len(toks)].type = "text" =>
               \A j \in 1 .. seen' : ~answer[j].ends
    PROVE  Inv'
  <1>s. /\ handler = "stream" /\ ~listed /\ client # "ok"
        /\ \A e \in Elems(wire) \cup Elems(tokens) : e.type = "text"
    BY StillStreaming
  <1>e. outbox' = toks /\ gen' = IF toks = <<>> THEN "scan" ELSE "send"
    BY DEF Emit
  <1>p. /\ Texts(wire)' = Texts(wire) /\ Texts(tokens)' = Texts(tokens)
        /\ Texts(outbox)' = Texts(toks) /\ Spoken' = Spoken /\ Heard' = Heard
        /\ Elems(wire)' = Elems(wire) /\ Elems(tokens)' = Elems(tokens)
    BY <1>e DEF Texts, Elems, Spoken, Heard
  <1>o. Texts(outbox) = {}
    <2>1. outbox = <<>>
      BY DEF Inv, GeneratorInStep
    <2> QED
      BY <2>1, ShortQueues DEF Texts
  <1>t. Taken' = Taken \cup Texts(toks)
    BY <1>p DEF Taken
  <1>1. StreamTypeOK'
    BY <1>e DEF Inv, StreamTypeOK, OnChannel
  <1>2. InLine'
    BY <1>e DEF Inv, InLine, InOrder, Before
  <1>3. Overtaking'
    <2>1. \A i \in Taken : i \in Nat /\ i <= seen
      <3>1. Spoken \subseteq Nat
        BY AnswerTyped DEF Inv, StreamTypeOK
      <3> QED
        BY <3>1 DEF Taken
    <2>2. Texts(toks) \subseteq Nat /\ seen \in Nat
      BY AnswerTyped DEF Inv, StreamTypeOK, Texts
    <2>3. \A i \in Taken, j \in Texts(toks) : i < j
      BY <2>1, <2>2
    <2> QED
      BY <1>p, <2>3 DEF Inv, NoGap, Delivered, Underway, Overtaking, Ahead
  <1>4. NoGap'
    BY <1>p, <1>o, <1>t DEF Inv, NoGap, Delivered, Underway
  <1>5. GeneratorInStep'
    BY <1>e, <1>s, <1>p DEF GeneratorInStep, Open
  <1>6. HandlerInStep'
    BY <1>s, <1>p DEF HandlerInStep, Has
  <1>7. AllThere'
    BY <1>s, <1>p DEF AllThere, Has
  <1> QED
    BY <1>1, <1>2, <1>3, <1>4, <1>5, <1>6, <1>7 DEF Inv

LEMMA RequestAcceptedInv == ASSUME Inv, RequestAccepted PROVE Inv'
  <1> USE DEF RequestAccepted, given, terminal
  <1>1. StreamTypeOK'
    BY DEF Inv, StreamTypeOK
  <1>2. (InLine /\ Overtaking /\ NoGap)'
    BY DEF Inv, InLine, InOrder, Before, Overtaking, Ahead, NoGap, Delivered, Underway, Taken, Spoken,
           Texts, Elems, Heard
  <1>3. GeneratorInStep'
    BY DEF Inv, GeneratorInStep, Open, Elems
  <1>4. (HandlerInStep /\ AllThere)'
    BY DEF Inv, HandlerInStep, AllThere, Has, Delivered, Taken, Spoken, Texts, Elems, Heard
  <1> QED
    BY <1>1, <1>2, <1>3, <1>4 DEF Inv

\* An event has its text, and ends the answer or not.
LEMMA ScanEventInv == ASSUME Inv, ScanEvent PROVE Inv'
  <1> DEFINE i == seen + 1
             toks == TokensOf(i)
             text == IF answer[i].text THEN <<Text(i)>> ELSE <<>>
             end == IF answer[i].ends THEN <<Done>> ELSE <<>>
  <1>a. /\ seen \in Nat /\ i \in DOMAIN answer /\ Len(answer) \in Nat
        /\ answer[i].text \in BOOLEAN /\ answer[i].ends \in BOOLEAN
    BY AnswerTyped DEF Inv, StreamTypeOK, ScanEvent
  <1>o. Open
    BY DEF Inv, GeneratorInStep, ScanEvent
  <1>t. \/ answer[i].text /\ answer[i].ends /\ toks = <<Text(i), Done>>
        \/ answer[i].text /\ ~answer[i].ends /\ toks = <<Text(i)>>
        \/ ~answer[i].text /\ answer[i].ends /\ toks = <<Done>>
        \/ ~answer[i].text /\ ~answer[i].ends /\ toks = <<>>
    <2>1. toks = text \o end
      BY DEF TokensOf
    <2> QED
      BY <1>a, <2>1, Singletons
  <1>k. Text(i) \in OnChannel /\ Done \in OnChannel
    BY <1>a DEF OnChannel
  <1>1. toks \in Seq(OnChannel)
    <2>1. /\ <<Text(i), Done>> \in Seq(OnChannel) /\ <<Text(i)>> \in Seq(OnChannel)
          /\ <<Done>> \in Seq(OnChannel) /\ <<>> \in Seq(OnChannel)
      BY <1>k
    <2> QED
      BY <1>t, <2>1
  <1>2. InOrder(toks)
    <2>1. Before(Text(i), Done)
      BY TextsKnown DEF Before
    <2> QED
      BY <1>t, <2>1, ShortQueues
  <1>3. Texts(toks) = IF answer[i].text THEN {i} ELSE {}
    BY <1>a, <1>t, ShortQueues, TextsKnown DEF Texts
  <1>4. {j \in Spoken : j <= i} = Taken \cup Texts(toks)
    <2>1. i \in Spoken <=> answer[i].text
      BY <1>a, <1>o DEF Spoken, Open
    <2>2. \A j \in Spoken : j \in Nat /\ (j <= i <=> j <= seen \/ j = i)
      BY <1>a, AnswerTyped DEF Inv, StreamTypeOK
    <2> QED
      BY <1>3, <2>1, <2>2 DEF Taken
  <1>5. toks = <<>> \/ toks[Len(toks)].type = "text" => \A j \in 1 .. i : ~answer[j].ends
    <2>1. answer[i].ends => toks # <<>> /\ toks[Len(toks)].type # "text"
      <3>1. /\ <<Text(i), Done>> # <<>> /\ <<Text(i), Done>>[Len(<<Text(i), Done>>)] = Done
            /\ <<Done>> # <<>> /\ <<Done>>[Len(<<Done>>)] = Done
        OBVIOUS
      <3>2. Done.type # "text"
        BY DEF Done
      <3> QED
        BY <1>t, <3>1, <3>2
    <2>2. \A j \in 1 .. i : j \in 1 .. seen \/ j = i
      BY <1>a
    <2> QED
      BY <1>o, <2>1, <2>2 DEF Open
  <1>6. \A j \in Texts(toks) : seen < j
    BY <1>a, <1>3
  <1>7. /\ seen' = i /\ gen \in {"request", "scan"} /\ Emit(toks)
        /\ UNCHANGED <<answer, longLine, tokens, handler, wire, connected, client, printed, listed>>
    BY DEF ScanEvent, given, terminal
  <1>8. i \in 0 .. Len(answer) /\ seen <= i
    BY <1>a, AnswerTyped DEF Inv, StreamTypeOK
  <1> HIDE DEF toks, i
  <1> QED
    BY <1>1, <1>2, <1>4, <1>5, <1>6, <1>7, <1>8, EmitInv

\* The answer ends, or breaks off, after what was read.
LEMMA BodyOverInv ==
    ASSUME Inv, RequestFails \/ BodyEnds \/ BodyFails PROVE Inv'
  <1>1. ASSUME NEW e \in {Done, Error}, Emit(<<e>>), gen \in {"request", "scan"},
               UNCHANGED <<answer, longLine, seen, tokens, handler, wire, connected, client, printed,
                           listed>>
        PROVE  Inv'
    <2>1. <<e>> \in Seq(OnChannel) /\ InOrder(<<e>>)
      BY ShortQueues DEF OnChannel
    <2>2. Texts(<<e>>) = {}
      BY ShortQueues, TextsKnown DEF Texts
    <2>3. <<e>> # <<>> /\ <<e>>[Len(<<e>>)].type # "text"
      BY TextsKnown
    <2>4. seen' = seen /\ seen \in 0 .. Len(answer) /\ seen <= seen
      BY <1>1 DEF Inv, StreamTypeOK
    <2>5. {i \in Spoken : i <= seen'} = Taken \cup Texts(<<e>>)
      BY <2>2, <2>4 DEF Taken
    <2> QED
      BY <1>1, <2>1, <2>2, <2>3, <2>4, <2>5, EmitInv
  <1> QED
    BY <1>1 DEF RequestFails, BodyEnds, BodyFails, given, terminal

\* A token goes into the channel; after the last one the generator is gone.
LEMMA SendInv == ASSUME Inv, SendToken PROVE Inv'
  <1> DEFINE h == Head(outbox)
  <1>s. /\ handler = "stream" /\ ~listed /\ client # "ok"
        /\ \A e \in Elems(wire) \cup Elems(tokens) : e.type = "text"
    BY StillStreaming DEF SendToken
  <1>u. /\ UNCHANGED <<answer, longLine, seen, handler, wire, connected, client, printed, listed>>
        /\ tokens' = Append(tokens, h) /\ outbox' = Tail(outbox) /\ Len(tokens) < TokenCapacity
        /\ gen = "send" /\ outbox # <<>>
    BY DEF SendToken, given, terminal, Inv, GeneratorInStep
  <1>q. /\ outbox \in Seq(OnChannel) /\ tokens \in Seq(OnChannel)
        /\ outbox \in Seq(OnChannel \cup OnWire) /\ tokens \in Seq(OnChannel \cup OnWire)
    BY QueueTypes DEF Inv
  <1>h. h \in OnChannel /\ Tail(outbox) \in Seq(OnChannel) /\ Elems(outbox) = {h} \cup Elems(Tail(outbox))
    BY <1>q, <1>u, TailElems
  <1>o. InOrder(Tail(outbox)) /\ \A x \in Elems(Tail(outbox)) : Before(h, x)
    BY <1>q, <1>u, TailInOrder DEF Inv, InLine
  <1>p. /\ Texts(wire)' = Texts(wire) /\ Texts(tokens)' = Texts(tokens')
        /\ Texts(outbox)' = Texts(outbox') /\ Taken' = Taken /\ Heard' = Heard
        /\ Elems(wire)' = Elems(wire) /\ Spoken' = Spoken
    BY <1>u DEF Texts, Elems, Taken, Spoken, Heard
  \* The head is a text that moves from one queue to the next, or the last token.
  <1>m. \/ /\ h.type = "text" /\ h.at \in DOMAIN answer
           /\ Texts(outbox) = {h.at} \cup Texts(Tail(outbox))
           /\ Texts(tokens') = Texts(tokens) \cup {h.at}
        \/ /\ h.type # "text" /\ Tail(outbox) = <<>>
           /\ Texts(outbox) = Texts(Tail(outbox)) /\ Texts(tokens') = Texts(tokens)
    <2>1. CASE h.type = "text"
      BY <1>q, <1>u, <2>1, TextsMove
    <2>2. CASE h.type # "text"
      <3>1. h \in {Done, Error}
        BY <1>h, <2>2 DEF OnChannel, Text
      <3>2. Elems(Tail(outbox)) = {}
        <4>1. \A x : ~Before(h, x)
          BY <2>2, <3>1, TextsKnown DEF Before
        <4> QED
          BY <4>1, <1>o
      <3>3. Tail(outbox) = <<>>
        <4>1. ASSUME Tail(outbox) # <<>> PROVE FALSE
          BY <1>h, <3>2, <4>1, TailElems
        <4> QED
          BY <4>1
      <3> QED
        BY <1>q, <1>u, <2>2, <3>1, <3>3, TextsMove
    <2> QED
      BY <2>1, <2>2
  <1>t. \A j \in Texts(Tail(outbox)) : h.type = "text" => h.at < j
    <2>1. \A j \in Texts(Tail(outbox)) : Before(h, Text(j))
      BY <1>o DEF Texts
    <2> QED
      BY <2>1, TextsKnown DEF Before
  <1>1. StreamTypeOK'
    <2>1. tokens' \in Seq(OnChannel) /\ Len(tokens') = Len(tokens) + 1 /\ Len(tokens) \in Nat
      BY <1>u, <1>q, <1>h
    <2>2. Len(tokens') <= TokenCapacity
      BY <1>u, <2>1, StreamAssumption
    <2>3. gen' \in {"send", "scan", "gone"}
      BY DEF SendToken
    <2> QED
      BY <1>u, <1>h, <2>1, <2>2, <2>3 DEF Inv, StreamTypeOK, OnChannel
  <1>2. InLine'
    <2>1. \A x \in Elems(tokens) : Before(x, h)
      <3> SUFFICES ASSUME NEW x \in Elems(tokens) PROVE Before(x, h)
        OBVIOUS
      <3>0. x \in OnChannel
        BY <1>q DEF Elems
      <3>1. x.type = "text" /\ x.at \in Texts(tokens)
        BY <1>s, <3>0, EventKinds DEF Texts
      <3>2. CASE h.type # "text"
        BY <3>1, <3>2 DEF Before
      <3>3. CASE h.type = "text"
        BY <1>m, <3>1, <3>3 DEF Inv, Overtaking, Ahead, Before
      <3> QED
        BY <3>2, <3>3
    <2>2. InOrder(Append(tokens, h))
      BY <1>q, <2>1, AppendInOrder DEF Inv, InLine
    <2>3. InOrder(tokens)' /\ InOrder(outbox)'
      BY <1>u, <1>o, <2>2 DEF InOrder, Before
    <2>4. InOrder(wire)' /\ UNCHANGED printed
      BY <1>u DEF Inv, InLine, InOrder, Before
    <2> QED
      BY <2>3, <2>4 DEF Inv, InLine
  <1>3. Overtaking'
    BY <1>p, <1>u, <1>m, <1>t DEF Inv, Overtaking, Ahead
  <1>4. NoGap'
    <2>1. Delivered' = Delivered /\ Underway' = Underway
      BY <1>p, <1>u, <1>m DEF Delivered, Underway
    <2> QED
      BY <1>p, <1>u, <2>1 DEF Inv, NoGap
  <1>5. GeneratorInStep'
    <2>1. CASE Tail(outbox) # <<>>
      <3>1. gen' = "send"
        BY <2>1 DEF SendToken
      <3>2. h.type = "text"
        BY <1>m, <2>1
      <3>3. \A e \in Elems(tokens') : e.type = "text"
        BY <1>s, <1>u, <1>q, <3>2, AppendElems
      <3>4. outbox'[Len(outbox')] = outbox[Len(outbox)]
        BY <1>u, <1>q, <2>1
      <3> QED
        BY <1>u, <2>1, <3>1, <3>3, <3>4 DEF Inv, GeneratorInStep, Open, Elems
    <2>2. CASE Tail(outbox) = <<>> /\ h.type = "text"
      <3>1. gen' = "scan"
        BY <2>2 DEF SendToken
      <3>2. outbox[Len(outbox)] = h
        BY <1>u, <1>q, <2>2
      <3>3. \A e \in Elems(tokens') : e.type = "text"
        BY <1>s, <1>u, <1>q, <2>2, AppendElems
      <3>4. Open
        BY <1>u, <2>2, <3>2 DEF Inv, GeneratorInStep
      <3> QED
        BY <1>u, <2>2, <3>1, <3>3, <3>4 DEF GeneratorInStep, Open, Elems
    <2>3. CASE Tail(outbox) = <<>> /\ h.type # "text"
      <3>1. gen' = "gone"
        BY <2>3 DEF SendToken
      <3> QED
        BY <1>u, <2>3, <3>1 DEF GeneratorInStep
    <2> QED
      BY <2>1, <2>2, <2>3
  <1>6. HandlerInStep'
    BY <1>s, <1>u, <1>p DEF HandlerInStep, Has
  <1>7. AllThere'
    BY <1>s, <1>u, <1>p DEF AllThere, Has
  <1> QED
    BY <1>1, <1>2, <1>3, <1>4, <1>5, <1>6, <1>7 DEF Inv

-----------------------------------------------------------------------------
\* The steps of the handler.

\* A token goes onto the wire, or is lost with the connection.
LEMMA ForwardInv == ASSUME Inv, Forward PROVE Inv'
  <1> DEFINE h == Head(tokens)
  <1>u. /\ UNCHANGED <<answer, longLine, gen, seen, outbox, handler, connected, client, printed, listed>>
        /\ tokens' = Tail(tokens) /\ tokens # <<>> /\ handler = "stream" /\ h.type = "text"
        /\ connected => Len(wire) < WireCapacity /\ wire' = Append(wire, h)
        /\ ~connected => wire' = wire
    BY DEF Forward, WriteSSE, given, generator, terminal
  <1>s. ~listed /\ client # "ok" /\ \A e \in Elems(wire) : e.type = "text"
    BY <1>u DEF Inv, HandlerInStep, AllThere
  <1>q. /\ tokens \in Seq(OnChannel) /\ wire \in Seq(OnWire)
        /\ tokens \in Seq(OnChannel \cup OnWire) /\ wire \in Seq(OnChannel \cup OnWire)
    BY QueueTypes DEF Inv
  <1>h. /\ h.at \in DOMAIN answer /\ h = Text(h.at) /\ h \in OnWire
        /\ Tail(tokens) \in Seq(OnChannel) /\ Len(Tail(tokens)) = Len(tokens) - 1
        /\ Elems(tokens) = {h} \cup Elems(Tail(tokens))
        /\ Texts(tokens) = {h.at} \cup Texts(Tail(tokens))
    BY <1>q, <1>u, TailElems, TextsMove DEF OnWire
  <1>o. InOrder(Tail(tokens)) /\ \A x \in Elems(Tail(tokens)) : Before(h, x)
    BY <1>q, <1>u, TailInOrder DEF Inv, InLine
  <1>p. /\ Texts(wire)' = Texts(wire') /\ Texts(tokens)' = Texts(tokens')
        /\ Texts(outbox)' = Texts(outbox) /\ Taken' = Taken /\ Heard' = Heard /\ Spoken' = Spoken
    BY <1>u DEF Texts, Elems, Taken, Spoken, Heard
  <1>t. \A j \in Texts(Tail(tokens)) : h.at < j
    <2>1. \A j \in Texts(Tail(tokens)) : Before(h, Text(j))
      BY <1>o DEF Texts
    <2> QED
      BY <1>u, <2>1, TextsKnown DEF Before
  <1>w. /\ connected => Texts(wire') = Texts(wire) \cup {h.at} /\ Elems(wire') = Elems(wire) \cup {h}
        /\ ~connected => Texts(wire') = Texts(wire) /\ Elems(wire') = Elems(wire)
    <2>1. Texts(Append(wire, Text(h.at))) = Texts(wire) \cup {h.at}
      BY <1>q, <1>h, TextsMove
    <2>2. Elems(Append(wire, h)) = Elems(wire) \cup {h}
      BY <1>q, AppendElems
    <2> QED
      BY <1>u, <1>h, <2>1, <2>2
  <1>1. StreamTypeOK'
    <2>1. wire' \in Seq(OnWire) /\ Len(wire') <= WireCapacity
      <3>1. CASE connected
        <4>1. Append(wire, h) \in Seq(OnWire) /\ Len(Append(wire, h)) = Len(wire) + 1 /\ Len(wire) \in Nat
          BY <1>q, <1>h
        <4> QED
          BY <1>u, <3>1, <4>1, StreamAssumption
      <3>2. CASE ~connected
        BY <1>u, <1>q, <3>2 DEF Inv, StreamTypeOK
      <3> QED
        BY <3>1, <3>2
    <2>2. Len(tokens') <= TokenCapacity
      <3>1. Len(tokens) \in Nat /\ Len(tokens) <= TokenCapacity /\ TokenCapacity \in Nat
        BY <1>q, StreamAssumption DEF Inv, StreamTypeOK
      <3> QED
        BY <1>u, <1>h, <3>1
    <2> QED
      BY <1>u, <1>h, <2>1, <2>2 DEF Inv, StreamTypeOK, OnChannel, OnWire
  <1>2. InLine'
    <2>1. \A x \in Elems(wire) : Before(x, h)
      <3> SUFFICES ASSUME NEW x \in Elems(wire) PROVE Before(x, h)
        OBVIOUS
      <3>1. x \in OnWire /\ x.type = "text"
        BY <1>q, <1>s DEF Elems
      <3>2. x.at \in Texts(wire)
        BY <3>1, EventKinds DEF Texts
      <3> QED
        BY <1>u, <1>h, <3>1, <3>2 DEF Inv, Overtaking, Ahead, Before
    <2>2. InOrder(Append(wire, h))
      BY <1>q, <2>1, AppendInOrder DEF Inv, InLine
    <2>3. InOrder(wire)' /\ InOrder(tokens)' /\ InOrder(outbox)'
      BY <1>u, <1>o, <2>2 DEF Inv, InLine, InOrder, Before
    <2> QED
      BY <1>u, <2>3 DEF Inv, InLine
  <1>3. Overtaking'
    BY <1>p, <1>u, <1>h, <1>t, <1>w DEF Inv, Overtaking, Ahead
  <1>4. NoGap'
    <2>1. CASE connected
      <3>1. Delivered' = Delivered \cup {h.at} /\ Delivered' \cup Underway' = Delivered \cup Underway
        BY <1>p, <1>u, <1>h, <1>w, <2>1 DEF Delivered, Underway
      <3>2. h.at \in Nat /\ Spoken \subseteq Nat /\ seen \in Nat /\ h.at <= seen
        BY <1>h, AnswerTyped DEF Inv, StreamTypeOK, NoGap, Underway, Taken
      <3>3. ASSUME NEW i \in Spoken, i < h.at PROVE i \in Delivered
        <4>1. i \in Delivered \cup Underway
          BY <2>1, <3>2, <3>3 DEF Inv, NoGap, Taken
        <4>2. i \notin Texts(tokens)
          BY <1>h, <1>t, <3>2, <3>3
        <4>3. i \notin Texts(outbox)
          <5>1. h.at \in Texts(tokens)
            BY <1>h
          <5>2. \A j \in Texts(outbox) : h.at < j
            BY <5>1 DEF Inv, Overtaking, Ahead
          <5> QED
            BY <3>2, <3>3, <5>2
        <4> QED
          BY <4>1, <4>2, <4>3 DEF Underway
      <3> QED
        BY <1>p, <1>u, <3>1, <3>3 DEF Inv, NoGap
    <2>2. CASE ~connected
      <3>1. Delivered' = Delivered /\ Underway' \subseteq Underway
        BY <1>p, <1>u, <1>h, <1>w, <2>2 DEF Delivered, Underway
      <3> QED
        BY <1>p, <1>u, <2>2, <3>1 DEF Inv, NoGap
    <2> QED
      BY <2>1, <2>2
  <1>5. GeneratorInStep'
    BY <1>u, <1>h DEF Inv, GeneratorInStep, Open, Elems
  <1>e. \A e \in Elems(wire)' : e.type = "text"
    <2>1. Elems(wire)' = Elems(wire')
      BY DEF Elems
    <2> QED
      BY <2>1, <1>s, <1>u, <1>w
  <1>6. (HandlerInStep /\ AllThere)'
    BY <1>s, <1>u, <1>e DEF HandlerInStep, AllThere, Has
  <1> QED
    BY <1>1, <1>2, <1>3, <1>4, <1>5, <1>6 DEF Inv

\* A step that moves no text, and neither reads on nor reconnects.
LEMMA TextsStay ==
    ASSUME Inv, UNCHANGED <<answer, seen, outbox, printed>>, connected' => connected,
           Texts(tokens') = Texts(tokens), Texts(wire') = Texts(wire)
    PROVE  /\ (Overtaking /\ NoGap)'
           /\ Delivered' = Delivered /\ Underway' = Underway /\ Taken' = Taken /\ Heard' = Heard
  <1>1. /\ Texts(wire)' = Texts(wire) /\ Texts(tokens)' = Texts(tokens)
        /\ Texts(outbox)' = Texts(outbox) /\ Taken' = Taken /\ Heard' = Heard /\ Spoken' = Spoken
    BY DEF Texts, Elems, Taken, Spoken, Heard
  <1>2. Delivered' = Delivered /\ Underway' = Underway
    BY <1>1 DEF Delivered, Underway
  <1> QED
    BY <1>1, <1>2 DEF Inv, Overtaking, Ahead, NoGap

\* The end of the stream is the last token of the channel.
LEMMA StreamEndsInv == ASSUME Inv, StreamEnds PROVE Inv'
  <1> DEFINE h == Head(tokens)
  <1>u. /\ UNCHANGED <<answer, longLine, gen, seen, outbox, wire, connected, client, printed, listed>>
        /\ tokens' = Tail(tokens) /\ tokens # <<>> /\ handler = "stream" /\ handler' = "sources"
        /\ h.type # "text"
    BY DEF StreamEnds, given, generator, terminal
  <1>q. tokens \in Seq(OnChannel) /\ tokens \in Seq(OnChannel \cup OnWire)
    BY QueueTypes DEF Inv
  <1>h. h \in {Done, Error} /\ Elems(tokens) = {h} \cup Elems(Tail(tokens))
    BY <1>q, <1>u, TailElems DEF OnChannel, Text
  <1>t. Tail(tokens) = <<>>
    <2>1. \A x \in Elems(Tail(tokens)) : Before(h, x)
      BY <1>q, <1>u, TailInOrder DEF Inv, InLine
    <2>2. \A x : ~Before(h, x)
      BY <1>h, TextsKnown DEF Before
    <2>3. ASSUME Tail(tokens) # <<>> PROVE FALSE
      <3>1. Tail(tokens) \in Seq(OnChannel)
        BY <1>q, <1>u, TailElems
      <3>2. Head(Tail(tokens)) \in Elems(Tail(tokens))
        BY <2>3, <3>1, TailElems
      <3> QED
        BY <2>1, <2>2, <3>2
    <2> QED
      BY <2>3
  <1>g. gen = "gone"
    BY <1>u, <1>h DEF Inv, GeneratorInStep
  <1>x. Texts(tokens') = Texts(tokens)
    BY <1>u, <1>q, TextsMove
  <1>1. StreamTypeOK'
    BY <1>u, <1>t, StreamAssumption DEF Inv, StreamTypeOK
  <1>2. InLine'
    BY <1>u, <1>t DEF Inv, InLine, InOrder, Before
  <1>3. (Overtaking /\ NoGap)'
    BY <1>u, <1>x, TextsStay
  <1>4. GeneratorInStep'
    BY <1>u, <1>g DEF Inv, GeneratorInStep
  <1>s. ~listed /\ client # "ok" /\ \A e \in Elems(wire) : e.type = "text"
    BY <1>u DEF Inv, HandlerInStep, AllThere
  <1>5. (HandlerInStep /\ AllThere)'
    BY <1>u, <1>t, <1>g, <1>s DEF HandlerInStep, AllThere, Has, Elems
  <1> QED
    BY <1>1, <1>2, <1>3, <1>4, <1>5 DEF Inv

\* When the handler is past the stream, all that was read is delivered, as
\* far as the connection has held.
LEMMA AllDelivered ==
    ASSUME Inv, handler # "stream", connected PROVE Delivered = Taken
  <1>1. tokens = <<>> /\ outbox = <<>>
    BY DEF Inv, HandlerInStep, GeneratorInStep
  <1>2. Underway = {}
    BY <1>1, ShortQueues DEF Underway, Texts
  <1> QED
    BY <1>2 DEF Inv, NoGap

\* What writing an event that is not a text does to the wire.
LEMMA WriteFacts ==
    ASSUME Inv, NEW e \in {Sources, Done}, WriteSSE(e)
    PROVE  /\ wire' \in Seq(OnWire) /\ Len(wire') <= WireCapacity
           /\ Texts(wire') = Texts(wire)
           /\ connected => Elems(wire') = Elems(wire) \cup {e} /\ wire' = Append(wire, e)
           /\ ~connected => wire' = wire
  <1>q. wire \in Seq(OnWire) /\ wire \in Seq(OnChannel \cup OnWire) /\ e \in OnWire
    BY QueueTypes DEF Inv, OnWire
  <1>1. CASE connected
    <2>1. wire' = Append(wire, e) /\ Len(wire) < WireCapacity
      BY <1>1 DEF WriteSSE
    <2>2. Append(wire, e) \in Seq(OnWire) /\ Len(Append(wire, e)) = Len(wire) + 1 /\ Len(wire) \in Nat
      BY <1>q
    <2>3. Texts(Append(wire, e)) = Texts(wire) /\ Elems(Append(wire, e)) = Elems(wire) \cup {e}
      BY <1>q, TextsMove, AppendElems
    <2> QED
      BY <1>1, <2>1, <2>2, <2>3, StreamAssumption
  <1>2. CASE ~connected
    BY <1>q, <1>2 DEF WriteSSE, Inv, StreamTypeOK
  <1> QED
    BY <1>1, <1>2

LEMMA WriteSourcesInv == ASSUME Inv, WriteSources PROVE Inv'
  <1>u. /\ UNCHANGED <<answer, longLine, gen, seen, outbox, tokens, connected, client, printed, listed>>
        /\ handler = "sources" /\ handler' = "done" /\ WriteSSE(Sources)
    BY DEF WriteSources, given, generator, terminal
  <1>w. /\ wire' \in Seq(OnWire) /\ Len(wire') <= WireCapacity
        /\ Texts(wire') = Texts(wire)
        /\ connected => Elems(wire') = Elems(wire) \cup {Sources} /\ wire' = Append(wire, Sources)
        /\ ~connected => wire' = wire
    BY <1>u, WriteFacts
  <1>s. ~listed /\ client # "ok" /\ \A e \in Elems(wire) : e.type = "text"
    BY <1>u DEF Inv, HandlerInStep, AllThere
  <1>1. StreamTypeOK'
    BY <1>u, <1>w DEF Inv, StreamTypeOK, OnWire
  <1>2. InLine'
    <2>1. \A x \in Elems(wire) : Before(x, Sources)
      BY <1>s, TextsKnown DEF Before
    <2>2. wire \in Seq(OnWire)
      BY QueueTypes DEF Inv
    <2>3. InOrder(Append(wire, Sources))
      BY <2>1, <2>2, AppendInOrder DEF Inv, InLine
    <2> QED
      BY <1>u, <1>w, <2>3 DEF Inv, InLine, InOrder, Before
  <1>t. /\ (Overtaking /\ NoGap)'
        /\ Delivered' = Delivered /\ Underway' = Underway /\ Taken' = Taken /\ Heard' = Heard
    BY <1>u, <1>w, TextsStay
  <1>4. GeneratorInStep'
    BY <1>u DEF Inv, GeneratorInStep, Open, Elems
  <1>e. Elems(wire)' = Elems(wire')
    BY DEF Elems
  <1>d. connected => Delivered = Taken
    BY <1>u, AllDelivered
  <1>5. HandlerInStep'
    <2>1. \A e \in Elems(wire') : e.type \in {"text", "sources"}
      BY <1>w, <1>s, TextsKnown
    <2>2. connected => Sources \in Elems(wire')
      BY <1>w
    <2> QED
      BY <1>u, <1>e, <2>1, <2>2, TextsKnown DEF Inv, HandlerInStep, Has
  <1>6. AllThere'
    <2>1. ~connected => \A e \in Elems(wire') : e.type = "text"
      BY <1>w, <1>s
    <2> QED
      BY <1>u, <1>s, <1>e, <1>t, <1>d, <2>1 DEF AllThere, Has
  <1> QED
    BY <1>1, <1>2, <1>t, <1>4, <1>5, <1>6 DEF Inv

LEMMA WriteDoneInv == ASSUME Inv, WriteDone PROVE Inv'
  <1>u. /\ UNCHANGED <<answer, longLine, gen, seen, outbox, tokens, connected, client, printed, listed>>
        /\ handler = "done" /\ handler' = "returned" /\ WriteSSE(Done)
    BY DEF WriteDone, given, generator, terminal
  <1>w. /\ wire' \in Seq(OnWire) /\ Len(wire') <= WireCapacity
        /\ Texts(wire') = Texts(wire)
        /\ connected => Elems(wire') = Elems(wire) \cup {Done} /\ wire' = Append(wire, Done)
        /\ ~connected => wire' = wire
    BY <1>u, WriteFacts
  <1>q. wire \in Seq(OnWire)
    BY QueueTypes DEF Inv
  <1>s. client # "ok" /\ \A e \in Elems(wire) : e.type \in {"text", "sources"}
    <2>1. \A e \in Elems(wire) : e.type \in {"text", "sources", "done"}
      BY <1>q, TextsKnown DEF Elems, OnWire
    <2> QED
      BY <1>u, <2>1 DEF Inv, HandlerInStep, AllThere, Has
  <1>1. StreamTypeOK'
    BY <1>u, <1>w DEF Inv, StreamTypeOK, OnWire
  <1>2. InLine'
    <2>1. \A x \in Elems(wire) : Before(x, Done)
      BY <1>s, TextsKnown DEF Before
    <2>3. InOrder(Append(wire, Done))
      BY <1>q, <2>1, AppendInOrder DEF Inv, InLine
    <2> QED
      BY <1>u, <1>w, <2>3 DEF Inv, InLine, InOrder, Before
  <1>t. /\ (Overtaking /\ NoGap)'
        /\ Delivered' = Delivered /\ Underway' = Underway /\ Taken' = Taken /\ Heard' = Heard
    BY <1>u, <1>w, TextsStay
  <1>4. GeneratorInStep'
    BY <1>u DEF Inv, GeneratorInStep, Open, Elems
  <1>e. Elems(wire)' = Elems(wire')
    BY DEF Elems
  <1>d. connected => Delivered = Taken /\ (listed \/ Has(wire, "sources"))
    BY <1>u, AllDelivered DEF Inv, HandlerInStep
  <1>5. HandlerInStep'
    <2>1. Has(wire, "sources") => Has(wire, "sources")'
      BY <1>w, <1>e DEF Has
    <2>2. Has(wire, "done")' => connected
      BY <1>w, <1>e, <1>s DEF Has
    <2> QED
      BY <1>u, <1>d, <2>1, <2>2 DEF Inv, HandlerInStep
  <1>6. AllThere'
    <2>1. ~connected => Elems(wire') = Elems(wire)
      BY <1>w
    <2> QED
      BY <1>u, <1>s, <1>e, <1>t, <1>d, <2>1 DEF Inv, AllThere, Has
  <1> QED
    BY <1>1, <1>2, <1>t, <1>4, <1>5, <1>6 DEF Inv

-----------------------------------------------------------------------------
\* The steps of the client, and of the connection.

\* What taking an event from the wire leaves there.
LEMMA TakeFacts ==
    ASSUME Inv, wire # <<>>
    PROVE  /\ Tail(wire) \in Seq(OnWire) /\ Len(Tail(wire)) <= WireCapacity
           /\ Elems(wire) = {Head(wire)} \cup Elems(Tail(wire)) /\ Head(wire) \in OnWire
           /\ InOrder(Tail(wire)) /\ \A x \in Elems(Tail(wire)) : Before(Head(wire), x)
           /\ Head(wire).type = "text" =>
                 /\ Head(wire).at \in DOMAIN answer
                 /\ Texts(wire) = {Head(wire).at} \cup Texts(Tail(wire))
           /\ Head(wire).type # "text" => Texts(wire) = Texts(Tail(wire))
  <1>q. wire \in Seq(OnWire) /\ wire \in Seq(OnChannel \cup OnWire)
    BY QueueTypes DEF Inv
  <1>1. /\ Tail(wire) \in Seq(OnWire) /\ Len(Tail(wire)) = Len(wire) - 1
        /\ Elems(wire) = {Head(wire)} \cup Elems(Tail(wire)) /\ Head(wire) \in OnWire
    BY <1>q, TailElems
  <1>2. Len(Tail(wire)) <= WireCapacity
    <2>1. Len(wire) \in Nat /\ Len(wire) <= WireCapacity /\ WireCapacity \in Nat
      BY <1>q, StreamAssumption DEF Inv, StreamTypeOK
    <2> QED
      BY <1>1, <2>1
  <1>3. InOrder(Tail(wire)) /\ \A x \in Elems(Tail(wire)) : Before(Head(wire), x)
    BY <1>q, TailInOrder DEF Inv, InLine
  <1>4. /\ Head(wire).type = "text" =>
              /\ Head(wire).at \in DOMAIN answer
              /\ Texts(wire) = {Head(wire).at} \cup Texts(Tail(wire))
        /\ Head(wire).type # "text" => Texts(wire) = Texts(Tail(wire))
    BY <1>q, TextsMove
  <1> QED
    BY <1>1, <1>2, <1>3, <1>4

LEMMA PrintTokenInv == ASSUME Inv, PrintToken PROVE Inv'
  <1> DEFINE h == Head(wire)
  <1>u. /\ UNCHANGED <<answer, longLine, gen, seen, outbox, tokens, handler, connected, client, listed>>
        /\ client = "read" /\ wire # <<>> /\ h.type = "text"
        /\ printed' = Append(printed, h.at) /\ wire' = Tail(wire)
    BY DEF PrintToken, given, generator
  <1>w. /\ wire' \in Seq(OnWire) /\ Len(wire') <= WireCapacity
        /\ Elems(wire) = {h} \cup Elems(wire')
        /\ InOrder(wire') /\ \A x \in Elems(wire') : Before(h, x)
        /\ h.at \in DOMAIN answer /\ Texts(wire) = {h.at} \cup Texts(wire')
    BY <1>u, TakeFacts
  <1>r. /\ printed \in Seq(DOMAIN answer) /\ Len(printed) \in Nat
        /\ DOMAIN printed = 1 .. Len(printed) /\ DOMAIN printed' = 1 .. Len(printed) + 1
        /\ \A n \in 1 .. Len(printed) : printed'[n] = printed[n]
        /\ printed'[Len(printed) + 1] = h.at
    BY <1>u DEF Inv, StreamTypeOK
  <1>n. \A n : n \in 1 .. Len(printed) + 1 <=> n \in 1 .. Len(printed) \/ n = Len(printed) + 1
    BY <1>r
  <1>p. /\ Texts(wire)' = Texts(wire') /\ Texts(tokens)' = Texts(tokens)
        /\ Texts(outbox)' = Texts(outbox) /\ Taken' = Taken /\ Spoken' = Spoken
        /\ Elems(wire)' = Elems(wire')
    BY <1>u DEF Texts, Elems, Taken, Spoken
  <1>h. Heard' = Heard \cup {h.at}
    BY <1>r, <1>n DEF Heard
  <1>b. \A i \in Heard : i < h.at
    BY <1>w DEF Inv, Overtaking, Ahead
  <1>t. \A j \in Texts(wire') : h.at < j
    <2>1. \A j \in Texts(wire') : Before(h, Text(j))
      BY <1>w DEF Texts
    <2> QED
      BY <1>u, <2>1, TextsKnown DEF Before
  <1>1. StreamTypeOK'
    <2>1. printed' \in Seq(DOMAIN answer)
      BY <1>u, <1>r, <1>w
    <2> QED
      BY <1>u, <1>w, <2>1 DEF Inv, StreamTypeOK, OnWire
  <1>2. InLine'
    <2>1. ASSUME NEW m \in 1 .. Len(printed) + 1, NEW n \in 1 .. Len(printed) + 1, m < n
          PROVE  printed'[m] < printed'[n]
      <3>1. m \in 1 .. Len(printed)
        BY <1>r, <2>1
      <3>2. CASE n \in 1 .. Len(printed)
        BY <1>r, <2>1, <3>1, <3>2 DEF Inv, InLine
      <3>3. CASE n = Len(printed) + 1
        BY <1>r, <1>b, <3>1, <3>3 DEF Heard
      <3> QED
        BY <1>n, <3>2, <3>3
    <2> QED
      BY <1>u, <1>w, <1>r, <2>1 DEF Inv, InLine, InOrder, Before
  <1>3. Overtaking'
    BY <1>p, <1>h, <1>w, <1>t DEF Inv, Overtaking, Ahead
  <1>4. Delivered' = Delivered /\ Underway' = Underway
    BY <1>p, <1>h, <1>w DEF Delivered, Underway
  <1>5. NoGap'
    BY <1>u, <1>p, <1>4 DEF Inv, NoGap
  <1>6. GeneratorInStep'
    BY <1>u DEF Inv, GeneratorInStep, Open, Elems
  <1>k. \A type \in {"sources", "done"} : Has(wire, type)' <=> Has(wire, type)
    BY <1>u, <1>p, <1>w DEF Has
  <1>7. HandlerInStep'
    BY <1>u, <1>p, <1>w, <1>k DEF Inv, HandlerInStep
  <1>8. AllThere'
    BY <1>u, <1>p, <1>4, <1>k DEF Inv, AllThere
  <1> QED
    BY <1>1, <1>2, <1>3, <1>5, <1>6, <1>7, <1>8 DEF Inv

LEMMA PrintSourcesInv == ASSUME Inv, PrintSources PROVE Inv'
  <1> DEFINE h == Head(wire)
  <1>u. /\ UNCHANGED <<answer, longLine, gen, seen, outbox, tokens, handler, connected, client, printed>>
        /\ client = "read" /\ wire # <<>> /\ h.type = "sources"
        /\ listed' = TRUE /\ wire' = Tail(wire)
    BY DEF PrintSources, given, generator
  <1>w. /\ wire' \in Seq(OnWire) /\ Len(wire') <= WireCapacity
        /\ Elems(wire) = {h} \cup Elems(wire')
        /\ InOrder(wire') /\ Texts(wire') = Texts(wire)
    BY <1>u, TakeFacts
  <1>e. Elems(wire)' = Elems(wire')
    BY DEF Elems
  <1>s. handler \in {"done", "returned"}
    BY <1>u, <1>w DEF Inv, HandlerInStep, StreamTypeOK
  <1>a. Delivered = Taken
    BY <1>u, <1>w DEF Inv, AllThere, Has
  <1>1. StreamTypeOK'
    BY <1>u, <1>w DEF Inv, StreamTypeOK, OnWire
  <1>2. InLine'
    BY <1>u, <1>w DEF Inv, InLine, InOrder, Before
  <1>3. /\ (Overtaking /\ NoGap)'
        /\ Delivered' = Delivered /\ Underway' = Underway /\ Taken' = Taken /\ Heard' = Heard
    BY <1>u, <1>w, TextsStay
  <1>4. GeneratorInStep'
    BY <1>u DEF Inv, GeneratorInStep, Open, Elems
  <1>5. HandlerInStep'
    BY <1>u, <1>e, <1>w, <1>s DEF Inv, HandlerInStep, Has
  <1>6. AllThere'
    BY <1>u, <1>3, <1>a DEF Inv, AllThere
  <1> QED
    BY <1>1, <1>2, <1>3, <1>4, <1>5, <1>6 DEF Inv

\* At the end of the wire everything before it has been printed.
LEMMA FinishFacts ==
    ASSUME Inv, Finish PROVE handler = "returned" /\ listed /\ Heard = Taken
  <1> DEFINE h == Head(wire)
  <1>u. wire # <<>> /\ h.type = "done"
    BY DEF Finish
  <1>w. /\ Elems(wire) = {h} \cup Elems(Tail(wire)) /\ \A x \in Elems(Tail(wire)) : Before(h, x)
        /\ Texts(wire) = Texts(Tail(wire))
    BY <1>u, TakeFacts
  <1>b. \A x : ~Before(h, x)
    BY <1>u DEF Before
  <1>1. Elems(wire) = {h}
    BY <1>w, <1>b
  <1>2. Has(wire, "done") /\ ~Has(wire, "sources")
    BY <1>u, <1>1 DEF Has
  <1>3. Texts(wire) = {}
    BY <1>u, <1>1, TextsKnown DEF Texts
  <1>4. handler = "returned" /\ listed /\ Delivered = Taken
    BY <1>2 DEF Inv, HandlerInStep, AllThere
  <1> QED
    BY <1>3, <1>4 DEF Delivered

\* The steps that only end the client or the connection.
LEMMA PartInv == ASSUME Inv, LineTooLong \/ Finish \/ Leave \/ ResponseEnds \/ Disconnect PROVE Inv'
  <1>u. /\ UNCHANGED <<answer, longLine, gen, seen, outbox, tokens, handler, wire, printed, listed>>
        /\ connected' \in BOOLEAN /\ (connected' => connected)
        /\ client' \in {"read", "ok", "ended", "failed"}
        /\ client' = "ok" => client = "ok" \/ Finish
    <2>c. connected \in BOOLEAN /\ client \in {"read", "ok", "ended", "failed"}
      BY DEF Inv, StreamTypeOK
    <2>1. CASE LineTooLong
      BY <2>1, <2>c DEF LineTooLong, given, generator
    <2>2. CASE Finish
      BY <2>2, <2>c DEF Finish, given, generator
    <2>3. CASE Leave
      BY <2>3, <2>c DEF Leave, given, generator
    <2>4. CASE ResponseEnds
      BY <2>4, <2>c DEF ResponseEnds, given, generator
    <2>5. CASE Disconnect
      BY <2>5, <2>c DEF Disconnect, given, generator, terminal
    <2> QED
      BY <2>1, <2>2, <2>3, <2>4, <2>5
  <1>1. StreamTypeOK'
    BY <1>u DEF Inv, StreamTypeOK
  <1>2. InLine'
    BY <1>u DEF Inv, InLine, InOrder, Before
  <1>3. /\ (Overtaking /\ NoGap)'
        /\ Delivered' = Delivered /\ Underway' = Underway /\ Taken' = Taken /\ Heard' = Heard
    BY <1>u, TextsStay
  <1>4. GeneratorInStep'
    BY <1>u DEF Inv, GeneratorInStep, Open, Elems
  <1>5. HandlerInStep'
    BY <1>u DEF Inv, HandlerInStep, Has, Elems
  <1>6. AllThere'
    BY <1>u, <1>3, FinishFacts DEF Inv, AllThere, Has, Elems
  <1> QED
    BY <1>1, <1>2, <1>3, <1>4, <1>5, <1>6 DEF Inv

-----------------------------------------------------------------------------

LEMMA NextInv == Inv /\ [StreamNext]_streamVars => Inv'
  <1> SUFFICES ASSUME Inv, [StreamNext]_streamVars PROVE Inv'
    OBVIOUS
  <1>1. CASE Generate
    BY <1>1, RequestAcceptedInv, BodyOverInv, ScanEventInv, SendInv DEF Generate
  <1>2. CASE Handle
    BY <1>2, ForwardInv, StreamEndsInv, WriteSourcesInv, WriteDoneInv DEF Handle
  <1>3. CASE Read \/ Disconnect
    BY <1>3, PrintTokenInv, PrintSourcesInv, PartInv DEF Read
  <1>4. CASE UNCHANGED streamVars
    <2>u. /\ UNCHANGED <<answer, longLine, gen, seen, outbox, tokens, handler, wire, connected>>
          /\ UNCHANGED <<client, printed, listed>>
      BY <1>4 DEF streamVars
    <2>1. StreamTypeOK'
      BY <2>u DEF Inv, StreamTypeOK
    <2>2. InLine'
      BY <2>u DEF Inv, InLine, InOrder, Before
    <2>3. Overtaking' /\ NoGap'
      BY <2>u, TextsStay
    <2>4. GeneratorInStep'
      BY <2>u DEF Inv, GeneratorInStep, Open, Elems
    <2>5. HandlerInStep'
      BY <2>u DEF Inv, HandlerInStep, Has, Elems
    <2>6. AllThere'
      BY <2>u, TextsStay DEF Inv, AllThere, Has, Elems
    <2> QED
      BY <2>1, <2>2, <2>3, <2>4, <2>5, <2>6 DEF Inv
  <1> QED
    BY <1>1, <1>2, <1>3, <1>4 DEF StreamNext

THEOREM Invariance == StreamSpec => []Inv
  BY InitInv, NextInv, PTL DEF StreamSpec

\* Generator, channel, connection and client keep their types; the channel
\* and the connection never hold more than they can.
THEOREM TypeCorrect == StreamSpec => []StreamTypeOK
  <1>1. Inv => StreamTypeOK
    BY DEF Inv
  <1> QED
    BY <1>1, Invariance, PTL

\* However fast the two goroutines and the client are and wherever the
\* connection breaks, what doQuery has printed is the beginning of what the
\* model said, each text once and in its place.
THEOREM Printed == StreamSpec => []PrintedInOrder
  <1>1. Inv => PrintedInOrder
    <2> SUFFICES ASSUME Inv, NEW n \in DOMAIN printed
                 PROVE  /\ printed[n] \in Spoken
                        /\ {i \in Spoken : i < printed[n]} = {printed[m] : m \in 1 .. n - 1}
      BY DEF PrintedInOrder
    <2>d. printed \in Seq(DOMAIN answer) /\ DOMAIN printed = 1 .. Len(printed) /\ Len(printed) \in Nat
      BY DEF Inv, StreamTypeOK
    <2>n. Spoken \subseteq Nat
      BY AnswerTyped DEF Inv, StreamTypeOK
    <2>1. Heard \subseteq Spoken
      BY DEF Inv, NoGap, Delivered, Taken
    <2>2. printed[n] \in Heard
      BY DEF Heard
    <2>3. ASSUME NEW i \in Spoken, i < printed[n] PROVE \E m \in 1 .. n - 1 : i = printed[m]
      <3>1. i \in Delivered
        BY <2>2, <2>3 DEF Inv, NoGap, Delivered
      <3>2. i \notin Texts(wire)
        <4>1. \A j \in Texts(wire) : printed[n] < j
          BY <2>2 DEF Inv, Overtaking, Ahead
        <4>2. printed[n] \in Nat /\ i \in Nat
          BY <2>n, <2>1, <2>2
        <4>3. i \in Texts(wire) => printed[n] < i
          BY <4>1
        <4> QED
          BY <2>3, <4>2, <4>3
      <3>3. PICK m \in DOMAIN printed : i = printed[m]
        BY <3>1, <3>2 DEF Delivered, Heard
      <3>4. m < n
        <4>1. n < m => printed[n] < printed[m]
          BY DEF Inv, InLine
        <4>2. printed[n] \in Nat /\ i \in Nat
          BY <2>n, <2>1, <2>2
        <4> QED
          BY <2>3, <2>d, <3>3, <4>1, <4>2
      <3> QED
        BY <2>d, <3>3, <3>4
    <2>4. ASSUME NEW m \in 1 .. n - 1 PROVE printed[m] \in Spoken /\ printed[m] < printed[n]
      <3>1. m \in DOMAIN printed /\ m < n
        BY <2>d
      <3> QED
        BY <2>1, <3>1 DEF Heard, Inv, InLine
    <2> QED
      BY <2>1, <2>2, <2>3, <2>4
  <1> QED
    BY <1>1, Invariance, PTL

\* A query that the client takes for answered was printed with its sources
\* and every text the generator had read: a break behind the generator is
\* always noticed.
THEOREM Answered == StreamSpec => []AnsweredIsComplete
  <1>1. Inv => AnsweredIsComplete
    BY DEF Inv, AllThere, AnsweredIsComplete, Heard, Taken
  <1> QED
    BY <1>1, Invariance, PTL
=============================================================================
